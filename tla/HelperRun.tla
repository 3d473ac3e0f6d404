------------------------------ MODULE HelperRun ------------------------------
(***************************************************************************)
(* run() of sampler/src/util.rs: a system helper is started in a process   *)
(* group of its own, its output is read without blocking and up to a       *)
(* limit, and it is killed and reaped when it takes too long.  The helper  *)
(* may leave a descendant behind, in its group or out of it, that keeps    *)
(* the pipe open.                                                          *)
(*                                                                         *)
(* Output is counted in reads.  The clock counts the naps between polls.   *)
(***************************************************************************)
EXTENDS Integers

CONSTANTS
  OUTPUT_LIMIT,   \* COMMAND_OUTPUT_LIMIT, in reads
  TIMEOUT,        \* naps before the helper is killed
  PIPE            \* bound: reads' worth of output the pipe holds

ASSUME HelperAssumption ==
  OUTPUT_LIMIT \in Nat /\ TIMEOUT \in Nat /\ PIPE \in Nat \ {0}

VARIABLES
  helper,       \* "none", "running", "hung", "zombie" or "reaped"
  heir,         \* its descendant
  doomed,       \* has SIGKILL been sent to the hung helper?
  pipe,         \* output not yet read
  pc,           \* where run() is
  output,       \* reads kept
  eof, exited,
  clock,
  result        \* "output", or "nothing" for the empty string

procVars == <<helper, heir, doomed, pipe>>
vars == <<procVars, pc, output, eof, exited, clock, result>>

Alive   == helper \in {"running", "hung"}
Writers == Alive \/ heir \in {"inside", "outside"}

Init ==
  /\ helper = "none" /\ heir = "none"
  /\ doomed = FALSE
  /\ pipe = 0
  /\ pc = "spawn"
  /\ output = 0
  /\ eof = FALSE /\ exited = FALSE
  /\ clock = 0
  /\ result = "nothing"

-----------------------------------------------------------------------------
(* The helper and its descendant: "inside" the group, inside with the pipe   *)
(* closed, or "outside" it.                                                  *)

Write ==
  /\ helper = "running" \/ heir \in {"inside", "outside"}
  /\ pipe < PIPE
  /\ pipe' = pipe + 1
  /\ UNCHANGED <<helper, heir, doomed>>

Fork ==
  /\ helper = "running" /\ heir = "none"
  /\ heir' \in {"inside", "closed", "outside"}
  /\ UNCHANGED <<helper, doomed, pipe>>

Leave ==
  /\ \/ helper = "running" /\ helper' = "zombie" /\ UNCHANGED heir
     \/ heir \in {"inside", "closed", "outside"} /\ heir' = "dead" /\ UNCHANGED helper
  /\ UNCHANGED <<doomed, pipe>>

Hang ==
  /\ helper = "running"
  /\ helper' = "hung"
  /\ UNCHANGED <<heir, doomed, pipe>>

Unhang ==
  /\ helper = "hung"
  /\ helper' = IF doomed THEN "zombie" ELSE "running"
  /\ UNCHANGED <<heir, doomed, pipe>>

Others == (Write \/ Fork \/ Leave \/ Hang \/ Unhang)
          /\ UNCHANGED <<pc, output, eof, exited, clock, result>>

-----------------------------------------------------------------------------
(* kill_process_group, applied to the helper as it was left by try_wait.     *)

KillGroup(h) ==
  /\ helper' = IF h = "running" THEN "zombie" ELSE h
  /\ doomed' = (doomed \/ h = "hung")
  /\ heir' = IF heir \in {"inside", "closed"} THEN "dead" ELSE heir

\* Every failure kills the group and waits for the helper.
GiveUp == KillGroup(helper) /\ pc' = "reap"

Spawn ==
  /\ pc = "spawn"
  /\ \/ pc' = "done" /\ UNCHANGED procVars
     \/ helper' = "running" /\ pc' \in {"setup", "read"}
        /\ UNCHANGED <<heir, doomed, pipe>>
  /\ UNCHANGED <<output, eof, exited, clock, result>>

\* The pipe could not be taken, or made non-blocking.
SetupFails ==
  /\ pc = "setup"
  /\ GiveUp
  /\ UNCHANGED <<pipe, output, eof, exited, clock, result>>

\* Mutant: the limit is checked before the read is counted.
ReadOneMore ==
  /\ pc = "read" /\ pipe > 0
  /\ pipe' = pipe - 1
  /\ IF output > OUTPUT_LIMIT
     THEN GiveUp /\ UNCHANGED output
     ELSE output' = output + 1 /\ UNCHANGED <<helper, heir, doomed, pc>>
  /\ UNCHANGED <<eof, exited, clock, result>>

Read ==
  /\ pc = "read" /\ pipe > 0
  /\ pipe' = pipe - 1
  /\ IF output + 1 > OUTPUT_LIMIT
     THEN GiveUp /\ UNCHANGED output
     ELSE output' = output + 1 /\ UNCHANGED <<helper, heir, doomed, pc>>
  /\ UNCHANGED <<eof, exited, clock, result>>

\* There is nothing to read, now or for ever.
ReadNothing ==
  /\ pc = "read" /\ pipe = 0
  /\ eof' = (eof \/ ~Writers)
  /\ pc' = "poll"
  /\ UNCHANGED <<procVars, output, exited, clock, result>>

ReadFails ==
  /\ pc \in {"read", "poll"}
  /\ GiveUp
  /\ UNCHANGED <<pipe, output, eof, exited, clock, result>>

\* Mutant: what the helper left in its group is spared.
TryWaitSparing ==
  IF ~exited /\ helper = "zombie"
  THEN exited' = TRUE /\ helper' = "reaped" /\ UNCHANGED <<heir, doomed>>
  ELSE UNCHANGED <<exited, helper, heir, doomed>>

\* try_wait: a helper that has exited is reaped, and whatever it left in its
\* group killed, once.
TryWait ==
  IF ~exited /\ helper = "zombie"
  THEN exited' = TRUE /\ KillGroup("reaped")
  ELSE UNCHANGED <<exited, helper, heir, doomed>>

\* Mutants: the helper's exit is the end of its output; a helper that has
\* exited has no deadline.
PollExited ==
  /\ pc = "poll"
  /\ TryWait
  /\ IF exited'
     THEN pc' = "done" /\ result' = "output"
     ELSE /\ pc' = IF clock >= TIMEOUT THEN "expired" ELSE "nap"
          /\ UNCHANGED result
  /\ UNCHANGED <<pipe, output, eof, clock>>

PollUntimed ==
  /\ pc = "poll"
  /\ TryWait
  /\ IF exited' /\ eof
     THEN pc' = "done" /\ result' = "output"
     ELSE /\ pc' = IF clock >= TIMEOUT /\ ~exited' THEN "expired" ELSE "nap"
          /\ UNCHANGED result
  /\ UNCHANGED <<pipe, output, eof, clock>>

Poll ==
  /\ pc = "poll"
  /\ TryWait
  /\ IF exited' /\ eof
     THEN pc' = "done" /\ result' = "output"
     ELSE /\ pc' = IF clock >= TIMEOUT THEN "expired" ELSE "nap"
          /\ UNCHANGED result
  /\ UNCHANGED <<pipe, output, eof, clock>>

Expire ==
  /\ pc = "expired"
  /\ GiveUp
  /\ UNCHANGED <<pipe, output, eof, exited, clock, result>>

Nap ==
  /\ pc = "nap"
  /\ pc' = "read"
  /\ clock' = IF clock < TIMEOUT THEN clock + 1 ELSE clock
  /\ UNCHANGED <<procVars, output, eof, exited, result>>

\* child.wait(): until the helper has gone, however long that takes.
Reap ==
  /\ pc = "reap" /\ helper \in {"zombie", "reaped"}
  /\ helper' = "reaped"
  /\ pc' = "done"
  /\ UNCHANGED <<heir, doomed, pipe, output, eof, exited, clock, result>>

Run == Spawn \/ SetupFails \/ Read \/ ReadNothing \/ ReadFails \/ Poll \/ Expire
       \/ Nap \/ Reap

Next == Others \/ Run

\* The sampler's thread is scheduled; of the helper nothing is known.
Spec == Init /\ [][Next]_vars /\ WF_vars(Run)

-----------------------------------------------------------------------------
TypeOK ==
  /\ helper \in {"none", "running", "hung", "zombie", "reaped"}
  /\ heir \in {"none", "inside", "closed", "outside", "dead"}
  /\ doomed \in BOOLEAN
  /\ pipe \in 0 .. PIPE
  /\ pc \in {"spawn", "setup", "read", "poll", "expired", "nap", "reap", "done"}
  /\ output \in 0 .. OUTPUT_LIMIT
  /\ eof \in BOOLEAN /\ exited \in BOOLEAN
  /\ clock \in 0 .. TIMEOUT
  /\ result \in {"output", "nothing"}

\* A helper leaves nothing behind: when run() returns it has been reaped, and
\* no process is left in its group.
NothingLeft ==
  pc = "done" => helper \in {"none", "reaped"} /\ heir \notin {"inside", "closed"}

\* What run() returns is all that was written: nobody can write any more and
\* nothing is left in the pipe.
NothingMissing == pc = "done" /\ result = "output" => ~Writers /\ pipe = 0

\* run() returns, whatever the helper and its descendant do, unless the helper
\* is stuck for ever where no signal reaches it.
Returns == <>(pc = "done") \/ <>[](helper = "hung")
=============================================================================
