--------------------------- MODULE ControlRegister ---------------------------
(***************************************************************************)
(* What the sampler promises about control lines, whatever its loop looks  *)
(* like (the comment on Shared in sampler/src/main.rs): a new interval,    *)
(* detail level or page applies at once, not after the rest of the old     *)
(* interval.  The sampler may rest only while it has applied what is       *)
(* wanted, a request ends its rest, and a request is applied unless the    *)
(* sampler ends.                                                           *)
(***************************************************************************)
CONSTANT Value          \* what can be wanted of the sampler

VARIABLES
  wanted,               \* the last value requested
  applied,              \* the value the sampler works with
  mode                  \* "busy", "resting" or "ended"

vars == <<wanted, applied, mode>>

Init ==
  /\ wanted \in Value
  /\ applied = wanted
  /\ mode = "busy"

\* A control line arrives, and ends a rest even when it changes nothing.
Request ==
  /\ mode # "ended"
  /\ wanted' \in Value
  /\ mode' = "busy"
  /\ UNCHANGED applied

Apply ==
  /\ mode = "busy"
  /\ applied' = wanted
  /\ UNCHANGED <<wanted, mode>>

Rest ==
  /\ mode = "busy"
  /\ applied = wanted
  /\ mode' = "resting"
  /\ UNCHANGED <<wanted, applied>>

Resume ==
  /\ mode = "resting"
  /\ mode' = "busy"
  /\ UNCHANGED <<wanted, applied>>

\* The sampler ends, on request or because nobody reads its output.
End ==
  /\ mode = "busy"
  /\ mode' = "ended"
  /\ applied' \in {applied, wanted}
  /\ UNCHANGED wanted

Next == Request \/ Apply \/ Rest \/ Resume \/ End

Spec == Init /\ [][Next]_vars /\ WF_vars(Apply)
=============================================================================
