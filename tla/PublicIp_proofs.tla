--------------------------- MODULE PublicIp_proofs ---------------------------
(***************************************************************************)
(* Theorems about the requests for the public address, for any addresses   *)
(* and any backlog.                                                        *)
(***************************************************************************)
EXTENDS PublicIp, TLAPS

USE PublicIpAssumption
USE DEF userVars, serviceVars, processVars, samplerVars

\* The lookups in flight, none or one, stay so when one is started, answered
\* or taken away.
LEMMA InFlightNext ==
  ASSUME lookups \in InFlight
  PROVE  /\ FetchPublicIp => lookups' = <<Asking>> \/ (lookups' = lookups /\ lookups # <<>>)
         /\ \A i \in DOMAIN lookups :
              /\ i = 1 /\ lookups[i] \in Answers \cup {Asking}
              /\ \A a \in Answers : [lookups EXCEPT ![i] = a] = <<a>>
              /\ SubSeq(lookups, 1, i - 1) \o SubSeq(lookups, i + 1, Len(lookups)) = <<>>
<1>1. CASE lookups = <<>>
  <2>1. DOMAIN lookups = {}
    BY <1>1
  <2>2. FetchPublicIp => lookups' = <<Asking>>
    BY <1>1 DEF FetchPublicIp
  <2>. QED
    BY <2>1, <2>2
<1>2. ASSUME NEW a \in Answers \cup {Asking}, lookups = <<a>>
      PROVE  /\ FetchPublicIp => lookups' = lookups /\ lookups # <<>>
             /\ \A i \in DOMAIN lookups :
                  /\ i = 1 /\ lookups[i] = a
                  /\ \A b \in Answers : [lookups EXCEPT ![i] = b] = <<b>>
                  /\ SubSeq(lookups, 1, i - 1) \o SubSeq(lookups, i + 1, Len(lookups)) = <<>>
  <2>1. FetchPublicIp => lookups' = lookups /\ lookups # <<>>
    BY <1>2 DEF FetchPublicIp
  <2>2. DOMAIN lookups = {1} /\ Len(lookups) = 1 /\ lookups[1] = a
    BY <1>2
  <2>3. SubSeq(lookups, 1, 0) = <<>> /\ SubSeq(lookups, 2, 1) = <<>>
    BY <1>2
  <2>4. \A b \in Answers : [lookups EXCEPT ![1] = b] = <<b>>
    BY <1>2
  <2>. QED
    BY <2>1, <2>2, <2>3, <2>4
<1>. QED
  BY <1>1, <1>2 DEF InFlight

LEMMA InitType == Init => TypeOK
<1>1. <<>> \in InFlight /\ 0 \in Nat
  BY DEF InFlight
<1>. QED
  BY <1>1 DEF Init, TypeOK, Answers

LEMMA StepType == TypeOK /\ [Next]_vars => TypeOK'
<1>. SUFFICES ASSUME TypeOK, [Next]_vars PROVE TypeOK'
  OBVIOUS
<1>. USE DEF TypeOK
<1>0. backlog \in Nat /\ <<>> \in InFlight
  BY DEF InFlight
<1>1. CASE SetEnabled \/ Move \/ TenMinutes
  BY <1>1 DEF SetEnabled, Move, TenMinutes
<1>2. ASSUME NEW force \in BOOLEAN, RequestPublicIp(force) PROVE TypeOK'
  <2>1. backlog' \in Nat
    BY <1>0, <1>2 DEF RequestPublicIp
  <2>. QED
    BY <1>2, <2>1 DEF RequestPublicIp
<1>3. CASE OnStarted
  <2>1. backlog' \in Nat
    BY <1>0, <1>3 DEF OnStarted
  <2>. QED
    BY <1>3, <2>1 DEF OnStarted
<1>4. CASE Exit
  BY <1>0, <1>4 DEF Exit, Answers
<1>5. CASE OnExited
  <2>1. backlog' \in Nat
    BY <1>0, <1>5 DEF OnExited
  <2>2. owed' \in BOOLEAN
    BY <1>5 DEF OnExited
  <2>. QED
    BY <1>5, <2>1, <2>2 DEF OnExited
<1>6. CASE Restart \/ Emit
  BY <1>6 DEF Restart, Emit
<1>7. CASE Listen
  <2>1. backlog' \in Nat
    BY <1>0, <1>7 DEF Listen
  <2>. QED
    BY <1>7, <2>1 DEF Listen
<1>8. CASE Take
  <2>1. lookups' \in InFlight
    BY <1>8, InFlightNext DEF Take, InFlight
  <2>. QED
    BY <1>8, <2>1 DEF Take
<1>9. ASSUME NEW i \in DOMAIN lookups, Answer(i) PROVE TypeOK'
  <2>1. PICK a \in {network, NoAddress} : lookups' = [lookups EXCEPT ![i] = a]
    BY <1>9 DEF Answer
  <2>2. a \in Answers
    BY DEF Answers
  <2>3. lookups' = <<a>>
    BY <2>1, <2>2, InFlightNext
  <2>4. lookups' \in InFlight
    BY <2>2, <2>3 DEF InFlight
  <2>. QED
    BY <1>9, <2>4 DEF Answer
<1>10. ASSUME NEW i \in DOMAIN lookups, LookupEnds(i) PROVE TypeOK'
  <2>1. lookups' = <<>> /\ value' \in Answers
    BY <1>10, InFlightNext DEF LookupEnds
  <2>. QED
    BY <1>0, <1>10, <2>1 DEF LookupEnds
<1>11. CASE UNCHANGED vars
  BY <1>11 DEF vars
<1>. QED
  BY <1>1, <1>2, <1>3, <1>4, <1>5, <1>6, <1>7, <1>8, <1>9, <1>10, <1>11
     DEF Next, User, Lookup, LookupPublicIp, Refresh, IpcRefresh

\* Every reachable state of service, pipe and lookup is well typed; in
\* particular, one lookup is in flight at most.
THEOREM TypeCorrect == Spec => []TypeOK
<1>. QED
  BY InitType, StepType, PTL DEF Spec

-----------------------------------------------------------------------------
\* A process that has ended looks nothing up, and none is alive or has unread
\* requests while the Process is not running.
ProcessInv ==
  /\ ~alive => ~requested /\ lookups = <<>>
  /\ ~running => ~alive /\ backlog = 0

LEMMA StepOnItsWay ==
  TypeOK /\ ProcessInv /\ RequestOnItsWay /\ [Next]_vars
    => ProcessInv' /\ RequestOnItsWay'
<1>. SUFFICES ASSUME TypeOK, ProcessInv, RequestOnItsWay, [Next]_vars
              PROVE  ProcessInv' /\ RequestOnItsWay'
  OBVIOUS
<1>0. lookups \in InFlight /\ backlog \in Nat
  BY DEF TypeOK
<1>. USE DEF ProcessInv, RequestOnItsWay
<1>1. CASE SetEnabled \/ Move \/ TenMinutes
  BY <1>1 DEF SetEnabled, Move, TenMinutes
<1>2. ASSUME NEW force \in BOOLEAN, RequestPublicIp(force)
      PROVE  ProcessInv' /\ RequestOnItsWay'
  BY <1>0, <1>2 DEF RequestPublicIp
<1>3. CASE OnStarted
  BY <1>0, <1>3 DEF OnStarted
<1>4. CASE Exit
  \* A request the process had is lost with it; one it had not read is lost
  \* when the service learns of it.
  BY <1>4 DEF Exit
<1>5. CASE OnExited
  BY <1>5 DEF OnExited
<1>6. CASE Restart
  BY <1>0, <1>6 DEF Restart
<1>7. CASE Listen
  BY <1>0, <1>7 DEF Listen
<1>8. CASE Take
  <2>1. lookups' = <<Asking>> \/ (lookups' = lookups /\ lookups # <<>>)
    BY <1>0, <1>8, InFlightNext DEF Take
  <2>2. <<Asking>> # <<>>
    OBVIOUS
  <2>3. lookups' # <<>>
    BY <2>1, <2>2
  <2>. QED
    BY <1>8, <2>3 DEF Take
<1>9. CASE Emit
  BY <1>9 DEF Emit
<1>10. ASSUME NEW i \in DOMAIN lookups, Answer(i)
       PROVE  ProcessInv' /\ RequestOnItsWay'
  <2>1. PICK a \in {network, NoAddress} : lookups' = [lookups EXCEPT ![i] = a]
    BY <1>10 DEF Answer
  <2>2. i \in DOMAIN lookups /\ a \in Answers
    BY DEF TypeOK, Answers
  <2>3. lookups' = <<a>>
    BY <1>0, <2>1, <2>2, InFlightNext
  <2>4. lookups # <<>> /\ <<a>> # <<>>
    OBVIOUS
  <2>. QED
    BY <1>10, <2>3, <2>4 DEF Answer
<1>11. ASSUME NEW i \in DOMAIN lookups, LookupEnds(i)
       PROVE  ProcessInv' /\ RequestOnItsWay'
  <2>1. lookups # <<>>
    OBVIOUS
  <2>. QED
    BY <1>11, <2>1 DEF LookupEnds
<1>12. CASE UNCHANGED vars
  BY <1>12 DEF vars
<1>. QED
  BY <1>1, <1>2, <1>3, <1>4, <1>5, <1>6, <1>7, <1>8, <1>9, <1>10, <1>11, <1>12
     DEF Next, User, Lookup, LookupPublicIp, Refresh, IpcRefresh

\* A request that no lookup has followed yet is on its way to one, or was sent
\* to a sampler that died.
THEOREM OnItsWay == Spec => []RequestOnItsWay
<1>1. Init => ProcessInv /\ RequestOnItsWay
  BY DEF Init, ProcessInv, RequestOnItsWay
<1>. QED
  BY <1>1, TypeCorrect, StepOnItsWay, PTL DEF Spec
=============================================================================
