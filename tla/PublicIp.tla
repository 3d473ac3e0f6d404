------------------------------ MODULE PublicIp ------------------------------
(***************************************************************************)
(* The public address of the Network page: who asks for it                 *)
(* (OmaStatsWidget.qml, NetworkPage.qml and the IPC handler), the service  *)
(* that passes the request on (OmaStatsService.qml), the sampler's loop    *)
(* that takes it, and the lookup in a thread of its own                    *)
(* (sampler/src/net.rs).                                                   *)
(*                                                                         *)
(* A lookup tries one site after another; that it gets an answer, or none, *)
(* is one step.  The ten minutes between two unforced requests are an      *)
(* event.  A line of the sampler reaches the service in the step in which  *)
(* it is written.                                                          *)
(***************************************************************************)
EXTENDS Naturals, Sequences

CONSTANTS
  Addresses,    \* the public addresses of the networks one may be on
  MaxBacklog    \* bound: requests unread when another is made

ASSUME PublicIpAssumption == Addresses # {} /\ MaxBacklog \in Nat \ {0}

VARIABLES
  enabled,      \* publicIpEnabled, the setting
  network,      \* the address of the network one is on
  recent,       \* is publicIpStamp less than ten minutes old?
  pending,      \* publicIpPending
  running,      \* the Process's property
  shown,        \* snapshot.net.publicIp
  started,      \* has onStarted run for the current sampler process?
  alive,        \* does that process still run?
  backlog,      \* "pubip" lines in its stdin
  requested,    \* control.public_ip_requested
  lookups,      \* the lookup threads, each with the answer it has
  value,        \* PublicIp.value
  owed          \* history: has a request been made since a lookup ended?

userVars    == <<enabled, network>>
serviceVars == <<recent, pending, running, shown>>
processVars == <<started, alive, backlog>>
samplerVars == <<requested, lookups, value>>
vars == <<userVars, serviceVars, processVars, samplerVars, owed>>

Asking    == "asking"
NoAddress == "none"
Answers   == Addresses \cup {NoAddress}

\* None in flight, or one.
InFlight  == {<<>>} \cup {<<a>> : a \in Answers \cup {Asking}}

Init ==
  /\ enabled \in BOOLEAN
  /\ network \in Addresses
  /\ recent = FALSE /\ pending = FALSE
  /\ running = TRUE /\ started = FALSE /\ alive = TRUE
  /\ shown = NoAddress
  /\ backlog = 0
  /\ requested = FALSE
  /\ lookups = <<>>
  /\ value = NoAddress
  /\ owed = FALSE

-----------------------------------------------------------------------------
(* The user, the network and the ten minutes.                                *)

SetEnabled ==
  /\ enabled' = ~enabled
  /\ UNCHANGED <<network, serviceVars, processVars, samplerVars, owed>>

Move ==
  /\ network' \in Addresses \ {network}
  /\ UNCHANGED <<enabled, serviceVars, processVars, samplerVars, owed>>

TenMinutes ==
  /\ recent
  /\ recent' = FALSE
  /\ UNCHANGED <<userVars, pending, running, shown, processVars, samplerVars, owed>>

-----------------------------------------------------------------------------
(* The service.                                                              *)

RequestPublicIp(force) ==
  /\ force \/ ~recent
  /\ backlog < MaxBacklog
  /\ recent' = TRUE
  /\ owed' = TRUE
  /\ IF running
     THEN backlog' = backlog + 1 /\ UNCHANGED pending
     ELSE pending' = TRUE /\ UNCHANGED backlog
  /\ UNCHANGED <<userVars, running, shown, started, alive, samplerVars>>

\* NetworkPage.qml, when the page or its service appears or the setting changes.
LookupPublicIp == enabled /\ RequestPublicIp(FALSE)

\* OmaStatsWidget.qml: the r key and the middle click.
Refresh == enabled /\ RequestPublicIp(TRUE)

\* The IPC handler.
IpcRefresh == RequestPublicIp(TRUE)

\* Mutant: a request held for the sampler is forgotten when it starts.
OnStartedForgetting ==
  /\ running /\ ~started
  /\ started' = TRUE
  /\ pending' = FALSE
  /\ UNCHANGED <<userVars, recent, running, shown, alive, backlog, samplerVars, owed>>

OnStarted ==
  /\ running /\ ~started
  /\ started' = TRUE
  /\ backlog' = IF pending THEN backlog + 1 ELSE backlog
  /\ pending' = FALSE
  /\ UNCHANGED <<userVars, recent, running, shown, alive, samplerVars, owed>>

\* The process ends on its own, with its lookup and its address.
Exit ==
  /\ alive
  /\ alive' = FALSE
  /\ requested' = FALSE /\ lookups' = <<>> /\ value' = NoAddress
  /\ UNCHANGED <<userVars, serviceVars, started, backlog, owed>>

\* onExited: the requests that were sent to the process are lost.
OnExited ==
  /\ running /\ started /\ ~alive
  /\ running' = FALSE
  /\ backlog' = 0
  /\ owed' = pending
  /\ UNCHANGED <<userVars, recent, pending, shown, started, alive, samplerVars>>

\* restartTimer
Restart ==
  /\ ~running
  /\ running' = TRUE /\ started' = FALSE /\ alive' = TRUE
  /\ UNCHANGED <<userVars, recent, pending, shown, backlog, samplerVars, owed>>

-----------------------------------------------------------------------------
(* The sampler.                                                              *)

Listen ==
  /\ alive /\ backlog > 0
  /\ backlog' = backlog - 1
  /\ requested' = TRUE
  /\ UNCHANGED <<userVars, serviceVars, started, alive, lookups, value, owed>>

\* Mutants: a lookup is started although one is in flight; an address that is
\* known is not asked for again.
FetchStacking == lookups' = Append(lookups, Asking)

FetchOnce == lookups' = IF lookups = <<>> /\ value = NoAddress THEN <<Asking>> ELSE lookups

\* fetch_public_ip
FetchPublicIp == lookups' = IF lookups = <<>> THEN <<Asking>> ELSE lookups

\* The loop takes the request, once for as many as there were.
Take ==
  /\ alive /\ requested
  /\ requested' = FALSE
  /\ FetchPublicIp
  /\ UNCHANGED <<userVars, serviceVars, processVars, value, owed>>

\* A site answers, or none does within its time.
Answer(i) ==
  /\ lookups[i] = Asking
  /\ \E a \in {network, NoAddress} : lookups' = [lookups EXCEPT ![i] = a]
  /\ UNCHANGED <<userVars, serviceVars, processVars, requested, value, owed>>

LookupEnds(i) ==
  /\ lookups[i] # Asking
  /\ value' = lookups[i]
  /\ lookups' = SubSeq(lookups, 1, i - 1) \o SubSeq(lookups, i + 1, Len(lookups))
  /\ owed' = FALSE
  /\ UNCHANGED <<userVars, serviceVars, processVars, requested>>

\* A line is written, and ingested.
Emit ==
  /\ alive /\ shown # value
  /\ shown' = value
  /\ UNCHANGED <<userVars, recent, pending, running, processVars, samplerVars, owed>>

Lookup == \E i \in DOMAIN lookups : Answer(i) \/ LookupEnds(i)

User == SetEnabled \/ Move \/ TenMinutes \/ LookupPublicIp \/ Refresh \/ IpcRefresh

Next == User \/ OnStarted \/ Exit \/ OnExited \/ Restart \/ Listen \/ Take \/ Lookup \/ Emit

\* The event loop delivers, the sampler's threads are scheduled, and a lookup
\* has a time limit; users, networks and crashes are free.
Fairness ==
  /\ WF_vars(OnStarted) /\ WF_vars(OnExited) /\ WF_vars(Restart)
  /\ WF_vars(Listen) /\ WF_vars(Take) /\ WF_vars(Lookup) /\ WF_vars(Emit)

Spec == Init /\ [][Next]_vars /\ Fairness

-----------------------------------------------------------------------------
\* In particular, there is never more than one lookup in flight.
TypeOK ==
  /\ enabled \in BOOLEAN /\ network \in Addresses
  /\ recent \in BOOLEAN /\ pending \in BOOLEAN /\ running \in BOOLEAN
  /\ shown \in Answers
  /\ started \in BOOLEAN /\ alive \in BOOLEAN /\ backlog \in Nat
  /\ requested \in BOOLEAN
  /\ lookups \in InFlight
  /\ value \in Answers
  /\ owed \in BOOLEAN

\* A request that no lookup has followed yet is held by the service, in the
\* sampler's stdin, taken or being looked up, or went to a sampler that died.
RequestOnItsWay ==
  owed => \/ pending \/ backlog > 0 \/ requested \/ lookups # <<>>
          \/ running /\ ~alive

\* A lookup comes to end after every request, unless the request had been sent
\* to a sampler that exits: one made while none runs is held until one does.
Answered == owed ~> ~owed

\* Whoever stays on a network and keeps asking comes to see its address, or
\* none when the sites do not answer, and not that of another network.
AddressConverges ==
  \A a \in Addresses :
    <>[](alive /\ network = a) /\ []<>requested => <>[](shown \in {a, NoAddress})
=============================================================================
