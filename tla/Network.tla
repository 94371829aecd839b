------------------------------- MODULE Network -------------------------------
(***************************************************************************)
(* NetManager and its network with the task that depends on it:            *)
(* DiscoveryService::run (components/net/services/DiscoveryService.cpp),   *)
(* which opens the discovery port once an address is there, broadcasts a   *)
(* heartbeat every second and answers pings.                               *)
(***************************************************************************)
EXTENDS NetManager, FiniteSets

CONSTANT BeatEvery  \* manager's delays in the second between heartbeats

ASSUME BeatAssumption == BeatEvery \in Nat \ {0}

VARIABLES
  dpc,    \* where DiscoveryService::run is
  beatAge \* time since last_hb_tick

discoveryVars == <<dpc, beatAge>>
vars == <<netVars, discoveryVars>>

Open == dpc \in {"loop", "recv"}

Init == NetInit /\ dpc = "wait" /\ beatAge = 0

\* netconn_new or netconn_bind may fail: the task deletes itself.
OpenPort ==
  /\ dpc = "wait" /\ Ready
  /\ dpc' \in {"loop", "gone"} /\ beatAge' = 0
  /\ UNCHANGED netVars

\* Mutant: the clock of the heartbeats restarted by every packet.
RestartsClock == beatAge' = 0
KeepsClock == UNCHANGED beatAge

\* While the network is not ready the loop only sleeps.
Due == beatAge = BeatEvery
\* sendHeartbeat, which may have no netbuf; last_hb_tick moves on either way.
SendsHeartbeat == beatAge' = 0
LoopTop ==
  /\ dpc = "loop" /\ Ready
  /\ dpc' = "recv"
  /\ IF Due THEN SendsHeartbeat ELSE UNCHANGED beatAge
  /\ UNCHANGED netVars

DeletesBuffer == free' = free + 1

\* handleIncomingPacket answers a ping that concerns it, and returns early
\* from anything else; then netbuf_delete.
Receives ==
  /\ dpc = "recv" /\ udp > 0
  /\ udp' = udp - 1 /\ DeletesBuffer
  /\ dpc' = "loop" /\ KeepsClock
  /\ UNCHANGED <<ringVars, mode, taskVars, phy, mbox, ifVars, budget, lost>>

\* The receive timeout of 250 ms.
TimesOut ==
  /\ dpc = "recv" /\ udp = 0
  /\ dpc' = "loop"
  /\ UNCHANGED <<netVars, beatAge>>

DiscoveryStep == OpenPort \/ LoopTop \/ Receives \/ TimesOut

Delays == pc \in {"rest", "leaseDelay"}
Grow(n) == IF n < BeatEvery THEN n + 1 ELSE n
\* Discovery's clock goes with the manager's delays.
ManagerOrTime ==
  /\ ManagerStep
  /\ beatAge' = (IF Delays /\ Open THEN Grow(beatAge) ELSE beatAge)
  /\ UNCHANGED dpc

Thread == TcpipStep(Open) /\ UNCHANGED discoveryVars
World ==
  /\ PhyChanges \/ LeaseExpires \/ \E f \in Frames : Receive(f)
  /\ UNCHANGED discoveryVars

Next == ManagerOrTime \/ DiscoveryStep \/ Thread \/ World

Spec ==
  /\ Init /\ [][Next]_vars
  /\ WF_vars(ManagerOrTime) /\ WF_vars(Thread) /\ WF_vars(DiscoveryStep)

-----------------------------------------------------------------------------
\* The types of the variables.
TypeOK ==
  /\ RingTypeOK
  /\ mode \in Modes
  /\ pc \in {"init", "gone", "phyReset", "waitLink", "waitLwip", "lease", "leaseDelay",
             "fallback", "poll", "rest"}
  /\ elapsed \in Nat /\ sinceCheck \in 0 .. CheckEvery
  /\ linkWasUp \in BOOLEAN /\ phy \in {"down", "negotiating", "up"}
  /\ mbox \in Seq(Callbacks \cup Frames)
  /\ lwipReady \in BOOLEAN /\ ifUp \in BOOLEAN /\ expired \in BOOLEAN
  /\ addr \in {"none", "static", "lease"} /\ dhcp \in {"off", "selecting", "bound"}
  /\ free \in Nat /\ udp \in 0 .. UdpMbox /\ budget \in 0 .. Burst /\ lost \in 0 .. MaxLost
  /\ dpc \in {"wait", "loop", "recv", "gone"} /\ beatAge \in 0 .. BeatEvery

\* Every pbuf is in the pool, on its way to tcpip_thread, or in the
\* discovery port's mailbox: none is lost, whatever is refused or dropped.
PbufsConserved ==
  free + udp + Cardinality({i \in DOMAIN mbox : mbox[i] \in Frames}) = Pool

\* The fallback is decided on a check that is over by the time the callback
\* runs, and yet no lease is ever replaced by the static address.
LeaseIsKept == [][addr = "lease" /\ lost = 0 => addr' # "static"]_vars

\* Once the manager has seen the link go, the node has no address and no
\* DHCP client, whatever frames it still finds in the ring.
NoAddressWithoutLink ==
  lost = 0 /\ TcpipDone /\ ~linkWasUp /\ pc \in {"poll", "rest"} =>
    ~ifUp /\ (mode # "STATIC" => addr = "none" /\ dhcp = "off")

\* Unless it waits for a server alone, a node whose link stays has an address
\* in the end, and keeps it.
LinkGivesAddress ==
  <>[](phy = "up" /\ mode # "DHCP" /\ ~expired /\ lost = 0 /\ pc # "gone") => <>[]Ready

\* As long as the node has its address, and however many pings come,
\* heartbeats follow each other without end.
HeartbeatsGoOn == <>[](Ready /\ dpc # "gone") => []<><<LoopTop /\ Due>>_vars
=============================================================================
