------------------------------ MODULE NetManager ------------------------------
(***************************************************************************)
(* NetManager (components/net/NetManager.cpp): the task, priority 4, that  *)
(* brings the interface up, polls the receive ring, watches the link and   *)
(* falls back to a static address; and lwIP's tcpip_thread, priority 6, to *)
(* which it posts received frames and callbacks.  tcpip_thread runs as     *)
(* soon as its mailbox has a message, so NetManager never acts while one   *)
(* waits there.                                                            *)
(*                                                                         *)
(* External: the cable, the DHCP server (its exchange with the client is   *)
(* one frame, "lease"), and lwIP, which may lack the memory to take a      *)
(* frame or a callback.  Time is counted in the manager's own delays.      *)
(***************************************************************************)
EXTENDS EthRing

CONSTANTS
  Modes,       \* the configurations considered: IpConfig.mode
  ResetPolls,  \* polls for the PHY's reset: 500 ms / 10
  LeasePolls,  \* polls for a lease before the fallback: dhcp_timeout_ms / 10
  CheckEvery,  \* loop turns between link checks: the 500 ms
  Pool,        \* PBUF_POOL_SIZE
  MboxSize,    \* TCPIP_MBOX_SIZE
  UdpMbox,     \* DEFAULT_UDP_RECVMBOX_SIZE
  Burst,       \* bound: frames the network delivers between two delays
  MaxLost      \* bound: callbacks lwIP has no memory for

AllModes == {"STATIC", "DHCP", "DHCP_WITH_FALLBACK"}
ASSUME ModesAssumption == Modes \subseteq AllModes /\ Frames = {"lease", "ping"}
ASSUME BoundsAssumption ==
  /\ ResetPolls \in Nat \ {0} /\ LeasePolls \in Nat \ {0} /\ CheckEvery \in Nat \ {0}
  /\ Pool \in Nat /\ MboxSize \in Nat \ {0} /\ UdpMbox \in Nat
  /\ Burst \in Nat /\ MaxLost \in Nat

VARIABLES
  mode,       \* cfg_.mode
  pc,         \* where the task is
  elapsed,    \* polls so far, in waitForDhcpLease
  sinceCheck, \* turns since last_link_check
  linkWasUp,  \* link_was_up
  phy,        \* the link: "down", "negotiating" or "up"
  mbox,       \* what tcpip_thread has not yet taken
  lwipReady,  \* lwip_ready_
  ifUp,       \* the interface's link flag
  addr,       \* its address: none, the configured one, or a lease
  dhcp,       \* its DHCP client: off, selecting or bound
  free,       \* pbufs left in the pool
  udp,        \* frames in the receive mailbox of DiscoveryService
  budget,     \* see Burst
  lost,       \* history: callbacks lost
  expired     \* history: a lease ran out since the link last came up

taskVars == <<pc, elapsed, sinceCheck, linkWasUp>>
ifVars == <<lwipReady, ifUp, addr, dhcp, expired>>
netVars == <<ringVars, mode, taskVars, phy, mbox, ifVars, free, udp, budget, lost>>

Callbacks == {"init", "fallback", "linkDown", "linkUp"}

NetInit ==
  /\ RingInit
  /\ mode \in Modes /\ pc = "init" /\ elapsed = 0 /\ sinceCheck = 0
  /\ linkWasUp = TRUE /\ phy = "down"
  /\ mbox = <<>> /\ lwipReady = FALSE /\ ifUp = FALSE
  /\ addr = "none" /\ dhcp = "off"
  /\ free = Pool /\ udp = 0 /\ budget = Burst /\ lost = 0 /\ expired = FALSE

\* is_ready.
Ready == lwipReady /\ addr # "none"

-----------------------------------------------------------------------------
(* The cable and the MAC.                                                   *)

PhyChanges ==
  /\ phy' \in {"down", "negotiating", "up"} \ {phy}
  /\ phy' = "up" => phy = "negotiating"
  /\ UNCHANGED <<ringVars, mode, taskVars, mbox, ifVars, free, udp, budget, lost>>

\* Lan8742Phy::isLinkUp wants the link and a finished negotiation.
IsLinkUp == phy = "up"

\* Mutant: a task of lower priority.
TcpipLower == TRUE
\* TCPIP_THREAD_PRIO is above that of every task.
TcpipDone == mbox = <<>>

\* Before HAL_ETH_Start, in WaitForLink, the MAC receives nothing.
Receive(f) ==
  /\ phy = "up" /\ pc \notin {"init", "gone", "phyReset", "waitLink"} /\ budget > 0
  /\ Store(f) /\ budget' = budget - 1
  /\ UNCHANGED <<mode, taskVars, phy, mbox, ifVars, free, udp, lost>>

-----------------------------------------------------------------------------
(* NetManager::run.                                                         *)

\* tcpip_callback posts, waiting for a place, or has no memory and fails;
\* the manager goes on either way.
Callback(cb) ==
  \/ Len(mbox) < MboxSize /\ mbox' = Append(mbox, cb) /\ UNCHANGED lost
  \/ lost < MaxLost /\ lost' = lost + 1 /\ UNCHANGED mbox
NoCallback == UNCHANGED <<mbox, lost>>

initVars == <<ringVars, mode, sinceCheck, linkWasUp, phy, ifVars, free, udp, budget, lost>>

\* Stm32H7Eth::Init: the MAC or the PHY may not answer; the task then
\* deletes itself.
InitEth ==
  /\ pc = "init" /\ pc' \in {"phyReset", "gone"}
  /\ UNCHANGED <<initVars, elapsed, mbox>>

\* Lan8742Phy::init polls its reset bit, at most ResetPolls times.
PhyPolled ==
  /\ pc = "phyReset"
  /\ \/ pc' \in {"waitLink", "gone"} /\ elapsed' = 0
     \/ elapsed + 1 < ResetPolls /\ elapsed' = elapsed + 1 /\ UNCHANGED pc
  /\ UNCHANGED <<initVars, mbox>>

\* tcpip_init starts tcpip_thread with on_tcpip_init_done to run first.
LinkFound ==
  /\ pc = "waitLink" /\ IsLinkUp
  /\ pc' = "waitLwip" /\ mbox' = <<"init">>
  /\ UNCHANGED <<initVars, elapsed>>

LwipReady ==
  /\ pc = "waitLwip" /\ TcpipDone /\ lwipReady
  /\ pc' = IF mode = "DHCP_WITH_FALLBACK" THEN "lease" ELSE "poll"
  /\ UNCHANGED <<ringVars, mode, elapsed, sinceCheck, linkWasUp, phy, mbox, ifVars,
                 free, udp, budget, lost>>

\* Mutant: a refused frame keeps its pbuf.
KeepsRefused == free' = free - 1
\* Its pbuf goes back.
FreesRefused == free' = free

\* One turn of ProcessRx: HAL_ETH_RxLinkCallback copies the frame to a pbuf,
\* or finds none and drops it; netif->input posts the pbuf, or refuses and
\* rx_packet_handler frees it.
TakeFrame ==
  /\ pc \in {"lease", "poll"} /\ TcpipDone /\ Rearm
  /\ \/ free = 0 /\ UNCHANGED <<mbox, free>>
     \/ free > 0 /\ Len(mbox) < MboxSize /\ mbox' = Append(mbox, Oldest) /\ free' = free - 1
     \/ free > 0 /\ FreesRefused /\ UNCHANGED mbox
  /\ UNCHANGED <<mode, taskVars, phy, ifVars, udp, budget, lost>>

\* The lease came, or the fallback took its place: at boot the loop begins,
\* later it goes on.
EndLeaseWait ==
  /\ linkWasUp' = TRUE /\ elapsed' = 0
  /\ IF linkWasUp THEN pc' = "poll" /\ sinceCheck' = 0
                  ELSE pc' = "rest" /\ UNCHANGED sinceCheck

Granted ==
  /\ pc = "lease" /\ TcpipDone /\ ~Readable /\ dhcp = "bound"
  /\ EndLeaseWait
  /\ UNCHANGED <<ringVars, mode, phy, mbox, ifVars, free, udp, budget, lost>>

NotYet ==
  /\ pc = "lease" /\ TcpipDone /\ ~Readable /\ dhcp # "bound"
  /\ pc' = "leaseDelay"
  /\ UNCHANGED <<ringVars, mode, elapsed, sinceCheck, linkWasUp, phy, mbox, ifVars,
                 free, udp, budget, lost>>

Later(n) == IF n < CheckEvery THEN n + 1 ELSE n

LeaseDelayEnds ==
  /\ pc = "leaseDelay" /\ TcpipDone
  /\ elapsed' = elapsed + 1 /\ sinceCheck' = Later(sinceCheck) /\ budget' = Burst
  /\ pc' = IF elapsed' < LeasePolls THEN "lease" ELSE "fallback"
  /\ UNCHANGED <<ringVars, mode, linkWasUp, phy, mbox, ifVars, free, udp, lost>>

\* Mutant: the fallback never asked for.
FallbackForgotten ==
  /\ pc = "fallback" /\ TcpipDone
  /\ NoCallback /\ EndLeaseWait
  /\ UNCHANGED <<ringVars, mode, phy, ifVars, free, udp, budget>>
\* The 100 ms that follow give way to the callback, which has run already.
Fallback ==
  /\ pc = "fallback" /\ TcpipDone
  /\ Callback("fallback") /\ EndLeaseWait
  /\ UNCHANGED <<ringVars, mode, phy, ifVars, free, udp, budget>>

LinkChecked ==
  /\ pc = "poll" /\ TcpipDone /\ ~Readable /\ sinceCheck = CheckEvery
  /\ sinceCheck' = 0
  /\ \/ /\ linkWasUp /\ ~IsLinkUp
        /\ Callback("linkDown") /\ linkWasUp' = FALSE /\ pc' = "rest"
     \/ /\ ~linkWasUp /\ IsLinkUp
        /\ Callback("linkUp")
        /\ IF mode = "DHCP_WITH_FALLBACK"
           THEN pc' = "lease" /\ UNCHANGED linkWasUp
           ELSE pc' = "rest" /\ linkWasUp' = TRUE
     \/ linkWasUp = IsLinkUp /\ NoCallback /\ pc' = "rest" /\ UNCHANGED linkWasUp
  /\ UNCHANGED <<ringVars, mode, elapsed, phy, ifVars, free, udp, budget>>

NotChecked ==
  /\ pc = "poll" /\ TcpipDone /\ ~Readable /\ sinceCheck < CheckEvery
  /\ pc' = "rest"
  /\ UNCHANGED <<ringVars, mode, elapsed, sinceCheck, linkWasUp, phy, mbox, ifVars,
                 free, udp, budget, lost>>

\* vTaskDelay of 1 ms.
RestEnds ==
  /\ pc = "rest" /\ TcpipDone
  /\ pc' = "poll" /\ sinceCheck' = Later(sinceCheck) /\ budget' = Burst
  /\ UNCHANGED <<ringVars, mode, elapsed, linkWasUp, phy, mbox, ifVars, free, udp, lost>>

ManagerStep ==
  \/ InitEth \/ PhyPolled \/ LinkFound \/ LwipReady \/ TakeFrame \/ Granted \/ NotYet
  \/ LeaseDelayEnds \/ Fallback \/ LinkChecked \/ NotChecked \/ RestEnds

-----------------------------------------------------------------------------
(* tcpip_thread: sys_arch_mbox_fetch and the message's handler.             *)

Fetch(m) == mbox # <<>> /\ Head(mbox) = m /\ mbox' = Tail(mbox)
restVars == <<ringVars, mode, taskVars, phy, budget, lost>>

\* initLwip: netif_add, then the address or the DHCP client.
RunInit ==
  /\ Fetch("init")
  /\ lwipReady' = TRUE /\ ifUp' = TRUE
  /\ IF mode = "STATIC" THEN addr' = "static" /\ UNCHANGED dhcp
                        ELSE addr' = "none" /\ dhcp' = "selecting"
  /\ UNCHANGED <<restVars, expired, free, udp>>

\* applyStaticIpInternal leaves the DHCP client running.
RunFallback ==
  /\ Fetch("fallback")
  /\ addr' = "static"
  /\ UNCHANGED <<restVars, lwipReady, ifUp, dhcp, expired, free, udp>>

\* Mutant: the client left running.
ClientKept == UNCHANGED <<addr, dhcp>>
\* dhcp_stop takes the address away, whoever gave it; off, it does nothing.
ClientStopped ==
  IF dhcp = "off" THEN UNCHANGED <<addr, dhcp>> ELSE addr' = "none" /\ dhcp' = "off"

RunLinkDown ==
  /\ Fetch("linkDown")
  /\ ifUp' = FALSE
  /\ IF mode = "STATIC" THEN UNCHANGED <<addr, dhcp>> ELSE ClientStopped
  /\ UNCHANGED <<restVars, lwipReady, expired, free, udp>>

RunLinkUp ==
  /\ Fetch("linkUp")
  /\ ifUp' = TRUE /\ expired' = FALSE
  /\ IF mode = "STATIC" THEN addr' = "static" /\ UNCHANGED dhcp
                        ELSE dhcp' = "selecting" /\ UNCHANGED addr
  /\ UNCHANGED <<restVars, lwipReady, free, udp>>

\* An answer that a DHCP client is waiting for; any other is dropped.
RunLease ==
  /\ Fetch("lease") /\ free' = free + 1
  /\ IF dhcp = "selecting" THEN addr' = "lease" /\ dhcp' = "bound"
                           ELSE UNCHANGED <<addr, dhcp>>
  /\ UNCHANGED <<restVars, lwipReady, ifUp, expired, udp>>

\* A datagram for the discovery port stays in its pbuf until it is read.
RunPing(open) ==
  /\ Fetch("ping")
  /\ IF open /\ Ready /\ udp < UdpMbox
     THEN udp' = udp + 1 /\ UNCHANGED free
     ELSE free' = free + 1 /\ UNCHANGED udp
  /\ UNCHANGED <<restVars, ifVars>>

TcpipStep(open) ==
  RunInit \/ RunFallback \/ RunLinkDown \/ RunLinkUp \/ RunLease \/ RunPing(open)

\* The server does not renew: the client lets the address go and asks again.
LeaseExpires ==
  /\ dhcp = "bound"
  /\ dhcp' = "selecting" /\ addr' = "none" /\ expired' = TRUE
  /\ UNCHANGED <<ringVars, mode, taskVars, phy, mbox, lwipReady, ifUp, free, udp,
                 budget, lost>>
=============================================================================
