---------------------------- MODULE NetworkProofs ----------------------------
(***************************************************************************)
(* The network manager, its network and the discovery task, for any number *)
(* of descriptors, pool and mailbox sizes and delays: the types, that no   *)
(* packet buffer is lost, that an address outlives neither its lease nor   *)
(* its link, and that the ring is and stays a queue.                       *)
(*                                                                         *)
(* The first part is about the receive ring on its own, for any number of  *)
(* descriptors: its buffers are never shared, and it implements a bounded  *)
(* queue of frames.                                                        *)
(***************************************************************************)
EXTENDS Network, SequenceTheorems, FiniteSetTheorems, TLAPS

USE DescriptorsAssumption DEF DescriptorsAssumption

\* The index of the next buffer goes with the descriptor that is read, so
\* every descriptor always gets the buffer it had.
InStep == rxAllocIdx = cpuAt /\ \A d \in Slots : bufferOf[d] = d

RingInv == RingTypeOK /\ InStep

-----------------------------------------------------------------------------
LEMMA NextSlotType == \A i \in Slots : NextSlot(i) \in Slots
BY DEF NextSlot, Slots

\* Where a descriptor lies before and after cpuAt moves on.
LEMMA Distances ==
  ASSUME RingTypeOK, NEW d \in Slots
  PROVE  Distance(d) \in 0 .. Descriptors - 1 /\ (Distance(d) = 0 <=> d = cpuAt)
BY DEF RingTypeOK, Distance, Slots

LEMMA DistancesDiffer ==
  ASSUME RingTypeOK, NEW d \in Slots, NEW e \in Slots, Distance(d) = Distance(e)
  PROVE  d = e
<1>1. d \in 0 .. Descriptors - 1 /\ e \in 0 .. Descriptors - 1 /\ cpuAt \in 0 .. Descriptors - 1
  BY DEF RingTypeOK, Slots
<1> QED
  BY <1>1 DEF Distance

LEMMA ReceivedType == RingTypeOK => Received \in 0 .. Descriptors
BY DEF RingTypeOK, Received, Distance, Slots

LEMMA SlotType ==
  ASSUME RingTypeOK, NEW i \in 1 .. Received
  PROVE  Slot(i) \in Slots /\ Distance(Slot(i)) = i - 1
<1>1. i \in 1 .. Descriptors
  BY ReceivedType
<1>2. cpuAt \in 0 .. Descriptors - 1
  BY DEF RingTypeOK, Slots
<1> QED
  BY <1>1, <1>2 DEF Slot, Distance, Slots

LEMMA WaitingType == RingTypeOK => Waiting \in Seq(Frames) /\ Len(Waiting) = Received
<1> SUFFICES ASSUME RingTypeOK PROVE Waiting \in Seq(Frames) /\ Len(Waiting) = Received
  OBVIOUS
<1>1. \A i \in 1 .. Received : content[bufferOf[Slot(i)]] \in Frames
  BY SlotType DEF RingTypeOK
<1>2. Received \in Nat
  BY ReceivedType
<1>3. Waiting \in [1 .. Received -> Frames]
  BY <1>1 DEF Waiting
<1> QED
  BY <1>2, <1>3

LEMMA WaitingTypeNext == (RingTypeOK => Waiting \in Seq(Frames) /\ Len(Waiting) = Received)'
BY WaitingType, PTL

-----------------------------------------------------------------------------
LEMMA RingInvInit == RingInit => RingInv
BY DEF RingInit, RingInv, RingTypeOK, InStep, Slots, Received, Distance

\* The frame is stored in the first descriptor behind those not yet read.
LEMMA StoreStep ==
  ASSUME RingInv, NEW f \in Frames, Store(f)
  PROVE  RingInv' /\ Received < Descriptors /\ Received' = Received + 1 /\ Waiting' = Append(Waiting, f)
<1> USE DEF RingInv, RingTypeOK, InStep
<1>1. Received < Descriptors /\ Distance(dmaAt) = Received
  BY Distances DEF Store, Received
<1>2. Received' = Received + 1
  <2>1. CASE armed' = {}
    <3>1. \A d \in Slots : d # dmaAt => Distance(d) < Received
      <4> SUFFICES ASSUME NEW d \in Slots, d # dmaAt PROVE Distance(d) < Received
        OBVIOUS
      <4>1. d \notin armed
        BY <2>1 DEF Store
      <4>2. Distance(d) \in Int /\ Received \in Int
        BY Distances, ReceivedType
      <4> QED
        BY <4>1, <4>2
    <3>2. Received = Descriptors - 1
      <4>1. \E d \in Slots : Distance(d) = Descriptors - 1
        <5>1. CASE cpuAt = 0
          BY <5>1 DEF Distance, Slots
        <5>2. CASE cpuAt # 0
          <6>1. cpuAt - 1 \in Slots /\ Distance(cpuAt - 1) = Descriptors - 1
            BY <5>2 DEF Distance, Slots
          <6> QED
            BY <6>1
        <5> QED
          BY <5>1, <5>2
      <4> QED
        BY <1>1, <3>1, <4>1, ReceivedType
    <3> QED
      BY <2>1, <3>2 DEF Store, Received
  <2>2. CASE armed' # {}
    <3>1. Received + 1 < Descriptors
      <4>1. PICK d \in Slots : d \in armed /\ d # dmaAt
        BY <2>2 DEF Store
      <4>2. Distance(d) >= Received /\ Distance(d) # Received
        BY <1>1, <4>1, DistancesDiffer
      <4> QED
        BY <4>1, <4>2, Distances, ReceivedType
    <3>2. Distance(NextSlot(dmaAt)) = Received + 1
      BY <1>1, <3>1 DEF Distance, NextSlot, Slots
    <3> QED
      BY <2>2, <3>2 DEF Store, Received, Distance
  <2> QED
    BY <2>1, <2>2
<1>3. RingInv'
  <2>1. armed' \subseteq Slots /\ content' \in [Slots -> Frames] /\ dmaAt' \in Slots
    BY NextSlotType DEF Store
  <2>2. \A d \in Slots : d \in armed' <=> Distance(d)' >= Received'
    <3> SUFFICES ASSUME NEW d \in Slots PROVE d \in armed' <=> Distance(d) >= Received + 1
      BY <1>2 DEF Store, Distance
    <3>1. Distance(d) \in Int /\ Received \in Int /\ (d \in armed <=> Distance(d) >= Received)
      BY Distances, ReceivedType
    <3>2. Distance(d) = Received <=> d = dmaAt
      BY <1>1, DistancesDiffer
    <3> QED
      BY <3>1, <3>2 DEF Store
  <2>3. armed' = {} => dmaAt' = cpuAt'
    <3> SUFFICES ASSUME armed' = {} PROVE NextSlot(dmaAt) = cpuAt
      BY DEF Store
    <3>1. Received = Descriptors - 1
      BY <1>2, ReceivedType DEF Received
    <3> QED
      BY <1>1, <3>1 DEF Distance, NextSlot, Slots
  <2> QED
    BY <2>1, <2>2, <2>3 DEF Store
<1>4. Waiting' = Append(Waiting, f)
  <2>1. Received \in Nat
    BY ReceivedType
  <2>2. Waiting' \in Seq(Frames) /\ Len(Waiting') = Received + 1
    BY <1>2, <1>3, WaitingTypeNext
  <2>3. \A i \in 1 .. Received : Waiting'[i] = Waiting[i]
    BY SlotType, <1>1, <1>2, <2>1 DEF Waiting, Store, Slot
  <2>4. Waiting'[Received + 1] = f
    BY <1>1, <1>2, <2>1 DEF Waiting, Store, Slot, Distance, Slots
  <2> QED
    BY <2>1, <2>2, <2>3, <2>4, WaitingType, AppendProperties, SeqEqual
<1> QED
  BY <1>1, <1>2, <1>3, <1>4

\* The oldest frame is read: every other moves one place forward.
LEMMA RearmStep ==
  ASSUME RingInv, Rearm
  PROVE  RingInv' /\ Received > 0 /\ Received' = Received - 1 /\ Waiting' = Tail(Waiting)
<1> USE DEF RingInv, RingTypeOK, InStep
<1>0. bufferOf' = bufferOf /\ cpuAt' = NextSlot(cpuAt)
  BY DEF Rearm, Allocate
<1>1. Received > 0
  BY Distances, ReceivedType DEF Rearm, Readable
<1>2. \A d \in Slots : Distance(d)' = IF d = cpuAt THEN Descriptors - 1 ELSE Distance(d) - 1
  <2>1. cpuAt \in 0 .. Descriptors - 1
    BY DEF Slots
  <2> QED
    BY <1>0, <2>1 DEF Distance, NextSlot, Slots
<1>3. Received' = Received - 1
  <2>1. armed' # {}
    BY DEF Rearm
  <2>2. CASE armed = {}
    <3>1. dmaAt' = cpuAt /\ Received = Descriptors
      BY <2>2 DEF Rearm, Received
    <3> QED
      BY <1>2, <2>1, <2>2, <3>1 DEF Rearm, Received
  <2>3. CASE armed # {}
    BY <1>1, <1>2, <2>1, <2>3, Distances DEF Rearm, Received
  <2> QED
    BY <2>2, <2>3
<1>4. RingInv'
  <2>1. armed' \subseteq Slots /\ cpuAt' \in Slots
    BY <1>0, NextSlotType DEF Rearm
  <2>2. \A d \in Slots : d \in armed' <=> Distance(d)' >= Received'
    <3> SUFFICES ASSUME NEW d \in Slots PROVE d \in armed' <=> Distance(d)' >= Received - 1
      BY <1>3
    <3>1. Distance(d) \in 0 .. Descriptors - 1 /\ Received \in 0 .. Descriptors
          /\ (d \in armed <=> Distance(d) >= Received)
      BY Distances, ReceivedType
    <3> QED
      BY <1>2, <3>1 DEF Rearm
  <2> QED
    BY <1>0, <2>1, <2>2 DEF Rearm, Allocate
<1>5. Waiting' = Tail(Waiting)
  <2>1. Received \in Nat
    BY ReceivedType
  <2>2. Waiting' \in Seq(Frames) /\ Len(Waiting') = Received - 1
    BY <1>3, <1>4, WaitingTypeNext
  <2>3. \A i \in 1 .. Received - 1 : Waiting'[i] = Waiting[i + 1]
    <3> SUFFICES ASSUME NEW i \in 1 .. Received - 1 PROVE Waiting'[i] = Waiting[i + 1]
      OBVIOUS
    <3>1. i \in 1 .. Descriptors - 1 /\ cpuAt \in 0 .. Descriptors - 1 /\ i + 1 \in 1 .. Received
      BY ReceivedType DEF Slots
    <3>2. Slot(i)' = Slot(i + 1)
      BY <1>0, <3>1 DEF Slot, NextSlot
    <3> QED
      BY <1>0, <1>3, <2>1, <3>1, <3>2 DEF Waiting, Rearm
  <2> QED
    BY <1>1, <2>1, <2>2, <2>3, WaitingType, HeadTailProperties, SeqEqual
<1> QED
  BY <1>1, <1>3, <1>4, <1>5

LEMMA RingInvStutter ==
  ASSUME RingInv, UNCHANGED ringVars
  PROVE  RingInv' /\ Waiting' = Waiting
<1>1. RingInv'
  BY DEF RingInv, RingTypeOK, InStep, ringVars, Distance, Received
<1>2. Waiting' = Waiting
  BY DEF Waiting, Received, Distance, Slot, ringVars
<1> QED
  BY <1>1, <1>2

-----------------------------------------------------------------------------
\* The invariant of the ring holds of whatever drives it.
THEOREM RingInvariant == RingSpec => []RingInv
<1>1. RingInit => RingInv
  BY RingInvInit
<1>2. RingInv /\ [RingNext]_ringVars => RingInv'
  BY StoreStep, RearmStep, RingInvStutter DEF RingNext
<1> QED
  BY <1>1, <1>2, PTL DEF RingSpec

\* HAL_ETH_RxAllocateCallback hands a buffer to one descriptor only.
THEOREM BuffersStayApart == RingSpec => []BuffersNotShared
<1>1. RingInv => BuffersNotShared
  BY DEF RingInv, InStep, BuffersNotShared
<1> QED
  BY <1>1, RingInvariant, PTL

\* The ring implements the bounded queue of frames.
THEOREM RingImplementsQueue == RingSpec => RingIsQueue
<1>1. RingInit => Ring!Init
  <2> SUFFICES ASSUME RingInit PROVE Waiting = <<>>
    BY DEF Ring!Init
  <2>1. RingInv /\ Received = 0
    BY RingInvInit DEF RingInit, Received, Distance, Slots
  <2> QED
    BY <2>1, WaitingType DEF RingInv
<1>2. RingInv /\ [RingNext]_ringVars => [Ring!Put \/ Ring!Take]_Waiting
  <2> SUFFICES ASSUME RingInv, [RingNext]_ringVars
               PROVE  Ring!Put \/ Ring!Take \/ Waiting' = Waiting
    OBVIOUS
  <2>1. Waiting \in Seq(Frames) /\ Len(Waiting) = Received
    BY WaitingType DEF RingInv
  <2>2. ASSUME NEW f \in Frames, Store(f) PROVE Ring!Put
    <3>1. Received < Descriptors /\ Waiting' = Append(Waiting, f)
      BY <2>2, StoreStep
    <3> QED
      BY <2>1, <3>1 DEF Ring!Put
  <2>3. CASE Rearm
    <3>1. Received > 0 /\ Waiting' = Tail(Waiting)
      BY <2>3, RearmStep
    <3> QED
      BY <2>1, <3>1 DEF Ring!Take
  <2> QED
    BY <2>2, <2>3, RingInvStutter DEF RingNext
<1> QED
  BY <1>1, <1>2, RingInvariant, PTL DEF RingSpec, RingIsQueue, Ring!Spec

-----------------------------------------------------------------------------
(* The network around the ring.                                             *)

USE ModesAssumption, BoundsAssumption, BeatAssumption
    DEF ModesAssumption, BoundsAssumption, BeatAssumption, AllModes

Control ==
  /\ mode \in Modes
  /\ pc \in {"init", "gone", "phyReset", "waitLink", "waitLwip", "lease", "leaseDelay",
             "fallback", "poll", "rest"}
  /\ linkWasUp \in BOOLEAN /\ phy \in {"down", "negotiating", "up"}
  /\ lwipReady \in BOOLEAN /\ ifUp \in BOOLEAN /\ expired \in BOOLEAN
  /\ addr \in {"none", "static", "lease"} /\ dhcp \in {"off", "selecting", "bound"}
  /\ dpc \in {"wait", "loop", "recv", "gone"}

Counters ==
  /\ elapsed \in Nat /\ sinceCheck \in 0 .. CheckEvery
  /\ free \in Nat /\ udp \in 0 .. UdpMbox /\ budget \in 0 .. Burst /\ lost \in 0 .. MaxLost
  /\ beatAge \in 0 .. BeatEvery

\* tcpip_thread has the higher priority: the manager finds its mailbox empty
\* and posts once.
Posted(m) == mbox = <<m>>
AtMostOne == TcpipDone \/ \E m \in Callbacks \cup Frames : Posted(m)

\* Every pbuf is accounted for.
Framed == \E f \in Frames : Posted(f)
Counted == free + udp + (IF Framed THEN 1 ELSE 0) = Pool

\* What a callback found when it was posted, and still finds.
Pending ==
  /\ Posted("init") => pc = "waitLwip"
  /\ Posted("fallback") => pc \in {"poll", "rest"} /\ linkWasUp /\ dhcp # "bound"
  /\ Posted("linkDown") => pc = "rest" /\ ~linkWasUp
  /\ Posted("linkUp") => pc = "lease" \/ (pc = "rest" /\ linkWasUp)

\* The manager posts nothing before lwIP is there, and has not yet seen the
\* link; no wait for a lease
\* that is over left one; a STATIC node has no DHCP client.
Stages ==
  /\ pc \in {"init", "gone", "phyReset", "waitLink"} => TcpipDone /\ ~lwipReady
  /\ pc \in {"init", "gone", "phyReset", "waitLink", "waitLwip"} => linkWasUp
  /\ pc \in {"leaseDelay", "fallback"} => TcpipDone /\ dhcp # "bound"
  /\ pc \in {"lease", "leaseDelay", "fallback"} => mode # "STATIC"
  /\ mode = "STATIC" => dhcp = "off" /\ addr # "lease"

\* As long as no callback was lost: the address is the DHCP client's or the
\* configured one, and gone with the link.
Faithful ==
  /\ addr = "lease" => dhcp = "bound"
  /\ mode # "STATIC" /\ dhcp = "off" => addr = "none"
  /\ pc = "waitLwip" /\ lwipReady /\ mode # "STATIC" => dhcp # "off"
  /\ pc \in {"lease", "leaseDelay", "fallback"} => Posted("linkUp") \/ dhcp # "off"
  /\ Posted("fallback") => dhcp = "selecting"
  /\ Posted("linkUp") /\ mode # "STATIC" => dhcp = "off"
  /\ ~linkWasUp /\ pc \in {"poll", "rest"} /\ ~Posted("linkDown") =>
       ~ifUp /\ (mode # "STATIC" => dhcp = "off")

NetInv == Control /\ Counters /\ AtMostOne /\ Counted /\ Pending /\ Stages /\ (lost = 0 => Faithful)

-----------------------------------------------------------------------------
LEMMA OneMessage ==
  /\ \A m : Append(<<>>, m) = <<m>> /\ Head(<<m>>) = m /\ Tail(<<m>>) = <<>> /\ <<m>> # <<>>
  /\ \A m, k : <<m>> = <<k>> => m = k
OBVIOUS

\* What the empty mailbox, and the mailbox with one message, say of the parts.
LEMMA Empty ==
  ASSUME TcpipDone
  PROVE  ~Framed /\ AtMostOne /\ \A m : ~Posted(m)
BY OneMessage DEF TcpipDone, Framed, Posted, AtMostOne

LEMMA Single ==
  ASSUME NEW m \in Callbacks \cup Frames, mbox = <<m>>
  PROVE  /\ ~TcpipDone /\ AtMostOne
         /\ \A k : Posted(k) <=> k = m
         /\ Framed <=> m \in Frames
BY OneMessage DEF TcpipDone, Framed, Posted, AtMostOne

LEMMA SameMailbox ==
  ASSUME UNCHANGED mbox
  PROVE  /\ TcpipDone' <=> TcpipDone
         /\ AtMostOne' <=> AtMostOne
         /\ Framed' <=> Framed
         /\ \A m : Posted(m)' <=> Posted(m)
BY DEF TcpipDone, AtMostOne, Framed, Posted

LEMMA EmptyNext ==
  ASSUME mbox' = <<>>
  PROVE  TcpipDone' /\ ~Framed' /\ AtMostOne' /\ \A m : ~Posted(m)'
BY OneMessage DEF TcpipDone, Framed, Posted, AtMostOne

LEMMA SingleNext ==
  ASSUME NEW m \in Callbacks \cup Frames, mbox' = <<m>>
  PROVE  /\ ~TcpipDone' /\ AtMostOne'
         /\ \A k : Posted(k)' <=> k = m
         /\ Framed' <=> m \in Frames
BY OneMessage DEF TcpipDone, Framed, Posted, AtMostOne

\* The manager finds the mailbox empty: a callback it posts is alone there.
LEMMA CallbackAlone ==
  ASSUME NEW cb \in Callbacks, TcpipDone, Callback(cb), Counters
  PROVE  \/ mbox' = <<cb>> /\ lost' = lost
         \/ TcpipDone' /\ mbox' = mbox /\ lost' = lost + 1 /\ lost' \in 0 .. MaxLost /\ lost' # 0
BY OneMessage DEF TcpipDone, Callback, Counters

LEMMA Fetched ==
  ASSUME NEW m, AtMostOne, Fetch(m)
  PROVE  Posted(m) /\ mbox = <<m>> /\ mbox' = <<>> /\ m \in Callbacks \cup Frames
BY OneMessage DEF AtMostOne, TcpipDone, Fetch, Posted

LEMMA NetInvInit == Init => NetInv
<1>1. SUFFICES ASSUME Init PROVE NetInv
  OBVIOUS
<1>2. TcpipDone /\ pc = "init" /\ addr = "none" /\ dhcp = "off" /\ linkWasUp = TRUE /\ ~lwipReady
      /\ free = Pool /\ udp = 0
  BY <1>1 DEF Init, NetInit, TcpipDone
<1>3. Control
  BY <1>1 DEF Init, NetInit, Control
<1>4. Counters
  BY <1>1 DEF Init, NetInit, Counters
<1> QED
  BY <1>2, <1>3, <1>4, Empty DEF NetInv, Counted, Pending, Stages, Faithful

-----------------------------------------------------------------------------
(* NetManager's steps.                                                      *)

\* What a step of the manager does to the discovery task.
BeatGrows == beatAge' \in 0 .. BeatEvery /\ UNCHANGED dpc

LEMMA Bringup ==
  ASSUME NetInv, InitEth \/ PhyPolled \/ LwipReady, BeatGrows
  PROVE  NetInv'
<1>1. UNCHANGED <<mbox, mode, linkWasUp, lwipReady, ifUp, addr, dhcp, free, udp, lost>>
  BY DEF InitEth, PhyPolled, LwipReady, initVars, ifVars
<1>2. Control'
  BY <1>1 DEF NetInv, BeatGrows, Control, InitEth, PhyPolled, LwipReady, initVars, ifVars
<1>3. Counters'
  BY <1>1 DEF NetInv, BeatGrows, Counters, InitEth, PhyPolled, LwipReady, initVars
<1>4. TcpipDone /\ pc \in {"init", "phyReset", "waitLwip"}
      /\ pc' \in {"phyReset", "gone", "waitLink", "lease", "poll"}
      /\ (pc = "waitLwip" => pc' \in {"lease", "poll"})
      /\ (pc' = "lease" => mode # "STATIC") /\ linkWasUp
  BY DEF NetInv, Stages, InitEth, PhyPolled, LwipReady
<1>5. AtMostOne' /\ Counted'
  BY <1>1, SameMailbox DEF NetInv, Counted
<1>6. Pending' /\ Stages'
  BY <1>1, <1>4, SameMailbox, Empty DEF NetInv, Pending, Stages
<1>7. lost' = 0 => Faithful'
  BY <1>1, <1>4, SameMailbox, Empty DEF NetInv, Faithful, InitEth, PhyPolled, LwipReady
<1> QED
  BY <1>2, <1>3, <1>5, <1>6, <1>7 DEF NetInv

LEMMA LinkFoundStep ==
  ASSUME NetInv, LinkFound, BeatGrows
  PROVE  NetInv'
<1>1. UNCHANGED <<mode, linkWasUp, lwipReady, ifUp, addr, dhcp, free, udp, lost>>
  BY DEF LinkFound, initVars, ifVars
<1>2. Control'
  BY <1>1 DEF NetInv, BeatGrows, Control, LinkFound, initVars, ifVars
<1>3. Counters'
  BY <1>1 DEF NetInv, BeatGrows, Counters, LinkFound, initVars, ifVars
<1>4. pc = "waitLink" /\ pc' = "waitLwip" /\ mbox' = <<"init">> /\ TcpipDone /\ ~lwipReady
  BY DEF NetInv, Stages, LinkFound
<1>8. ~TcpipDone' /\ AtMostOne' /\ ~Framed' /\ \A k : Posted(k)' <=> k = "init"
  BY <1>4, SingleNext DEF Callbacks
<1>5. AtMostOne' /\ Counted'
  BY <1>1, <1>4, <1>8, Empty DEF NetInv, Counted
<1>6. Pending' /\ Stages'
  BY <1>1, <1>4, <1>8 DEF NetInv, Pending, Stages
<1>7. lost' = 0 => Faithful'
  BY <1>1, <1>4, <1>8 DEF NetInv, Faithful
<1> QED
  BY <1>2, <1>3, <1>5, <1>6, <1>7 DEF NetInv

LEMMA QuietStep ==
  ASSUME NetInv, NotYet \/ LeaseDelayEnds \/ NotChecked \/ RestEnds, BeatGrows
  PROVE  NetInv'
<1>1. UNCHANGED <<mode, linkWasUp, mbox, lwipReady, ifUp, addr, dhcp, free, udp, lost>>
  BY DEF NotYet, LeaseDelayEnds, NotChecked, RestEnds, Later, ifVars
<1>2. Control'
  BY <1>1 DEF NetInv, BeatGrows, Control, NotYet, LeaseDelayEnds, NotChecked, RestEnds, Later, ifVars
<1>3. Counters'
  BY <1>1 DEF NetInv, BeatGrows, Counters, NotYet, LeaseDelayEnds, NotChecked, RestEnds, Later, ifVars
<1>4. /\ TcpipDone
      /\ \/ pc = "lease" /\ pc' = "leaseDelay" /\ dhcp # "bound"
         \/ pc = "leaseDelay" /\ pc' \in {"lease", "fallback"}
         \/ pc = "poll" /\ pc' = "rest"
         \/ pc = "rest" /\ pc' = "poll"
  BY DEF NotYet, LeaseDelayEnds, NotChecked, RestEnds
<1>5. AtMostOne' /\ Counted'
  BY <1>1, SameMailbox, Empty DEF NetInv, Counted
<1>6. Pending' /\ Stages'
  BY <1>1, <1>4, SameMailbox, Empty DEF NetInv, Pending, Stages
<1>7. lost' = 0 => Faithful'
  BY <1>1, <1>4, SameMailbox, Empty DEF NetInv, Faithful
<1> QED
  BY <1>2, <1>3, <1>5, <1>6, <1>7 DEF NetInv

LEMMA GrantedStep ==
  ASSUME NetInv, Granted, BeatGrows
  PROVE  NetInv'
<1>1. UNCHANGED <<mode, mbox, lwipReady, ifUp, addr, dhcp, free, udp, lost>>
  BY DEF Granted, EndLeaseWait, ifVars
<1>2. Control'
  BY <1>1 DEF NetInv, BeatGrows, Control, Granted, EndLeaseWait, ifVars
<1>3. Counters'
  BY <1>1 DEF NetInv, BeatGrows, Counters, Granted, EndLeaseWait, ifVars
<1>4. TcpipDone /\ pc = "lease" /\ pc' \in {"poll", "rest"} /\ dhcp = "bound" /\ linkWasUp' = TRUE
  BY DEF Granted, EndLeaseWait
<1>5. AtMostOne' /\ Counted'
  BY <1>1, SameMailbox, Empty DEF NetInv, Counted
<1>6. Pending' /\ Stages'
  BY <1>1, <1>4, SameMailbox, Empty DEF NetInv, Pending, Stages
<1>7. lost' = 0 => Faithful'
  BY <1>1, <1>4, SameMailbox, Empty DEF NetInv, Faithful
<1> QED
  BY <1>2, <1>3, <1>5, <1>6, <1>7 DEF NetInv

LEMMA FallbackStep ==
  ASSUME NetInv, Fallback, BeatGrows
  PROVE  NetInv'
<1>1. /\ UNCHANGED <<mode, lwipReady, ifUp, addr, dhcp, free, udp, phy, budget, expired>>
      /\ TcpipDone /\ pc = "fallback" /\ Callback("fallback")
  BY DEF Fallback, ifVars
<1>8. /\ linkWasUp' = TRUE /\ elapsed' = 0
      /\ \/ pc' = "poll" /\ sinceCheck' = 0
         \/ pc' = "rest" /\ sinceCheck' = sinceCheck
  BY DEF Fallback, EndLeaseWait
<1>2. \/ mbox' = <<"fallback">> /\ lost' = lost
      \/ TcpipDone' /\ mbox' = mbox /\ lost' = lost + 1 /\ lost' \in 0 .. MaxLost /\ lost' # 0
  BY <1>1, CallbackAlone DEF NetInv, Callbacks
<1>3. Control'
  BY <1>1, <1>8 DEF NetInv, Control, BeatGrows
<1>4. Counters'
  BY <1>1, <1>8, <1>2 DEF NetInv, Counters, BeatGrows
<1>5. dhcp # "bound" /\ mode # "STATIC"
  BY <1>1 DEF NetInv, Stages
<1>6. CASE mbox' = <<"fallback">> /\ lost' = lost
  <2>1. ~TcpipDone' /\ AtMostOne' /\ ~Framed' /\ \A k : Posted(k)' <=> k = "fallback"
    BY <1>6, SingleNext DEF Callbacks
  <2>2. Counted' /\ Pending' /\ Stages'
    BY <1>1, <1>8, <1>5, <2>1, Empty DEF NetInv, Counted, Pending, Stages
  <2>3. lost' = 0 => Faithful'
    BY <1>1, <1>8, <1>5, <1>6, <2>1, Empty DEF NetInv, Control, Faithful
  <2> QED
    BY <1>3, <1>4, <2>1, <2>2, <2>3 DEF NetInv
<1>7. CASE mbox' = mbox /\ lost' # 0
  <2>1. AtMostOne' /\ Counted' /\ Pending' /\ Stages'
    BY <1>1, <1>8, <1>5, <1>7, SameMailbox, Empty DEF NetInv, Counted, Pending, Stages
  <2> QED
    BY <1>3, <1>4, <1>7, <2>1 DEF NetInv
<1> QED
  BY <1>2, <1>6, <1>7

LEMMA LinkCheckedStep ==
  ASSUME NetInv, LinkChecked, BeatGrows
  PROVE  NetInv'
<1>1. UNCHANGED <<mode, elapsed, lwipReady, ifUp, addr, dhcp, free, udp, phy, budget, expired>>
      /\ sinceCheck' = 0 /\ TcpipDone /\ pc = "poll"
  BY DEF LinkChecked, ifVars
<1>2. CASE linkWasUp /\ linkWasUp' = FALSE /\ Callback("linkDown") /\ pc' = "rest"
  <2>1. \/ mbox' = <<"linkDown">> /\ lost' = lost
        \/ TcpipDone' /\ mbox' = mbox /\ lost' = lost + 1 /\ lost' \in 0 .. MaxLost /\ lost' # 0
    BY <1>1, <1>2, CallbackAlone DEF NetInv, Callbacks
  <2>2. Control' /\ Counters'
    <3>1. Control'
      BY <1>1, <1>2 DEF NetInv, Control, BeatGrows
    <3>2. Counters'
      BY <1>1, <2>1 DEF NetInv, Counters, BeatGrows
    <3> QED
      BY <3>1, <3>2
  <2>3. CASE mbox' = <<"linkDown">> /\ lost' = lost
    <3>1. ~TcpipDone' /\ AtMostOne' /\ ~Framed' /\ \A k : Posted(k)' <=> k = "linkDown"
      BY <2>3, SingleNext DEF Callbacks
    <3>2. Counted' /\ Pending' /\ Stages'
      BY <1>1, <1>2, <3>1, Empty DEF NetInv, Counted, Pending, Stages
    <3>3. lost' = 0 => Faithful'
      BY <1>1, <1>2, <2>3, <3>1, Empty DEF NetInv, Faithful
    <3> QED
      BY <2>2, <3>1, <3>2, <3>3 DEF NetInv
  <2>4. CASE mbox' = mbox /\ lost' # 0
    <3>1. AtMostOne' /\ Counted' /\ Pending' /\ Stages'
      BY <1>1, <1>2, <2>4, SameMailbox, Empty DEF NetInv, Counted, Pending, Stages
    <3> QED
      BY <2>2, <2>4, <3>1 DEF NetInv
  <2> QED
    BY <2>1, <2>3, <2>4
<1>3. CASE /\ ~linkWasUp /\ Callback("linkUp")
           /\ \/ mode = "DHCP_WITH_FALLBACK" /\ pc' = "lease" /\ ~linkWasUp'
              \/ pc' = "rest" /\ linkWasUp' = TRUE
  <2>1. \/ mbox' = <<"linkUp">> /\ lost' = lost
        \/ TcpipDone' /\ mbox' = mbox /\ lost' = lost + 1 /\ lost' \in 0 .. MaxLost /\ lost' # 0
    BY <1>1, <1>3, CallbackAlone DEF NetInv, Callbacks
  <2>2. linkWasUp' \in BOOLEAN
    BY <1>3, <1>1 DEF LinkChecked, NetInv, Control
  <2>3. Control' /\ Counters'
    BY <1>1, <1>3, <2>1, <2>2 DEF NetInv, Control, Counters, BeatGrows
  <2>4. CASE mbox' = <<"linkUp">> /\ lost' = lost
    <3>1. ~TcpipDone' /\ AtMostOne' /\ ~Framed' /\ \A k : Posted(k)' <=> k = "linkUp"
      BY <2>4, SingleNext DEF Callbacks
    <3>2. Counted' /\ Pending' /\ Stages'
      BY <1>1, <1>3, <3>1, Empty DEF NetInv, Counted, Pending, Stages
    <3>3. lost' = 0 => Faithful'
      BY <1>1, <1>3, <2>4, <3>1, Empty DEF NetInv, Faithful
    <3> QED
      BY <2>3, <3>1, <3>2, <3>3 DEF NetInv
  <2>5. CASE mbox' = mbox /\ lost' # 0
    <3>1. AtMostOne' /\ Counted' /\ Pending' /\ Stages'
      BY <1>1, <1>3, <2>5, SameMailbox, Empty DEF NetInv, Counted, Pending, Stages
    <3> QED
      BY <2>3, <2>5, <3>1 DEF NetInv
  <2> QED
    BY <2>1, <2>4, <2>5
<1>4. CASE NoCallback /\ pc' = "rest" /\ UNCHANGED linkWasUp
  <2>1. Control' /\ Counters'
    BY <1>1, <1>4 DEF NetInv, Control, Counters, BeatGrows, NoCallback
  <2>2. AtMostOne' /\ Counted' /\ Pending' /\ Stages'
    BY <1>1, <1>4, SameMailbox, Empty DEF NetInv, Counted, Pending, Stages, NoCallback
  <2>3. lost' = 0 => Faithful'
    BY <1>1, <1>4, SameMailbox, Empty DEF NetInv, Faithful, NoCallback
  <2> QED
    BY <2>1, <2>2, <2>3 DEF NetInv
<1> QED
  BY <1>2, <1>3, <1>4 DEF LinkChecked, NetInv, Control

LEMMA TakeFrameStep ==
  ASSUME RingTypeOK, NetInv, TakeFrame, BeatGrows
  PROVE  NetInv'
<1>1. UNCHANGED <<mode, pc, elapsed, sinceCheck, linkWasUp, lwipReady, ifUp, addr, dhcp, udp,
                  phy, budget, expired, lost>>
      /\ TcpipDone /\ pc \in {"lease", "poll"}
  BY DEF TakeFrame, taskVars, ifVars
<1>2. Oldest \in Frames
  BY DEF RingTypeOK, Oldest
<1>3. \/ mbox' = <<Oldest>> /\ free' = free - 1 /\ free > 0
      \/ mbox' = mbox /\ free' = free
  BY <1>1, OneMessage DEF TakeFrame, TcpipDone, FreesRefused
<1>4. Control' /\ Counters'
  BY <1>1, <1>3 DEF NetInv, Control, Counters, BeatGrows
<1>5. CASE mbox' = <<Oldest>> /\ free' = free - 1
  <2>1. ~TcpipDone' /\ AtMostOne' /\ Framed' /\ \A k : Posted(k)' <=> k = Oldest
    BY <1>2, <1>5, SingleNext
  <2>2. Oldest \notin Callbacks
    BY <1>2 DEF Callbacks
  <2>3. Counted'
    BY <1>1, <1>4, <1>5, <2>1, Empty DEF NetInv, Counted, Counters
  <2>4. Pending' /\ Stages'
    BY <1>1, <2>1, <2>2 DEF NetInv, Pending, Stages, Callbacks
  <2>5. lost' = 0 => Faithful'
    BY <1>1, <2>1, <2>2, Empty DEF NetInv, Faithful, Callbacks
  <2> QED
    BY <1>4, <2>1, <2>3, <2>4, <2>5 DEF NetInv
<1>6. CASE mbox' = mbox /\ free' = free
  <2>1. AtMostOne' /\ Counted' /\ Pending' /\ Stages'
    BY <1>1, <1>6, SameMailbox DEF NetInv, Counted, Pending, Stages
  <2>2. lost' = 0 => Faithful'
    BY <1>1, <1>6, SameMailbox DEF NetInv, Faithful
  <2> QED
    BY <1>4, <2>1, <2>2 DEF NetInv
<1> QED
  BY <1>3, <1>5, <1>6

-----------------------------------------------------------------------------
(* tcpip_thread's steps.                                                    *)

LEMMA RunInitStep ==
  ASSUME NetInv, RunInit, UNCHANGED <<dpc, beatAge>>
  PROVE  NetInv'
<1>1. UNCHANGED <<mode, pc, elapsed, sinceCheck, linkWasUp, phy, budget, lost, expired, free, udp>>
  BY DEF RunInit, restVars, taskVars
<1>2. mbox = <<"init">> /\ mbox' = <<>> /\ "init" \in Callbacks \cup Frames
  BY Fetched DEF NetInv, RunInit
<1>3. /\ ~TcpipDone /\ AtMostOne /\ ~Framed /\ \A k : Posted(k) <=> k = "init"
      /\ TcpipDone' /\ AtMostOne' /\ ~Framed' /\ \A k : ~Posted(k)'
  BY <1>2, Single, EmptyNext DEF Callbacks
<1>4. Control'
  BY <1>1 DEF NetInv, Control, RunInit
<1>5. Counters'
  BY <1>1 DEF NetInv, Counters, RunInit
<1>6. Counted'
  BY <1>1, <1>3 DEF NetInv, Counted, Counters, RunInit
<1>7. Pending' /\ Stages'
  BY <1>1, <1>3 DEF NetInv, Pending, Stages, RunInit
<1>8. lost' = 0 => Faithful'
  BY <1>1, <1>3 DEF NetInv, Control, Pending, Faithful, RunInit
<1> QED
  BY <1>3, <1>4, <1>5, <1>6, <1>7, <1>8 DEF NetInv

LEMMA RunFallbackStep ==
  ASSUME NetInv, RunFallback, UNCHANGED <<dpc, beatAge>>
  PROVE  NetInv'
<1>1. UNCHANGED <<mode, pc, elapsed, sinceCheck, linkWasUp, phy, budget, lost, lwipReady, ifUp, dhcp, expired, free, udp>>
  BY DEF RunFallback, restVars, taskVars
<1>2. mbox = <<"fallback">> /\ mbox' = <<>> /\ "fallback" \in Callbacks \cup Frames
  BY Fetched DEF NetInv, RunFallback
<1>3. /\ ~TcpipDone /\ AtMostOne /\ ~Framed /\ \A k : Posted(k) <=> k = "fallback"
      /\ TcpipDone' /\ AtMostOne' /\ ~Framed' /\ \A k : ~Posted(k)'
  BY <1>2, Single, EmptyNext DEF Callbacks
<1>4. Control'
  BY <1>1 DEF NetInv, Control, RunFallback
<1>5. Counters'
  BY <1>1 DEF NetInv, Counters, RunFallback
<1>6. Counted'
  BY <1>1, <1>3 DEF NetInv, Counted, Counters, RunFallback
<1>7. Pending' /\ Stages'
  BY <1>1, <1>3 DEF NetInv, Pending, Stages, RunFallback
<1>8. lost' = 0 => Faithful'
  BY <1>1, <1>3 DEF NetInv, Control, Pending, Faithful, RunFallback
<1> QED
  BY <1>3, <1>4, <1>5, <1>6, <1>7, <1>8 DEF NetInv

LEMMA RunLinkDownStep ==
  ASSUME NetInv, RunLinkDown, UNCHANGED <<dpc, beatAge>>
  PROVE  NetInv'
<1>1. UNCHANGED <<mode, pc, elapsed, sinceCheck, linkWasUp, phy, budget, lost, lwipReady, expired, free, udp>>
  BY DEF RunLinkDown, restVars, taskVars
<1>2. mbox = <<"linkDown">> /\ mbox' = <<>> /\ "linkDown" \in Callbacks \cup Frames
  BY Fetched DEF NetInv, RunLinkDown
<1>3. /\ ~TcpipDone /\ AtMostOne /\ ~Framed /\ \A k : Posted(k) <=> k = "linkDown"
      /\ TcpipDone' /\ AtMostOne' /\ ~Framed' /\ \A k : ~Posted(k)'
  BY <1>2, Single, EmptyNext DEF Callbacks
<1>4. Control'
  <2>1. /\ ifUp' = FALSE
        /\ addr' \in {addr, "none"} /\ dhcp' \in {dhcp, "off"}
    BY DEF RunLinkDown, ClientStopped
  <2>2. ifUp' \in BOOLEAN /\ lwipReady' \in BOOLEAN /\ expired' \in BOOLEAN
    BY <1>1, <2>1 DEF NetInv, Control
  <2>3. addr' \in {"none", "static", "lease"} /\ dhcp' \in {"off", "selecting", "bound"}
    BY <2>1 DEF NetInv, Control
  <2> QED
    BY <1>1, <2>2, <2>3 DEF NetInv, Control
<1>5. Counters'
  BY <1>1 DEF NetInv, Counters, RunLinkDown, ClientStopped
<1>6. Counted'
  BY <1>1, <1>3 DEF NetInv, Counted, Counters, RunLinkDown, ClientStopped
<1>7. Pending' /\ Stages'
  BY <1>1, <1>3 DEF NetInv, Pending, Stages, RunLinkDown, ClientStopped
<1>8. lost' = 0 => Faithful'
  BY <1>1, <1>3 DEF NetInv, Control, Pending, Faithful, RunLinkDown, ClientStopped
<1> QED
  BY <1>3, <1>4, <1>5, <1>6, <1>7, <1>8 DEF NetInv

LEMMA RunLinkUpStep ==
  ASSUME NetInv, RunLinkUp, UNCHANGED <<dpc, beatAge>>
  PROVE  NetInv'
<1>1. UNCHANGED <<mode, pc, elapsed, sinceCheck, linkWasUp, phy, budget, lost, lwipReady, free, udp>>
  BY DEF RunLinkUp, restVars, taskVars
<1>2. mbox = <<"linkUp">> /\ mbox' = <<>> /\ "linkUp" \in Callbacks \cup Frames
  BY Fetched DEF NetInv, RunLinkUp
<1>3. /\ ~TcpipDone /\ AtMostOne /\ ~Framed /\ \A k : Posted(k) <=> k = "linkUp"
      /\ TcpipDone' /\ AtMostOne' /\ ~Framed' /\ \A k : ~Posted(k)'
  BY <1>2, Single, EmptyNext DEF Callbacks
<1>4. Control'
  BY <1>1, ZenonT(40) DEF NetInv, Control, RunLinkUp
<1>5. Counters'
  BY <1>1 DEF NetInv, Counters, RunLinkUp
<1>6. Counted'
  BY <1>1, <1>3 DEF NetInv, Counted, Counters, RunLinkUp
<1>7. Pending' /\ Stages'
  BY <1>1, <1>3 DEF NetInv, Pending, Stages, RunLinkUp
<1>8. lost' = 0 => Faithful'
  BY <1>1, <1>3 DEF NetInv, Control, Pending, Stages, Faithful, RunLinkUp
<1> QED
  BY <1>3, <1>4, <1>5, <1>6, <1>7, <1>8 DEF NetInv

LEMMA RunLeaseStep ==
  ASSUME NetInv, RunLease, UNCHANGED <<dpc, beatAge>>
  PROVE  NetInv'
<1>1. UNCHANGED <<mode, pc, elapsed, sinceCheck, linkWasUp, phy, budget, lost, lwipReady, ifUp, expired, udp>>
  BY DEF RunLease, restVars, taskVars, ifVars
<1>2. mbox = <<"lease">> /\ mbox' = <<>> /\ "lease" \in Callbacks \cup Frames
  BY Fetched DEF NetInv, RunLease
<1>3. /\ ~TcpipDone /\ AtMostOne /\ Framed /\ \A k : Posted(k) <=> k = "lease"
      /\ TcpipDone' /\ AtMostOne' /\ ~Framed' /\ \A k : ~Posted(k)'
  BY <1>2, Single, EmptyNext
<1>4. Control'
  BY <1>1 DEF NetInv, Control, RunLease
<1>5. Counters'
  BY <1>1 DEF NetInv, Counters, RunLease
<1>6. Counted'
  BY <1>1, <1>3 DEF NetInv, Counted, Counters, RunLease
<1>7. Pending' /\ Stages'
  BY <1>1, <1>3 DEF NetInv, Pending, Stages, RunLease
<1>8. lost' = 0 => Faithful'
  BY <1>1, <1>3 DEF NetInv, Control, Pending, Faithful, RunLease
<1> QED
  BY <1>3, <1>4, <1>5, <1>6, <1>7, <1>8 DEF NetInv

LEMMA RunPingStep ==
  ASSUME NetInv, RunPing(Open), UNCHANGED <<dpc, beatAge>>
  PROVE  NetInv'
<1>1. UNCHANGED <<mode, pc, elapsed, sinceCheck, linkWasUp, phy, budget, lost, lwipReady, ifUp, addr, dhcp, expired>>
  BY DEF RunPing, restVars, taskVars, ifVars
<1>2. mbox = <<"ping">> /\ mbox' = <<>> /\ "ping" \in Callbacks \cup Frames
  BY Fetched DEF NetInv, RunPing
<1>3. /\ ~TcpipDone /\ AtMostOne /\ Framed /\ \A k : Posted(k) <=> k = "ping"
      /\ TcpipDone' /\ AtMostOne' /\ ~Framed' /\ \A k : ~Posted(k)'
  BY <1>2, Single, EmptyNext
<1>4. Control'
  BY <1>1 DEF NetInv, Control, RunPing
<1>5. Counters'
  BY <1>1 DEF NetInv, Counters, RunPing
<1>6. Counted'
  BY <1>1, <1>3 DEF NetInv, Counted, Counters, RunPing
<1>7. Pending' /\ Stages'
  BY <1>1, <1>3 DEF NetInv, Pending, Stages, RunPing
<1>8. lost' = 0 => Faithful'
  BY <1>1, <1>3 DEF NetInv, Control, Pending, Faithful, RunPing
<1> QED
  BY <1>3, <1>4, <1>5, <1>6, <1>7, <1>8 DEF NetInv

-----------------------------------------------------------------------------
(* The steps of the network and of the discovery task.                      *)

\* None of them looks at the mailbox.
LEMMA OutsideStep ==
  ASSUME NetInv, UNCHANGED <<mode, pc, linkWasUp, lwipReady, mbox, lost>>,
         Control', Counters', free' + udp' = free + udp,
         \/ UNCHANGED <<addr, ifUp, dhcp>>
         \/ LeaseExpires
  PROVE  NetInv'
<1>1. AtMostOne' /\ Counted'
  BY SameMailbox DEF NetInv, Counted, Counters
<1>2. dhcp' = dhcp \/ (dhcp = "bound" /\ dhcp' = "selecting" /\ addr' = "none")
  BY DEF LeaseExpires
<1>3. ifUp' = ifUp /\ (addr' = addr \/ dhcp' = "selecting")
  BY DEF LeaseExpires
<1>4. Pending' /\ Stages'
  BY <1>2, <1>3, SameMailbox DEF NetInv, Pending, Stages, LeaseExpires
<1>5. lost' = 0 => Faithful'
  BY <1>2, <1>3, SameMailbox DEF NetInv, Faithful, Control, LeaseExpires
<1> QED
  BY <1>1, <1>4, <1>5 DEF NetInv

LEMMA WorldStep ==
  ASSUME NetInv, World
  PROVE  NetInv'
<1>1. CASE PhyChanges
  <2>1. UNCHANGED <<mode, pc, linkWasUp, lwipReady, mbox, lost, addr, ifUp, dhcp, free, udp>>
    BY <1>1 DEF PhyChanges, taskVars, ifVars
  <2>2. Control' /\ Counters'
    BY <1>1, <2>1 DEF World, discoveryVars, PhyChanges, taskVars, ifVars, NetInv, Control, Counters
  <2> QED
    BY <2>1, <2>2, OutsideStep
<1>2. CASE LeaseExpires
  <2>1. UNCHANGED <<mode, pc, linkWasUp, lwipReady, mbox, lost, ifUp, free, udp>>
    BY <1>2 DEF LeaseExpires, taskVars
  <2>2. Control' /\ Counters'
    BY <1>2, <2>1 DEF World, discoveryVars, LeaseExpires, taskVars, NetInv, Control, Counters
  <2> QED
    BY <1>2, <2>1, <2>2, OutsideStep
<1>3. CASE \E f \in Frames : Receive(f)
  <2>1. PICK f \in Frames : Receive(f)
    BY <1>3
  <2>2. UNCHANGED <<mode, pc, linkWasUp, lwipReady, mbox, lost, addr, ifUp, dhcp, free, udp>>
    BY <2>1 DEF Receive, taskVars, ifVars
  <2>3. Control' /\ Counters'
    BY <2>1, <2>2 DEF World, discoveryVars, Receive, taskVars, ifVars, NetInv, Control, Counters
  <2> QED
    BY <2>2, <2>3, OutsideStep
<1> QED
  BY <1>1, <1>2, <1>3 DEF World

LEMMA DiscoveryKeeps ==
  ASSUME NetInv, DiscoveryStep
  PROVE  NetInv'
<1>1. CASE Receives
  <2>1. UNCHANGED <<mode, pc, linkWasUp, lwipReady, mbox, lost, addr, ifUp, dhcp>>
    BY <1>1 DEF Receives, taskVars, ifVars
  <2>2. Control' /\ Counters'
    BY <1>1, <2>1 DEF Receives, DeletesBuffer, KeepsClock, taskVars, ifVars, NetInv, Control, Counters
  <2>3. free' + udp' = free + udp
    BY <1>1 DEF Receives, DeletesBuffer, NetInv, Counters
  <2> QED
    BY <2>1, <2>2, <2>3, OutsideStep
<1>2. CASE OpenPort \/ LoopTop \/ TimesOut
  <2>1. UNCHANGED netVars
    BY <1>2 DEF OpenPort, LoopTop, TimesOut
  <2>2. UNCHANGED <<mode, pc, linkWasUp, lwipReady, mbox, lost, addr, ifUp, dhcp, free, udp>>
    BY <2>1 DEF netVars, taskVars, ifVars
  <2>3. Control' /\ Counters'
    BY <1>2, <2>1, <2>2 DEF netVars, taskVars, ifVars, OpenPort, LoopTop, TimesOut, SendsHeartbeat,
       NetInv, Control, Counters
  <2> QED
    BY <2>2, <2>3, OutsideStep
<1> QED
  BY <1>1, <1>2 DEF DiscoveryStep

-----------------------------------------------------------------------------
LEMMA NetInvStutter == NetInv /\ UNCHANGED vars => NetInv'
<1>1. SUFFICES ASSUME NetInv, UNCHANGED vars PROVE NetInv'
  OBVIOUS
<1>2. UNCHANGED <<netVars, dpc, beatAge>>
  BY <1>1 DEF vars, discoveryVars
<1>3. UNCHANGED <<mode, pc, elapsed, sinceCheck, linkWasUp, phy, mbox, lwipReady, ifUp, addr, dhcp,
                  expired, free, udp, budget, lost>>
  BY <1>2 DEF netVars, taskVars, ifVars
<1>4. Control' /\ Counters'
  BY <1>1, <1>2, <1>3 DEF NetInv, Control, Counters
<1>5. free' + udp' = free + udp
  BY <1>3
<1> QED
  BY <1>1, <1>3, <1>4, <1>5, OutsideStep

LEMMA NetInvStep == RingTypeOK /\ NetInv /\ [Next]_vars => NetInv'
<1>1. SUFFICES ASSUME RingTypeOK, NetInv, [Next]_vars PROVE NetInv'
  OBVIOUS
<1>2. CASE ManagerOrTime
  <2>1. ManagerStep /\ BeatGrows
    BY <1>1, <1>2 DEF ManagerOrTime, BeatGrows, Grow, NetInv, Counters
  <2> QED
    BY <1>1, <2>1, Bringup, LinkFoundStep, QuietStep, GrantedStep, FallbackStep, LinkCheckedStep,
       TakeFrameStep DEF ManagerStep
<1>3. CASE Thread
  <2>1. TcpipStep(Open) /\ UNCHANGED <<dpc, beatAge>>
    BY <1>3 DEF Thread, discoveryVars
  <2> QED
    BY <1>1, <2>1, RunInitStep, RunFallbackStep, RunLinkDownStep, RunLinkUpStep, RunLeaseStep,
       RunPingStep DEF TcpipStep
<1> QED
  BY <1>1, <1>2, <1>3, WorldStep, DiscoveryKeeps, NetInvStutter DEF Next

(***************************************************************************)
(* The ring, filled by the MAC and emptied by the manager alone, is the    *)
(* ring of EthRing whatever the rest of the network does.                  *)
(***************************************************************************)
LEMMA RingInside == Init => RingInit
BY DEF Init, NetInit

LEMMA RingStepInside == [Next]_vars => [RingNext]_ringVars
<1>1. SUFFICES ASSUME Next, ~UNCHANGED ringVars PROVE RingNext
  BY DEF vars, netVars
<1>2. CASE ManagerOrTime
  BY <1>1, <1>2 DEF ManagerOrTime, ManagerStep, InitEth, PhyPolled, LinkFound, LwipReady, TakeFrame,
     Granted, NotYet, LeaseDelayEnds, Fallback, LinkChecked, NotChecked, RestEnds, initVars, RingNext
<1>3. CASE Thread
  BY <1>1, <1>3 DEF Thread, TcpipStep, RunInit, RunFallback, RunLinkDown, RunLinkUp, RunLease,
     RunPing, restVars
<1>4. CASE World
  BY <1>1, <1>4 DEF World, PhyChanges, LeaseExpires, Receive, RingNext
<1>5. CASE DiscoveryStep
  BY <1>1, <1>5 DEF DiscoveryStep, OpenPort, LoopTop, Receives, TimesOut, netVars
<1> QED
  BY <1>1, <1>2, <1>3, <1>4, <1>5 DEF Next

\* The network's ring behaves as Stm32H7Eth's ring alone.
THEOREM NetworkHasRing == Spec => RingSpec
BY RingInside, RingStepInside, PTL DEF Spec, RingSpec

\* Whatever the network and the tasks do, the MAC never writes into a buffer
\* that another descriptor still holds.
THEOREM NetworkBuffersApart == Spec => []BuffersNotShared
BY NetworkHasRing, BuffersStayApart, PTL

\* Frames come out of the ring in the order in which they came in, unmixed,
\* whatever the network and the tasks do.
THEOREM NetworkRingIsQueue == Spec => RingIsQueue
BY NetworkHasRing, RingImplementsQueue, PTL

\* The invariant of the node's network: types, the one message of the
\* mailbox, the pbufs, and what each pending callback may count on.
THEOREM NetInvariant == Spec => []NetInv
<1>1. Spec => []RingInv
  BY NetworkHasRing, RingInvariant, PTL
<1>2. RingInv => RingTypeOK
  BY DEF RingInv
<1> QED
  BY <1>1, <1>2, NetInvInit, NetInvStep, PTL DEF Spec

-----------------------------------------------------------------------------
LEMMA MailboxType == AtMostOne => mbox \in Seq(Callbacks \cup Frames)
<1> DEFINE S == Callbacks \cup Frames
<1>1. <<>> \in Seq(S) /\ \A m \in S : <<m>> \in Seq(S)
  OBVIOUS
<1>2. AtMostOne => mbox = <<>> \/ \E m \in S : mbox = <<m>>
  BY DEF AtMostOne, TcpipDone, Posted
<1> QED
  BY <1>1, <1>2

LEMMA Parts == RingInv /\ NetInv => TypeOK
<1>1. SUFFICES ASSUME RingInv, NetInv PROVE TypeOK
  OBVIOUS
<1>2. RingTypeOK /\ Control /\ Counters /\ mbox \in Seq(Callbacks \cup Frames)
  BY <1>1, MailboxType DEF RingInv, NetInv
<1> QED
  BY <1>2 DEF TypeOK, Control, Counters

\* Every variable keeps its type.
THEOREM NetworkTypes == Spec => []TypeOK
<1>1. Spec => []RingInv
  BY NetworkHasRing, RingInvariant, PTL
<1> QED
  BY <1>1, NetInvariant, Parts, PTL

\* The frames counted by PbufsConserved are the one message, if it is one.
LEMMA FramesCounted ==
  ASSUME AtMostOne
  PROVE  Cardinality({i \in DOMAIN mbox : mbox[i] \in Frames}) = IF Framed THEN 1 ELSE 0
<1> DEFINE S == {i \in DOMAIN mbox : mbox[i] \in Frames}
<1>1. CASE TcpipDone
  <2>1. S = {}
    BY <1>1 DEF TcpipDone
  <2> QED
    BY <1>1, <2>1, Empty, FS_EmptySet
<1>2. CASE \E m \in Callbacks \cup Frames : Posted(m)
  <2>1. PICK m \in Callbacks \cup Frames : mbox = <<m>>
    BY <1>2 DEF Posted
  <2>2. Framed <=> m \in Frames
    BY <2>1, Single
  <2>3. S = IF m \in Frames THEN {1} ELSE {}
    BY <2>1
  <2>4. Cardinality({1}) = 1 /\ Cardinality({}) = 0
    BY FS_EmptySet, FS_Singleton
  <2> QED
    BY <2>2, <2>3, <2>4
<1> QED
  BY <1>1, <1>2 DEF AtMostOne

\* Every pbuf is in the pool, under way to tcpip_thread or in the discovery
\* port's mailbox, for any number of them.
THEOREM NoPbufLost == Spec => []PbufsConserved
<1>1. NetInv => PbufsConserved
  <2>1. SUFFICES ASSUME NetInv PROVE PbufsConserved
    OBVIOUS
  <2>2. AtMostOne /\ Counted
    BY <2>1 DEF NetInv
  <2> QED
    BY <2>2, FramesCounted DEF Counted, PbufsConserved
<1> QED
  BY <1>1, NetInvariant, PTL

\* After the link is seen to go no frame of the ring gives the node an
\* address again.
THEOREM NoAddressAfterLink == Spec => []NoAddressWithoutLink
<1>1. NetInv => NoAddressWithoutLink
  <2>1. SUFFICES ASSUME NetInv, lost = 0, TcpipDone, ~linkWasUp, pc \in {"poll", "rest"}
                 PROVE  ~ifUp /\ (mode # "STATIC" => addr = "none" /\ dhcp = "off")
    BY DEF NoAddressWithoutLink
  <2> QED
    BY <2>1, Empty DEF NetInv, Faithful
<1> QED
  BY <1>1, NetInvariant, PTL

\* The fallback callback never takes the place of a lease that came between
\* the decision and the callback.
THEOREM LeaseStays == Spec => LeaseIsKept
<1>1. NetInv /\ [Next]_vars => [addr = "lease" /\ lost = 0 => addr' # "static"]_vars
  <2>1. SUFFICES ASSUME NetInv, Next, addr = "lease", lost = 0, addr' = "static" PROVE FALSE
    OBVIOUS
  <2>2. mode # "STATIC" /\ dhcp = "bound"
    BY <2>1 DEF NetInv, Stages, Faithful
  <2>3. ~RunFallback
    <3>1. SUFFICES ASSUME RunFallback PROVE FALSE
      OBVIOUS
    <3>2. Posted("fallback")
      BY <2>1, <3>1, Fetched DEF RunFallback, NetInv
    <3> QED
      BY <2>1, <2>2, <3>2 DEF NetInv, Pending
  <2>4. ~ManagerOrTime /\ ~World /\ ~DiscoveryStep
    <3>1. ~ManagerOrTime
      BY <2>1 DEF ManagerOrTime, ManagerStep, InitEth, PhyPolled, LinkFound, LwipReady, TakeFrame,
         Granted, NotYet, LeaseDelayEnds, Fallback, LinkChecked, NotChecked, RestEnds, initVars, ifVars
    <3>2. ~World
      BY <2>1 DEF World, PhyChanges, LeaseExpires, Receive, ifVars
    <3>3. ~DiscoveryStep
      BY <2>1 DEF DiscoveryStep, OpenPort, LoopTop, Receives, TimesOut, netVars, ifVars
    <3> QED
      BY <3>1, <3>2, <3>3
  <2>5. TcpipStep(Open)
    BY <2>1, <2>4 DEF Next, Thread
  <2> QED
    BY <2>1, <2>2, <2>3, <2>5 DEF TcpipStep, RunInit, RunLinkDown, RunLinkUp, RunLease, RunPing,
       ClientStopped, ifVars
<1> QED
  BY <1>1, NetInvariant, PTL DEF Spec, LeaseIsKept

=============================================================================
