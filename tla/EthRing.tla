------------------------------- MODULE EthRing -------------------------------
(***************************************************************************)
(* The receive ring of Stm32H7Eth (targets/stm32h7/hal_impl/               *)
(* Stm32H7Eth.cpp): descriptors that the MAC fills in turn and             *)
(* HAL_ETH_ReadData empties in turn, and the buffers the driver hands out  *)
(* to them round-robin, without asking whether they are still in use.      *)
(* Each frame fits one descriptor: buffers are longer than any frame of    *)
(* standard size.                                                          *)
(***************************************************************************)
EXTENDS Naturals, Sequences

CONSTANTS
  Descriptors,  \* ETH_RX_DESC_CNT, also the number of buffers
  Frames        \* the frames told apart

ASSUME DescriptorsAssumption == Descriptors \in Nat \ {0}

VARIABLES
  armed,     \* the descriptors the MAC owns
  bufferOf,  \* the buffer each descriptor points to
  content,   \* what lies in each buffer
  dmaAt,     \* the descriptor the MAC fills next
  cpuAt,     \* the descriptor HAL_ETH_ReadData looks at next
  rxAllocIdx

ringVars == <<armed, bufferOf, content, dmaAt, cpuAt, rxAllocIdx>>

Slots == 0 .. Descriptors - 1

\* Mutant: one past the end.
PastSlot(i) == i + 1
\* (i + 1) % Descriptors.
NextSlot(i) == IF i + 1 = Descriptors THEN 0 ELSE i + 1

\* HAL_ETH_Start has asked for a buffer for each descriptor.
RingInit ==
  /\ armed = Slots
  /\ bufferOf = [d \in Slots |-> d]
  /\ \E f \in Frames : content = [b \in Slots |-> f]
  /\ dmaAt = 0 /\ cpuAt = 0 /\ rxAllocIdx = 0

Store(f) ==
  /\ dmaAt \in armed
  /\ content' = [content EXCEPT ![bufferOf[dmaAt]] = f]
  /\ armed' = armed \ {dmaAt} /\ dmaAt' = NextSlot(dmaAt)
  /\ UNCHANGED <<bufferOf, cpuAt, rxAllocIdx>>

Readable == cpuAt \notin armed
Oldest == content[bufferOf[cpuAt]]

\* Mutant: the index left where it is.
AllocateSame(d) ==
  /\ bufferOf' = [bufferOf EXCEPT ![d] = rxAllocIdx]
  /\ UNCHANGED rxAllocIdx
\* HAL_ETH_RxAllocateCallback.
Allocate(d) ==
  /\ bufferOf' = [bufferOf EXCEPT ![d] = rxAllocIdx]
  /\ rxAllocIdx' = NextSlot(rxAllocIdx)

\* The frame has been copied out: its descriptor gets a buffer and goes back
\* to the MAC.
Rearm ==
  /\ Readable
  /\ Allocate(cpuAt)
  /\ armed' = armed \cup {cpuAt} /\ cpuAt' = NextSlot(cpuAt)
  /\ UNCHANGED <<content, dmaAt>>

RingNext == Rearm \/ \E f \in Frames : Store(f)
RingSpec == RingInit /\ [][RingNext]_ringVars

-----------------------------------------------------------------------------
\* How far behind cpuAt a descriptor is.
Distance(d) == IF d >= cpuAt THEN d - cpuAt ELSE d - cpuAt + Descriptors

\* The frames received and not yet read, oldest first.
Received == IF armed = {} THEN Descriptors ELSE Distance(dmaAt)
Slot(i) == IF cpuAt + i - 1 < Descriptors THEN cpuAt + i - 1 ELSE cpuAt + i - 1 - Descriptors
Waiting == [i \in 1 .. Received |-> content[bufferOf[Slot(i)]]]

\* The types of the ring, and that the descriptors not yet read are those
\* from cpuAt to before dmaAt.
RingTypeOK ==
  /\ armed \subseteq Slots /\ bufferOf \in [Slots -> Slots]
  /\ content \in [Slots -> Frames]
  /\ dmaAt \in Slots /\ cpuAt \in Slots /\ rxAllocIdx \in Slots
  /\ armed = {} => dmaAt = cpuAt
  /\ \A d \in Slots : d \in armed <=> Distance(d) >= Received

\* Handing buffers out round-robin never gives one to two descriptors.
BuffersNotShared == \A d, e \in Slots : bufferOf[d] = bufferOf[e] => d = e

\* The ring keeps what it received in order and unmixed until it is read.
Ring == INSTANCE FrameQueue WITH Frame <- Frames, Capacity <- Descriptors, q <- Waiting
RingIsQueue == Ring!Spec
=============================================================================
