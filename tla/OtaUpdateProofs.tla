--------------------------- MODULE OtaUpdateProofs ---------------------------
(***************************************************************************)
(* The composed system, for every set of images and sizes.  Its inductive  *)
(* invariant UpdateInv adds to the properties what they rest on: that the  *)
(* service is at its start values whenever the application is not running, *)
(* and that from a successful CMD_OTA_END until the reset no task writes   *)
(* to the staging buffer.                                                  *)
(***************************************************************************)
EXTENDS OtaUpdate, BootloaderProofs

USE AbortAssumption, SlotAssumption, JunkAssumption, FactoryAssumption,
    BytesAssumption, ImagesAssumption, StagingAssumption

StartsAfresh == ~Running => state = "IDLE" /\ ~rebootPending /\ cmd = "recv"

Announced ==
  state \in {"RECEIVING", "READY"} => expected \in Images /\ Fits(expected)

\* A reset has been decided, or will be when the acknowledgement is out.
Committed == cmd = "endDelay" \/ (cmd = "ack" /\ rebootPending)

Armed ==
  Running /\ Committed =>
    block.pending /\ Holds(ram, block.image) /\ Holds(staging, block.image)

Settled ==
  /\ ServiceTypeOK /\ alive \in BOOLEAN
  /\ ram \in [Chunks -> Bytes] /\ block \in StagedBlocks
  /\ StartsAfresh
  /\ Announced

UpdateInv ==
  /\ Settled
  /\ ReadySurvivesReset
  /\ Armed
  /\ RebootFlagIsScoped

-----------------------------------------------------------------------------
\* What handleEnd's cache clean leaves in RAM.
LEMMA CleanedLemma ==
  ASSUME staging \in [Chunks -> Bytes], ram \in [Chunks -> Bytes],
         expected \in Seq(Bytes), Len(expected) <= StagingChunks
  PROVE  /\ Cleaned \in [Chunks -> Bytes]
         /\ Verified => Holds(Cleaned, expected)
<1>1. Cleaned \in [Chunks -> Bytes]
  BY DEF Cleaned
<1>2. \A c \in 1 .. Len(expected) : c \in Chunks /\ Cleaned[c] = staging[c]
  BY DEF Cleaned, Chunks
<1> QED
  BY <1>1, <1>2 DEF Verified, Holds

\* A write-back cannot spoil an image that cache and RAM both hold.
LEMMA WriteBackLemma ==
  ASSUME ram \in [Chunks -> Bytes], staging \in [Chunks -> Bytes],
         NEW c \in Chunks, WriteBack(c)
  PROVE  /\ ram' \in [Chunks -> Bytes]
         /\ \A img \in Seq(Bytes) :
              Len(img) <= StagingChunks /\ Holds(ram, img) /\ Holds(staging, img)
                => Holds(ram', img)
BY DEF WriteBack, Holds, Chunks

LEMMA PendingLemma ==
  ASSUME NEW img \in Images, Fits(img)
  PROVE  /\ PendingBlock(img) \in StagedBlocks
         /\ PendingBlock(img).pending /\ PendingBlock(img).image = img
<1>1. Len(img) <= StagingChunks
  BY DEF Fits, Chunks
<1> QED
  BY <1>1 DEF StagedBlocks, PendingBlock

-----------------------------------------------------------------------------
\* What startup leaves in the service's memory.
LEMMA FreshLemma ==
  /\ <<>> \in Seq(Bytes) /\ Len(<<>>) <= StagingChunks
  /\ [c \in Chunks |-> Zero] \in [Chunks -> Bytes]
  /\ 0 \in 0 .. StagingChunks
OBVIOUS

LEMMA UpdateInitInv == UpdateInit => UpdateInv
<1> SUFFICES ASSUME UpdateInit PROVE UpdateInv
  OBVIOUS
<1>1. ServiceTypeOK
  BY FreshLemma DEF UpdateInit, ServiceInit, ServiceTypeOK, States, StatusCodes
<1>2. ram \in [Chunks -> Bytes] /\ block \in StagedBlocks
  BY DEF UpdateInit, StagedBlocks
<1>3. ~Running /\ state = "IDLE" /\ ~rebootPending /\ cmd = "recv" /\ alive \in BOOLEAN
  BY DEF UpdateInit, ServiceInit, BootInit, Running
<1> QED
  BY <1>1, <1>2, <1>3 DEF UpdateInv, Settled, StartsAfresh, Announced,
     ReadySurvivesReset, Armed, RebootFlagIsScoped

\* A reset brings the service back to its start values.
LEMMA ResetInv ==
  ASSUME UpdateInv, ServiceStart, bpc' # "off", UNCHANGED alive,
         ram' \in [Chunks -> Bytes], block' \in StagedBlocks
  PROVE  UpdateInv'
<1>1. ServiceTypeOK'
  BY FreshLemma DEF ServiceStart, ServiceTypeOK, States, StatusCodes
<1>2. ~Running' /\ state' = "IDLE" /\ ~rebootPending' /\ cmd' = "recv"
  BY DEF ServiceStart, Running
<1> QED
  BY <1>1, <1>2 DEF UpdateInv, Settled, StartsAfresh, Announced,
     ReadySurvivesReset, Armed, RebootFlagIsScoped

LEMMA ServiceInv ==
  ASSUME UpdateInv, ServiceRuns
  PROVE  UpdateInv'
<1> USE DEF UpdateInv, Settled, StartsAfresh, Announced, ReadySurvivesReset, Armed,
    Committed, RebootFlagIsScoped, Running
<1>1. Running /\ UNCHANGED <<alive, bpc>> /\ ServiceNext
  BY DEF ServiceRuns, bootVars
<1>2. ASSUME NEW img \in Images, RefuseBegin(img) PROVE UpdateInv'
  BY <1>1, <1>2 DEF RefuseBegin, sessionVars, ServiceTypeOK, StatusCodes, Holds
<1>3. ASSUME NEW img \in Images, NEW auto \in BOOLEAN, AcceptBegin(img, auto)
      PROVE  UpdateInv'
  <2>1. staging' \in [Chunks -> Bytes]
    BY <1>3 DEF AcceptBegin, ServiceTypeOK
  <2>2. expected' \in Seq(Bytes) /\ Len(expected') <= StagingChunks
    BY <1>3 DEF AcceptBegin, Fits, Chunks
  <2>3. bytesWritten' \in 0 .. StagingChunks /\ UNCHANGED <<otaEnabled, cmd, aborting>>
    BY <1>3, FreshLemma DEF AcceptBegin
  <2>4. state' = "RECEIVING" /\ lastError' = "OK" /\ autoReboot' = auto /\ ~rebootPending'
        /\ rebootPending' \in BOOLEAN
    BY <1>3 DEF AcceptBegin
  <2>5. ServiceTypeOK'
    BY <2>1, <2>2, <2>3, <2>4 DEF ServiceTypeOK, StatusCodes, States
  <2> QED
    BY <1>1, <1>3, <2>5 DEF AcceptBegin, Fits
<1>4. ASSUME NEW c \in 1 .. StagingChunks + 1, NEW crcMatches \in BOOLEAN,
             RefuseData(c, crcMatches)
      PROVE  UpdateInv'
  BY <1>1, <1>4 DEF RefuseData, sessionVars, ServiceTypeOK, StatusCodes
<1>5. ASSUME NEW c \in Chunks, NEW data \in Bytes, StoreData(c, data) PROVE UpdateInv'
  <2>1. staging' \in [Chunks -> Bytes] /\ bytesWritten' \in 0 .. StagingChunks
    BY <1>5 DEF StoreData, ServiceTypeOK, Chunks
  <2>2. lastError' \in StatusCodes
    <3>1. HeaderKind(staging', c) \in HeaderKinds
      BY <2>1, KindAssumption, StagingAssumption, <1>5
         DEF HeaderKind, HeaderKinds, HeaderChunk, Chunks
    <3> QED
      BY <1>5, <3>1 DEF StoreData, HeaderKinds, HeaderStatus, StatusCodes, ServiceTypeOK
  <2> QED
    BY <1>1, <1>5, <2>1, <2>2 DEF StoreData, ServiceTypeOK
<1>6. CASE EndBusy
  BY <1>1, <1>6 DEF EndBusy, sessionVars, ServiceTypeOK
<1>7. CASE EndMismatch
  <2>1. ram' \in [Chunks -> Bytes]
    BY <1>7, CleanedLemma DEF EndMismatch, ServiceTypeOK
  <2>2. ServiceTypeOK'
    BY <1>7 DEF EndMismatch, sessionVars, ServiceTypeOK, States, StatusCodes
  <2> QED
    BY <1>1, <1>7, <2>1, <2>2 DEF EndMismatch, sessionVars
<1>8. ASSUME NEW auto \in BOOLEAN, EndVerified(auto) PROVE UpdateInv'
  <2>1. ram' \in [Chunks -> Bytes] /\ Holds(ram', expected) /\ Holds(staging, expected)
    BY <1>8, CleanedLemma DEF EndVerified, ServiceTypeOK, Verified
  <2>2. block' \in StagedBlocks /\ block'.pending /\ block'.image = expected
    BY <1>8, PendingLemma DEF EndVerified
  <2> QED
    BY <1>1, <1>8, <2>1, <2>2 DEF EndVerified, sessionVars, ServiceTypeOK, States
<1>9. CASE EndAcknowledged
  BY <1>1, <1>9 DEF EndAcknowledged, ResetFollows, sessionVars, ServiceTypeOK
<1>10. CASE RebootCommand
  BY <1>1, <1>10 DEF RebootCommand, sessionVars, ServiceTypeOK
<1>11. CASE AbortCommand
  BY <1>1, <1>11, FreshLemma DEF AbortCommand, sessionVars, ServiceTypeOK, States, StatusCodes
<1>12. CASE ConsoleAbort
  BY <1>1, <1>12 DEF ConsoleAbort, sessionVars, ServiceTypeOK
<1>13. ASSUME NEW store \in AbortStores, ConsoleAbortStore(store) PROVE UpdateInv'
  BY <1>1, <1>13 DEF ConsoleAbortStore, sessionVars, ServiceTypeOK, States, StatusCodes
<1>14. ASSUME NEW enable \in BOOLEAN, SetOtaFeature(enable) PROVE UpdateInv'
  BY <1>1, <1>14 DEF SetOtaFeature, ServiceTypeOK
<1>15. ASSUME NEW c \in Chunks, WriteBack(c) PROVE UpdateInv'
  <2>1. block.pending => block.image \in Seq(Bytes) /\ Len(block.image) <= StagingChunks
    BY StagedBlocksLemma
  <2> QED
    BY <1>1, <1>15, <2>1, WriteBackLemma DEF WriteBack, serviceVars, ServiceTypeOK
<1> QED
  BY <1>1, <1>2, <1>3, <1>4, <1>5, <1>6, <1>7, <1>8, <1>9, <1>10, <1>11, <1>12, <1>13,
     <1>14, <1>15 DEF ServiceNext

LEMMA UpdateNextInv == UpdateInv /\ [UpdateNext]_allVars => UpdateInv'
<1> SUFFICES ASSUME UpdateInv, [UpdateNext]_allVars PROVE UpdateInv'
  OBVIOUS
<1>1. CASE ServiceRuns
  BY <1>1, ServiceInv
<1>2. CASE RebootNow
  BY <1>2, ResetInv DEF RebootNow, SoftReset, UpdateInv, Settled
<1>3. CASE BootRuns
  <2>1. bpc # "off" /\ bpc' # "off" /\ ram' = ram /\ block' \in {block, NoBlock}
    BY <1>3 DEF BootRuns, BootStep, InitMemory, NothingPending, Reject, Accept,
       EraseSector, EraseFails, EraseDone, ProgramChunk, ProgramFails, ProgramDone,
       VerifyFails, Install, Jump, GiveUp, ClearBlock
  <2> QED
    BY <1>3, <2>1 DEF BootRuns, UpdateInv, Settled, serviceVars, StagedBlocks,
       ServiceTypeOK, StartsAfresh, Announced, ReadySurvivesReset, Armed, Committed,
       RebootFlagIsScoped, Running
<1>4. CASE StartApplication
  BY <1>4 DEF StartApplication, Jump, UpdateInv, Settled, serviceVars,
     ServiceTypeOK, StartsAfresh, Announced, ReadySurvivesReset, Armed, Committed,
     RebootFlagIsScoped, Running
<1>5. CASE TornStartup
  <2> PICK c \in Chunks : WriteBack(c)
    BY <1>5 DEF TornStartup
  <2> QED
    BY <1>5, WriteBackLemma DEF TornStartup, WriteBack, bootVars, UpdateInv, Settled,
       serviceVars, ServiceTypeOK, StartsAfresh, Announced, ReadySurvivesReset, Armed,
       Committed, RebootFlagIsScoped, Running
<1>6. CASE Interrupt
  <2>1. bpc' # "off" /\ ram' \in [Chunks -> Bytes] /\ block' \in StagedBlocks
    BY <1>6 DEF Interrupt, SoftReset, PowerLoss, UpdateInv, Settled, StagedBlocks
  <2> QED
    BY <1>6, <2>1, ResetInv DEF Interrupt
<1>7. CASE UNCHANGED allVars
  BY <1>7 DEF allVars, bootVars, serviceVars, UpdateInv, Settled, ServiceTypeOK,
     StartsAfresh, Announced, ReadySurvivesReset, Armed, Committed, RebootFlagIsScoped,
     Running, Holds
<1> QED
  BY <1>1, <1>2, <1>3, <1>4, <1>5, <1>6, <1>7 DEF UpdateNext

\* The inductive invariant holds in every reachable state.
THEOREM UpdateInvariant == UpdateSpec => []UpdateInv
BY UpdateInitInv, UpdateNextInv, PTL DEF UpdateSpec

\* A reset at any moment finds all that a READY service promised.
THEOREM ReadyIsDurable == UpdateSpec => []ReadySurvivesReset
BY UpdateInvariant, PTL DEF UpdateInv

\* Nothing takes the image away between the decision to reset and the reset.
THEOREM AutoRebootFindsImage == UpdateSpec => []AutoRebootIsArmed
<1>1. UpdateInv => AutoRebootIsArmed
  BY DEF UpdateInv, Armed, Committed, AutoRebootIsArmed
<1> QED
  BY <1>1, UpdateInvariant, PTL

\* The reboot flag does not outlive the command that set it.
THEOREM FlagIsScoped == UpdateSpec => []RebootFlagIsScoped
BY UpdateInvariant, PTL DEF UpdateInv

-----------------------------------------------------------------------------
\* A step of the running application leaves the bootloader's own variables
\* alone, and a valid block in the shared memory.
LEMMA ServiceIsApplication ==
  ASSUME UpdateInv, UpdateInv', ServiceRuns \/ TornStartup
  PROVE  ApplicationRuns
<1>1. ram' \in [Chunks -> Bytes] /\ block' \in StagedBlocks
  BY DEF UpdateInv, Settled
<1> QED
  BY <1>1 DEF ServiceRuns, TornStartup, Running, ApplicationRuns

LEMMA UpdateStep == UpdateInv /\ UpdateInv' /\ [UpdateNext]_allVars => [Next]_vars
BY ServiceIsApplication DEF UpdateNext, RebootNow, BootRuns, StartApplication, Interrupt,
   Next, BootStep, allVars, vars

\* The composed system implements Bootloader!Spec: the OtaService, its hosts
\* and the console are one of the applications that specification allows.
THEOREM UpdateRefinesBootloader == UpdateSpec => RefinesBootloader
<1>1. UpdateInit => Init
  BY DEF UpdateInit, Init
<1> QED
  BY <1>1, UpdateStep, UpdateInvariant, PTL DEF UpdateSpec, RefinesBootloader, Spec

\* So every theorem about the bootloader is one about the whole system; the
\* two that matter most, and the whole inductive invariant:
THEOREM UpdateIsSafe ==
  UpdateSpec => []OnlyVerifiedIsInstalled /\ []IntactSlot /\ UpdateIsAtomic
BY UpdateRefinesBootloader, VerifiedBeforeErase, SlotStaysIntact, AtomicUpdate, PTL
   DEF RefinesBootloader

-----------------------------------------------------------------------------
AckedInv == OnlyAckedIsInstalled /\ acked \subseteq Seq(Bytes)

LEMMA AckedInit == UpdateInit => AckedInv
BY DEF UpdateInit, BootInit, NoBlock, AckedInv, OnlyAckedIsInstalled

LEMMA AckedStep ==
  ASSUME AckedInv, Inv, Inv', UpdateInv, [UpdateNext]_allVars
  PROVE  AckedInv'
<1> USE DEF AckedInv, OnlyAckedIsInstalled, Inv, OnlyVerifiedIsInstalled, Target
<1> SUFFICES /\ block'.pending => block'.image \in acked'
             /\ current' \in acked' \cup {Factory}
             /\ acked' \subseteq Seq(Bytes)
  OBVIOUS
<1>1. CASE ServiceRuns
  <2>1. UNCHANGED current /\ acked \subseteq acked' /\ acked' \subseteq Seq(Bytes)
    BY <1>1 DEF ServiceRuns, bootVars, UpdateInv, Settled, ServiceTypeOK
  <2>2. CASE UNCHANGED block
    BY <2>1, <2>2
  <2>3. ASSUME NEW auto \in BOOLEAN, EndVerified(auto)
        PROVE  block'.pending => block'.image \in acked'
    BY <1>1, <2>3 DEF EndVerified, PendingBlock, ServiceRuns
  <2>4. UNCHANGED block \/ \E auto \in BOOLEAN : EndVerified(auto)
    BY <1>1 DEF ServiceRuns, ServiceNext, RefuseBegin, AcceptBegin, RefuseData, StoreData,
       EndBusy, EndMismatch, EndAcknowledged, RebootCommand, AbortCommand, ConsoleAbort,
       ConsoleAbortStore, SetOtaFeature, WriteBack
  <2> QED
    BY <2>1, <2>2, <2>3, <2>4
<1>2. CASE RebootNow \/ Interrupt \/ StartApplication \/ TornStartup
  <2>1. UNCHANGED <<current, acked>>
    BY <1>2 DEF RebootNow, Interrupt, SoftReset, PowerLoss, StartApplication, Jump,
       TornStartup, bootVars
  <2>2. block' \in {block, NoBlock}
    BY <1>2 DEF RebootNow, Interrupt, SoftReset, PowerLoss, StartApplication, Jump,
       TornStartup, WriteBack
  <2> QED
    BY <2>1, <2>2 DEF NoBlock
<1>3. CASE BootRuns
  <2>1. UNCHANGED acked
    BY <1>3 DEF BootRuns
  <2>2. CASE Install
    BY <2>1, <2>2 DEF Install, ClearBlock, NoBlock
  <2>3. CASE ~Install
    BY <1>3, <2>1, <2>3 DEF BootRuns, BootStep, InitMemory, NothingPending, Reject,
       Accept, EraseSector, EraseFails, EraseDone, ProgramChunk, ProgramFails,
       ProgramDone, VerifyFails, Jump, GiveUp, ClearBlock, NoBlock
  <2> QED
    BY <2>2, <2>3
<1>4. CASE UNCHANGED allVars
  BY <1>4 DEF allVars, bootVars
<1> QED
  BY <1>1, <1>2, <1>3, <1>4 DEF UpdateNext

\* Only images that a host completed are ever pending or installed.
THEOREM InstalledWasAcked == UpdateSpec => []OnlyAckedIsInstalled
<1>1. UpdateSpec => []Inv
  BY UpdateRefinesBootloader, BootInvariant, PTL DEF RefinesBootloader
<1> QED
  BY <1>1, AckedInit, AckedStep, UpdateInvariant, PTL DEF UpdateSpec, AckedInv

\* The types of all the system's variables.
THEOREM UpdateTypes == UpdateSpec => []UpdateTypeOK
<1>1. UpdateSpec => []Inv
  BY UpdateRefinesBootloader, BootInvariant, PTL DEF RefinesBootloader
<1>2. UpdateSpec => []AckedInv
  BY <1>1, AckedInit, AckedStep, UpdateInvariant, PTL DEF UpdateSpec
<1>3. Inv /\ AckedInv /\ UpdateInv => UpdateTypeOK
  BY DEF Inv, AckedInv, UpdateInv, Settled, UpdateTypeOK
<1> QED
  BY <1>1, <1>2, <1>3, UpdateInvariant, PTL
=============================================================================
