-------------------------- MODULE BootloaderProofs --------------------------
(***************************************************************************)
(* The bootloader's invariants, for every size of slot, sector and image,  *)
(* and that it implements OtaInstall.  The inductive invariant Inv says    *)
(* where in its run the bootloader may have touched the slot: not before   *)
(* the first erase, certainly after the last.                              *)
(***************************************************************************)
EXTENDS Bootloader, TLAPS

USE SlotAssumption, SectorAssumption, JunkAssumption, FactoryAssumption,
    BytesAssumption, ImagesAssumption, StagingAssumption

AtRest == {"off", "init", "check", "jump", "recovery"}
Working == {"erase", "program", "verify"}

Progress ==
  /\ bpc \in AtRest => sector = 0 /\ offset = 0
  /\ bpc \in Working => Len(Target) > 0
  /\ bpc = "erase" /\ sector > 0 => torn
  /\ bpc \in {"program", "verify"} => torn

Inv ==
  /\ TypeOK
  /\ OnlyVerifiedIsInstalled
  /\ IntactSlot
  /\ UpdateReported
  /\ Progress

-----------------------------------------------------------------------------
\* Damage with no place to damage is no damage, and it never spoils the type
\* of the slot.
LEMMA DamageLemma ==
  ASSUME TypeOK, IntactSlot, NEW where \in SUBSET SlotRange, Damage(where), UNCHANGED current
  PROVE  /\ slot' \in [SlotRange -> Bytes] /\ torn' \in BOOLEAN
         /\ IntactSlot'
         /\ torn => torn'
         /\ where = {} => torn' = torn /\ slot' = slot
BY DEF Damage, TypeOK, IntactSlot, Holds, SlotRange

\* Flash is damaged only where an installation is at work.
LEMMA AtWorkLemma == AtWork \subseteq SlotRange /\ (AtWork # {} => bpc \in Working)
BY DEF AtWork, Working

-----------------------------------------------------------------------------
\* An application leaves no block, or one for an image that fits the buffer.
LEMMA StagedBlocksLemma ==
  ASSUME NEW b \in StagedBlocks
  PROVE  b \in Blocks /\ (b.pending => b.image \in Images /\ Len(b.image) <= StagingChunks)
<1>1. CASE b = NoBlock
  BY <1>1 DEF NoBlock, Blocks
<1>2. ASSUME NEW img \in Images, Len(img) <= StagingChunks, b = PendingBlock(img)
      PROVE  b \in Blocks /\ (b.pending => b.image \in Images /\ Len(b.image) <= StagingChunks)
  BY <1>2 DEF PendingBlock, Blocks
<1> QED
  BY <1>1, <1>2 DEF StagedBlocks

LEMMA InitInv == Init => Inv
<1> SUFFICES ASSUME Init PROVE Inv
  OBVIOUS
<1> USE DEF Init, BootInit
<1>1. TypeOK
  <2>1. slot \in [SlotRange -> Bytes]
    BY DEF FactorySlot, SlotRange
  <2>2. block \in Blocks /\ ~block.pending
    BY DEF Blocks, NoBlock
  <2>3. current \in Seq(Bytes) /\ Len(current) <= SlotChunks
    OBVIOUS
  <2>4. ram \in [Chunks -> Bytes]
    OBVIOUS
  <2> HIDE DEF Init, BootInit
  <2> QED
    BY <2>1, <2>2, <2>3, <2>4 DEF TypeOK, BootPoints, BootReasons, Init, BootInit
<1>2. IntactSlot
  BY DEF IntactSlot, Holds, FactorySlot, SlotRange
<1>3. OnlyVerifiedIsInstalled /\ UpdateReported
  BY DEF OnlyVerifiedIsInstalled, UpdateReported
<1>4. Progress
  BY DEF Progress, AtRest, Working
<1> QED
  BY <1>1, <1>2, <1>3, <1>4 DEF Inv

LEMMA NextInv == Inv /\ [Next]_vars => Inv'
<1> SUFFICES ASSUME Inv, [Next]_vars PROVE Inv'
  OBVIOUS
<1> USE DEF Inv, Target
<1>1. CASE InitMemory
  BY <1>1 DEF InitMemory, TypeOK, OnlyVerifiedIsInstalled, IntactSlot, UpdateReported,
     Progress, Holds, BootPoints, AtRest, Working
<1>2. CASE NothingPending
  BY <1>2 DEF NothingPending, GiveUp, WriteBootInfo, TypeOK, OnlyVerifiedIsInstalled,
     IntactSlot, UpdateReported, Progress, Holds, BootPoints, BootReasons, AtRest, Working
<1>3. CASE Reject
  BY <1>3 DEF Reject, ClearBlock, NoBlock, Blocks, GiveUp, WriteBootInfo, TypeOK,
     OnlyVerifiedIsInstalled, IntactSlot, UpdateReported, Progress, Holds, BootPoints,
     BootReasons, AtRest, Working
<1>4. CASE Accept
  BY <1>4 DEF Accept, Acceptable, TypeOK, OnlyVerifiedIsInstalled, IntactSlot,
     UpdateReported, Progress, Holds, BootPoints, AtRest, Working
<1>5. CASE EraseSector
  BY <1>5 DEF EraseSector, TypeOK, OnlyVerifiedIsInstalled, IntactSlot, UpdateReported,
     Progress, Holds, SlotRange, BootPoints, AtRest, Working
<1>6. CASE EraseFails
  <2> PICK where \in {{}, AtWork} : Damage(where)
    BY <1>6 DEF EraseFails
  <2>1. slot' \in [SlotRange -> Bytes] /\ torn' \in BOOLEAN /\ IntactSlot'
    BY <1>6, AtWorkLemma, DamageLemma DEF EraseFails, GiveUp
  <2> QED
    BY <1>6, <2>1 DEF EraseFails, GiveUp, WriteBootInfo, TypeOK, OnlyVerifiedIsInstalled,
       UpdateReported, Progress, BootPoints, BootReasons, AtRest, Working
<1>7. CASE EraseDone
  <2>1. sector > 0
    BY <1>7 DEF EraseDone, cur, TypeOK, Progress, Working
  <2> QED
    BY <1>7, <2>1 DEF EraseDone, TypeOK, OnlyVerifiedIsInstalled, IntactSlot,
       UpdateReported, Progress, Holds, BootPoints, AtRest, Working
<1>8. CASE ProgramChunk
  <2>1. offset + 1 \in SlotRange /\ offset + 1 \in Chunks
    BY <1>8 DEF ProgramChunk, TypeOK, OnlyVerifiedIsInstalled, SlotRange, Chunks
  <2>2. ram[offset + 1] \in Bytes
    BY <2>1 DEF TypeOK
  <2>3. slot' \in [SlotRange -> Bytes]
    BY <1>8, <2>1, <2>2 DEF ProgramChunk, TypeOK
  <2>4. torn
    BY <1>8 DEF ProgramChunk, Progress
  <2> QED
    BY <1>8, <2>3, <2>4 DEF ProgramChunk, TypeOK, OnlyVerifiedIsInstalled, IntactSlot,
       UpdateReported, Progress, Holds, BootPoints, AtRest, Working
<1>9. CASE ProgramFails
  <2> PICK where \in {{}, AtWork} : Damage(where)
    BY <1>9 DEF ProgramFails
  <2>1. slot' \in [SlotRange -> Bytes] /\ torn' \in BOOLEAN /\ IntactSlot'
    BY <1>9, AtWorkLemma, DamageLemma DEF ProgramFails, GiveUp
  <2> QED
    BY <1>9, <2>1 DEF ProgramFails, GiveUp, WriteBootInfo, TypeOK, OnlyVerifiedIsInstalled,
       UpdateReported, Progress, BootPoints, BootReasons, AtRest, Working
<1>10. CASE ProgramDone
  BY <1>10 DEF ProgramDone, TypeOK, OnlyVerifiedIsInstalled, IntactSlot, UpdateReported,
     Progress, Holds, BootPoints, AtRest, Working
<1>11. CASE VerifyFails
  BY <1>11 DEF VerifyFails, GiveUp, WriteBootInfo, TypeOK, OnlyVerifiedIsInstalled,
     IntactSlot, UpdateReported, Progress, Holds, BootPoints, BootReasons, AtRest, Working
<1>12. CASE Install
  <2>1. Len(block.image) <= SlotChunks /\ block.image \in Seq(Bytes)
    BY <1>12 DEF Install, TypeOK, OnlyVerifiedIsInstalled, Blocks
  <2>2. block' = NoBlock /\ NoBlock \in Blocks /\ ~NoBlock.pending
    BY <1>12 DEF Install, ClearBlock, NoBlock, Blocks
  <2>3. TypeOK'
    BY <1>12, <2>1, <2>2 DEF Install, WriteBootInfo, TypeOK, BootPoints, BootReasons
  <2>4. IntactSlot'
    BY <1>12 DEF Install, ReadsBack, IntactSlot, Holds
  <2> QED
    BY <1>12, <2>2, <2>3, <2>4 DEF Install, OnlyVerifiedIsInstalled, UpdateReported,
       Progress, AtRest, Working
<1>13. CASE Jump
  BY <1>13 DEF Jump, TypeOK, OnlyVerifiedIsInstalled, IntactSlot, UpdateReported,
     Progress, Holds, BootPoints, AtRest, Working
<1>14. CASE SoftReset
  <2> PICK where \in {{}, AtWork} : Damage(where)
    BY <1>14 DEF SoftReset
  <2>1. slot' \in [SlotRange -> Bytes] /\ torn' \in BOOLEAN /\ IntactSlot'
    BY <1>14, AtWorkLemma, DamageLemma DEF SoftReset
  <2> QED
    BY <1>14, <2>1 DEF SoftReset, TypeOK, OnlyVerifiedIsInstalled, UpdateReported,
       Progress, BootPoints, AtRest, Working
<1>15. CASE PowerLoss
  <2> PICK where \in {{}, AtWork} : Damage(where)
    BY <1>15 DEF PowerLoss
  <2>1. slot' \in [SlotRange -> Bytes] /\ torn' \in BOOLEAN /\ IntactSlot'
    BY <1>15, AtWorkLemma, DamageLemma DEF PowerLoss
  <2> QED
    BY <1>15, <2>1 DEF PowerLoss, NoBlock, Blocks, TypeOK, OnlyVerifiedIsInstalled,
       UpdateReported, Progress, BootPoints, AtRest, Working
<1>16. CASE ApplicationRuns
  <2>1. block' \in Blocks /\ (block'.pending => Len(block'.image) <= StagingChunks)
    BY <1>16, StagedBlocksLemma DEF ApplicationRuns
  <2>2. TypeOK'
    BY <1>16, <2>1 DEF ApplicationRuns, bootVars, TypeOK
  <2>3. IntactSlot'
    BY <1>16 DEF ApplicationRuns, bootVars, IntactSlot, Holds
  <2> QED
    BY <1>16, <2>2, <2>3 DEF ApplicationRuns, bootVars, OnlyVerifiedIsInstalled,
       UpdateReported, Progress, AtRest, Working
<1>17. CASE UNCHANGED vars
  BY <1>17 DEF vars, bootVars, TypeOK, OnlyVerifiedIsInstalled, IntactSlot,
     UpdateReported, Progress, Holds
<1> QED
  BY <1>1, <1>2, <1>3, <1>4, <1>5, <1>6, <1>7, <1>8, <1>9, <1>10, <1>11, <1>12,
     <1>13, <1>14, <1>15, <1>16, <1>17 DEF Next, BootStep

\* The inductive invariant holds in every reachable state.
THEOREM BootInvariant == Spec => []Inv
BY InitInv, NextInv, PTL DEF Spec

-----------------------------------------------------------------------------
\* The bootloader's variables keep their types, and nothing larger than the
\* staging buffer is ever pending or installed.
THEOREM BootTypes == Spec => []TypeOK
BY BootInvariant, PTL DEF Inv

\* check_and_install_ota erases and programs only what it verified.
THEOREM VerifiedBeforeErase == Spec => []OnlyVerifiedIsInstalled
BY BootInvariant, PTL DEF Inv

\* Slot A is never a mixture, other than after an installation that started
\* and has not passed its read-back.
THEOREM SlotStaysIntact == Spec => []IntactSlot
BY BootInvariant, PTL DEF Inv

\* OTA_UPDATE is reported only of a slot that passed its read-back, with the
\* block gone.
THEOREM ReportIsTrue == Spec => []UpdateReported
BY BootInvariant, PTL DEF Inv

-----------------------------------------------------------------------------
\* A boot that changes or fails to verify the slot without installing says
\* FAULT and keeps the block.
THEOREM FailedInstallKeepsBlock == Spec => TornKeepsBlock
<1>1. ASSUME Inv, [Next]_vars, bpc # "jump", bpc' = "jump", slot' # slot \/ bpc = "verify",
             reason' # "OTA_UPDATE"
      PROVE  reason' = "FAULT" /\ block'.pending
  <2> USE <1>1 DEF Inv, OnlyVerifiedIsInstalled, GiveUp, WriteBootInfo
  <2>1. ~UNCHANGED vars
    BY DEF vars, bootVars
  <2>2. CASE EraseFails \/ ProgramFails \/ VerifyFails
    BY <2>2 DEF EraseFails, ProgramFails, VerifyFails
  <2>3. CASE NothingPending \/ Reject \/ Install
    BY <2>3 DEF NothingPending, Reject, Install
  <2>4. CASE InitMemory \/ Accept \/ EraseSector \/ EraseDone \/ ProgramChunk
              \/ ProgramDone \/ Jump \/ SoftReset \/ PowerLoss \/ ApplicationRuns
    BY <2>4 DEF InitMemory, Accept, EraseSector, EraseDone, ProgramChunk, ProgramDone,
       Jump, SoftReset, PowerLoss, ApplicationRuns, bootVars
  <2> QED
    BY <2>1, <2>2, <2>3, <2>4 DEF Next, BootStep
<1> QED
  BY <1>1, BootInvariant, PTL DEF Spec, TornKeepsBlock

-----------------------------------------------------------------------------
\* Every step is one of OtaInstall, or changes nothing that it speaks of.
LEMMA StepRefinement ==
  ASSUME Inv, Inv', [Next]_vars
  PROVE  [Promise!InstallNext]_(Promise!installVars)
<1> USE DEF Inv, Target, Promise!InstallNext, Promise!installVars
<1>1. CASE UNCHANGED <<block, torn, current>>
  BY <1>1
<1>2. CASE Reject
  BY <1>2 DEF Reject, ClearBlock, NoBlock, GiveUp, Promise!Discard
<1>3. CASE EraseSector
  BY <1>3 DEF EraseSector, OnlyVerifiedIsInstalled, Promise!Tear
<1>4. CASE EraseFails \/ ProgramFails \/ SoftReset
  <2> PICK where \in {{}, AtWork} : Damage(where)
    BY <1>4 DEF EraseFails, ProgramFails, SoftReset
  <2>1. UNCHANGED <<block, current>>
    BY <1>4 DEF EraseFails, ProgramFails, SoftReset, GiveUp
  <2>2. CASE where = {}
    BY <1>1, <2>1, <2>2 DEF Damage, TypeOK
  <2>3. CASE where # {}
    <3>1. block.pending /\ torn'
      BY <2>3, AtWorkLemma DEF Damage, OnlyVerifiedIsInstalled, Working
    <3> QED
      BY <2>1, <3>1 DEF Promise!Tear
  <2> QED
    BY <2>2, <2>3
<1>5. CASE ProgramChunk
  BY <1>1, <1>5 DEF ProgramChunk
<1>6. CASE Install
  BY <1>6 DEF Install, ClearBlock, NoBlock, OnlyVerifiedIsInstalled, Progress,
     Promise!Complete
<1>7. CASE PowerLoss
  <2> PICK where \in {{}, AtWork} : Damage(where)
    BY <1>7 DEF PowerLoss
  <2>1. ~block'.pending /\ UNCHANGED current
    BY <1>7 DEF PowerLoss, NoBlock
  <2>2. CASE where = {}
    BY <2>1, <2>2 DEF Damage, TypeOK, Promise!Discard
  <2>3. CASE where # {}
    <3>1. block.pending /\ torn'
      BY <2>3, AtWorkLemma DEF Damage, OnlyVerifiedIsInstalled, Working
    <3> QED
      BY <2>1, <3>1 DEF Promise!Tear
  <2> QED
    BY <2>2, <2>3
<1>8. CASE ApplicationRuns
  <2>1. UNCHANGED <<torn, current>>
    BY <1>8 DEF ApplicationRuns, bootVars
  <2>2. CASE ~block'.pending
    BY <2>1, <2>2 DEF Promise!Discard
  <2>3. CASE block'.pending
    <3>1. block'.image \in {i \in Images : Len(i) <= StagingChunks}
      BY <1>8, <2>3, StagedBlocksLemma DEF ApplicationRuns
    <3> QED
      BY <2>1, <2>3, <3>1 DEF Promise!Stage
  <2> QED
    BY <2>2, <2>3
<1>9. CASE InitMemory \/ NothingPending \/ Accept \/ EraseDone \/ ProgramDone
            \/ VerifyFails \/ Jump \/ UNCHANGED vars
  BY <1>1, <1>9 DEF InitMemory, NothingPending, Accept, EraseDone, ProgramDone,
     VerifyFails, GiveUp, Jump, vars, bootVars
<1> QED
  BY <1>2, <1>3, <1>4, <1>5, <1>6, <1>7, <1>8, <1>9 DEF Next, BootStep

\* Seen from outside an update is atomic: the bootloader implements
\* OtaInstall, whatever the application stages, the flash does and however
\* often it is reset.
THEOREM AtomicUpdate == Spec => UpdateIsAtomic
<1>1. Init => Promise!Start
  BY DEF Init, BootInit, NoBlock, Promise!Start
<1>2. Inv /\ Inv' /\ [Next]_vars => [Promise!InstallNext]_(Promise!installVars)
  BY StepRefinement
<1> QED
  BY <1>1, <1>2, BootInvariant, PTL DEF Spec, UpdateIsAtomic, Promise!Atomically

-----------------------------------------------------------------------------
(* How long a boot can take.                                                *)

\* An upper bound on the steps a boot has still to take: a step for each chunk
\* to be programmed and each sector to be erased, and a few between.
StepsLeft ==
  CASE bpc = "init"    -> 2 * StagingChunks + 6
    [] bpc = "check"   -> 2 * StagingChunks + 5
    [] bpc = "erase"   -> 2 * Len(Target) + 4 - sector
    [] bpc = "program" -> Len(Target) + 3 - offset
    [] bpc = "verify"  -> 2
    [] bpc = "jump"    -> 1
    [] OTHER           -> 0

\* Neither loop of check_and_install_ota runs beyond the image.
InsideImage ==
  /\ bpc = "erase" => sector <= Len(Target) /\ offset = 0
  /\ bpc = "program" => offset <= Len(Target)

\* cur lies at or behind the sector of its number.
LEMMA SectorBeforeCur == TypeOK /\ cur < Len(Target) => sector < Len(Target)
<1> SUFFICES ASSUME TypeOK, sector * SectorChunks < Len(Target) PROVE sector < Len(Target)
  BY DEF cur
<1>1. sector \in Nat /\ SectorChunks \in Nat /\ SectorChunks >= 1 /\ Len(Target) \in Nat
  BY DEF TypeOK, Blocks, Target
<1>2. sector * SectorChunks >= sector
  BY <1>1, SMT
<1>3. sector * SectorChunks \in Nat
  BY <1>1, SMT
<1> QED
  BY <1>1, <1>2, <1>3

LEMMA InsideImageStep == Inv /\ InsideImage /\ [Next]_vars => InsideImage'
<1> SUFFICES ASSUME Inv, InsideImage, [Next]_vars PROVE InsideImage'
  OBVIOUS
<1> USE DEF InsideImage, Target
<1>1. Len(Target) \in Nat /\ sector \in Nat /\ offset \in Nat
  BY DEF Inv, TypeOK, Blocks
<1>2. CASE Accept
  BY <1>1, <1>2 DEF Accept, Inv, Progress, AtRest
<1>3. CASE EraseSector
  BY <1>1, <1>3, SectorBeforeCur DEF EraseSector, Inv
<1>4. CASE EraseDone
  BY <1>1, <1>4 DEF EraseDone
<1>5. CASE ProgramChunk
  BY <1>1, <1>5 DEF ProgramChunk
<1>6. CASE InitMemory \/ NothingPending \/ Reject \/ EraseFails \/ ProgramFails \/ ProgramDone
            \/ VerifyFails \/ Install \/ Jump
  BY <1>6 DEF InitMemory, NothingPending, Reject, EraseFails, ProgramFails, ProgramDone,
     VerifyFails, Install, Jump, GiveUp
<1>7. CASE SoftReset \/ PowerLoss \/ ApplicationRuns \/ UNCHANGED vars
  BY <1>7 DEF SoftReset, PowerLoss, ApplicationRuns, vars, bootVars
<1> QED
  BY <1>2, <1>3, <1>4, <1>5, <1>6, <1>7 DEF Next, BootStep

\* The bound is a number, no larger than at the reset.
LEMMA StepsLeftBounds == Inv /\ InsideImage => StepsLeft \in 0 .. 2 * StagingChunks + 6
<1> SUFFICES ASSUME Inv, InsideImage PROVE StepsLeft \in 0 .. 2 * StagingChunks + 6
  OBVIOUS
<1>1. StagingChunks \in Nat /\ Len(Target) \in Nat /\ sector \in Nat /\ offset \in Nat
  BY DEF Inv, TypeOK, Blocks, Target
<1>2. bpc \in {"erase", "program"} => Len(Target) <= StagingChunks
  BY DEF Inv, TypeOK, OnlyVerifiedIsInstalled, Target
<1>3. CASE bpc = "init"
  BY <1>1, <1>3 DEF StepsLeft
<1>4. CASE bpc = "check"
  BY <1>1, <1>4 DEF StepsLeft
<1>5. CASE bpc = "erase"
  <2>1. StepsLeft = 2 * Len(Target) + 4 - sector
    BY <1>5 DEF StepsLeft
  <2> QED
    BY <1>1, <1>2, <1>5, <2>1 DEF InsideImage
<1>6. CASE bpc = "program"
  <2>1. StepsLeft = Len(Target) + 3 - offset
    BY <1>6 DEF StepsLeft
  <2> QED
    BY <1>1, <1>2, <1>6, <2>1 DEF InsideImage
<1>7. CASE bpc \notin {"init", "check", "erase", "program"}
  <2>1. StepsLeft \in {0, 1, 2}
    BY <1>7 DEF StepsLeft
  <2> QED
    BY <1>1, <2>1
<1> QED
  BY <1>3, <1>4, <1>5, <1>6, <1>7

\* Each step of the bootloader leaves fewer.
LEMMA BootStepTakesOne ==
  ASSUME Inv, InsideImage, Inv', InsideImage', BootStep
  PROVE  StepsLeft' < StepsLeft
<1>1. StagingChunks \in Nat /\ Len(Target) \in Nat /\ sector \in Nat /\ offset \in Nat
  BY DEF Inv, TypeOK, Blocks, Target
<1>2. bpc \in {"erase", "program"} => sector <= Len(Target) \/ bpc = "program"
  BY DEF InsideImage
<1> USE DEF StepsLeft, Target
<1>3. CASE InitMemory
  BY <1>1, <1>3 DEF InitMemory
<1>4. CASE NothingPending \/ Reject
  BY <1>1, <1>4 DEF NothingPending, Reject, GiveUp
<1>5. CASE Accept
  <2>1. Len(Target) <= StagingChunks /\ sector = 0
    BY <1>5 DEF Accept, Inv, TypeOK, Progress, AtRest
  <2> QED
    BY <1>1, <1>5, <2>1 DEF Accept
<1>6. CASE EraseSector
  BY <1>1, <1>6 DEF EraseSector
<1>7. CASE EraseDone
  BY <1>1, <1>7 DEF EraseDone, InsideImage
<1>8. CASE ProgramChunk
  BY <1>1, <1>8 DEF ProgramChunk
<1>9. CASE ProgramDone
  BY <1>1, <1>9 DEF ProgramDone, InsideImage
<1>10. CASE EraseFails \/ ProgramFails
  BY <1>1, <1>10 DEF EraseFails, ProgramFails, GiveUp, InsideImage
<1>11. CASE VerifyFails \/ Install
  BY <1>11 DEF VerifyFails, Install, GiveUp
<1>12. CASE Jump
  BY <1>12 DEF Jump
<1> QED
  BY <1>3, <1>4, <1>5, <1>6, <1>7, <1>8, <1>9, <1>10, <1>11, <1>12 DEF BootStep

\* Between two resets a boot takes a bounded number of steps, whatever the
\* flash does and however large the image (check_and_install_ota's loops, main):
\* StepsLeft is never more than at the reset, and every step leaves fewer.
THEOREM BootIsBounded ==
  Spec => /\ [](StepsLeft \in 0 .. 2 * StagingChunks + 6)
          /\ [][BootStep => StepsLeft' < StepsLeft]_vars
<1>1. Init => InsideImage
  BY DEF Init, BootInit, InsideImage
<1>2. Inv /\ InsideImage /\ [Next]_vars => InsideImage'
  BY InsideImageStep
<1>3. Inv /\ InsideImage => StepsLeft \in 0 .. 2 * StagingChunks + 6
  BY StepsLeftBounds
<1>4. Inv /\ InsideImage /\ Inv' /\ InsideImage' /\ [Next]_vars
        => [BootStep => StepsLeft' < StepsLeft]_vars
  BY BootStepTakesOne
<1> QED
  BY <1>1, <1>2, <1>3, <1>4, BootInvariant, PTL DEF Spec
=============================================================================
