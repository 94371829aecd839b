----------------------------- MODULE Bootloader -----------------------------
(***************************************************************************)
(* The second-stage bootloader (boards/nucleo_h7s3l8/apps/bootloader): on  *)
(* every reset check_and_install_ota looks for a pending control block,    *)
(* verifies the staged image and its header, erases slot A by sectors,     *)
(* programs it chunk by chunk, reads it back, clears the block, and main   *)
(* then jumps to the application, whatever came of the installation.       *)
(*                                                                         *)
(* Flash operations can fail; a program operation can also report success  *)
(* and leave something else in the chunk.  Reset and power loss may come   *)
(* between any two operations.                                             *)
(*                                                                         *)
(* Spec is the bootloader on its own: while it is "off", the application   *)
(* (ApplicationRuns) leaves anything at all in the staging RAM and in the  *)
(* control block.  OtaUpdate puts the real application in that place.      *)
(***************************************************************************)
EXTENDS Core, OtaMemory

CONSTANTS
  SlotChunks,     \* chunks of slot A
  SectorChunks,   \* chunks of a flash sector: 4096 / 1024
  Junk,           \* what a bad program operation leaves, and RAM at power-on
  Factory         \* the image the node left the factory with

ASSUME SlotAssumption == SlotChunks \in Nat /\ SlotChunks >= StagingChunks
ASSUME SectorAssumption == SectorChunks \in Nat \ {0}
ASSUME JunkAssumption == Junk \in Bytes
ASSUME FactoryAssumption ==
  Factory \in Seq(Bytes) /\ Len(Factory) \in 1 .. SlotChunks

VARIABLES
  sector,    \* sectors erased so far
  offset,    \* chunks programmed so far (offset / 1024)
  slot,      \* contents of slot A
  reason,    \* boot_reason in the BootInfo handed to the application
  bootCount, \* boot_count in the BootInfo
  current,   \* history: the image last known to be in the slot
  torn       \* history: the slot has been written to since

bootVars == <<bpc, sector, offset, slot, reason, bootCount, current, torn>>

BootPoints == {"off", "init", "check", "erase", "program", "verify", "jump", "recovery"}
BootReasons == {"POWER_ON", "OTA_UPDATE", "FAULT"}
SlotRange == 1 .. SlotChunks

\* The chunks of the sector that starts at cur, the next to be erased.
cur == sector * SectorChunks
NextSector == {c \in SlotRange : cur < c /\ c <= cur + SectorChunks}

Target == block.image

FactorySlot == [c \in SlotRange |-> IF c <= Len(Factory) THEN Factory[c] ELSE FF]

BootInit ==
  /\ bpc = "init" /\ sector = 0 /\ offset = 0
  /\ slot = FactorySlot
  /\ reason = "POWER_ON" /\ bootCount = 0
  /\ current = Factory /\ torn = FALSE

\* Mutant of WriteBootInfo: the stage instead of the reason.
WriteBootStage(why) == reason' = bpc /\ bootCount' = 1
\* write_boot_info
WriteBootInfo(why) == reason' = why /\ bootCount' = 1

\* Leaving check_and_install_ota without an installation.
GiveUp(why) ==
  /\ WriteBootInfo(why) /\ bpc' = "jump"
  /\ sector' = 0 /\ offset' = 0
  /\ UNCHANGED <<current, ram>>

\* What a flash operation cut short leaves where it was at work: the sector
\* being erased, the chunk being programmed.
AtWork == {c \in SlotRange : \/ bpc = "erase" /\ c \in NextSector
                             \/ bpc = "program" /\ c = offset + 1}
Damage(where) ==
  /\ slot' = [c \in SlotRange |-> IF c \in where THEN Junk ELSE slot[c]]
  /\ torn' = (torn \/ where # {})

-----------------------------------------------------------------------------
\* MX_EXTMEM_MANAGER_Init: on failure main loops for ever.
InitMemory ==
  /\ bpc = "init"
  /\ \/ bpc' = "check"
     \/ bpc' = "recovery"
  /\ UNCHANGED <<sector, offset, slot, reason, bootCount, current, torn, ram, block>>

NothingPending ==
  /\ bpc = "check"
  /\ ~block.pending \/ Len(Target) = 0
  /\ GiveUp("POWER_ON") /\ UNCHANGED <<slot, torn, block>>

\* Mutants: no header check; the block left pending.
AcceptableAnywhere(img) == Holds(ram, img)
KeepBlock == UNCHANGED block

ClearBlock == block' = NoBlock
Acceptable(img) == Holds(ram, img) /\ Compatible(img)

Reject ==
  /\ bpc = "check" /\ block.pending /\ Len(Target) > 0
  /\ ~Acceptable(Target)
  /\ ClearBlock
  /\ GiveUp("FAULT") /\ UNCHANGED <<slot, torn>>

Accept ==
  /\ bpc = "check" /\ block.pending /\ Len(Target) > 0
  /\ Acceptable(Target)
  /\ bpc' = "erase"
  /\ UNCHANGED <<sector, offset, slot, reason, bootCount, current, torn, ram, block>>

-----------------------------------------------------------------------------
EraseSector ==
  /\ bpc = "erase" /\ cur < Len(Target)
  /\ slot' = [c \in SlotRange |-> IF c \in NextSector THEN FF ELSE slot[c]]
  /\ sector' = sector + 1 /\ torn' = TRUE
  /\ UNCHANGED <<bpc, offset, reason, bootCount, current, ram, block>>

EraseFails ==
  /\ bpc = "erase" /\ cur < Len(Target)
  /\ \E where \in {{}, AtWork} : Damage(where)
  /\ GiveUp("FAULT") /\ UNCHANGED block

\* Mutant of EraseDone: the bound off by one.
EraseDoneLate ==
  /\ bpc = "erase" /\ cur > Len(Target)
  /\ bpc' = "program"
  /\ UNCHANGED <<sector, offset, slot, reason, bootCount, current, torn, ram, block>>

EraseDone ==
  /\ bpc = "erase" /\ cur >= Len(Target)
  /\ bpc' = "program"
  /\ UNCHANGED <<sector, offset, slot, reason, bootCount, current, torn, ram, block>>

\* Programming can only clear bits: over a chunk that is not erased it
\* leaves junk.  So does a write that goes wrong unnoticed.
ProgramChunk ==
  /\ bpc = "program" /\ offset < Len(Target)
  /\ \E data \in {Junk, IF slot[offset + 1] = FF THEN ram[offset + 1] ELSE Junk} :
       slot' = [slot EXCEPT ![offset + 1] = data]
  /\ offset' = offset + 1
  /\ UNCHANGED <<bpc, sector, reason, bootCount, current, torn, ram, block>>

ProgramFails ==
  /\ bpc = "program" /\ offset < Len(Target)
  /\ \E where \in {{}, AtWork} : Damage(where)
  /\ GiveUp("FAULT") /\ UNCHANGED block

ProgramDone ==
  /\ bpc = "program" /\ offset >= Len(Target)
  /\ bpc' = "verify"
  /\ UNCHANGED <<sector, offset, slot, reason, bootCount, current, torn, ram, block>>

-----------------------------------------------------------------------------
\* Mutants: a block that failed its read-back dropped; no read-back.
VerifyFailsForGood ==
  /\ bpc = "verify"
  /\ GiveUp("FAULT") /\ ClearBlock /\ UNCHANGED <<slot, torn>>
ReadsBackUnread == TRUE

\* A failed read and a CRC mismatch are treated alike.
VerifyFails ==
  /\ bpc = "verify"
  /\ GiveUp("FAULT") /\ UNCHANGED <<slot, torn, block>>

ReadsBack == Holds(slot, Target)

Install ==
  /\ bpc = "verify" /\ ReadsBack
  /\ ClearBlock /\ WriteBootInfo("OTA_UPDATE")
  /\ bpc' = "jump" /\ current' = Target /\ torn' = FALSE
  /\ sector' = 0 /\ offset' = 0
  /\ UNCHANGED <<slot, ram>>

Jump ==
  /\ bpc = "jump" /\ bpc' = "off"
  /\ UNCHANGED <<sector, offset, slot, reason, bootCount, current, torn, ram, block>>

BootStep ==
  \/ InitMemory \/ NothingPending \/ Reject \/ Accept
  \/ EraseSector \/ EraseFails \/ EraseDone
  \/ ProgramChunk \/ ProgramFails \/ ProgramDone
  \/ VerifyFails \/ Install \/ Jump

-----------------------------------------------------------------------------
(* Resets, at any point; a flash operation under way is cut short.          *)

\* NVIC_SystemReset or the reset button: RAM keeps its contents.
SoftReset ==
  /\ bpc' = "init"
  /\ \E where \in {{}, AtWork} : Damage(where)
  /\ sector' = 0 /\ offset' = 0
  /\ UNCHANGED <<reason, bootCount, current, ram, block>>

\* Without power RAM is lost: no block survives, and BootInfo neither.
PowerLoss ==
  /\ bpc' = "init"
  /\ \E where \in {{}, AtWork} : Damage(where)
  /\ ram' = [c \in Chunks |-> Junk] /\ block' = NoBlock
  /\ sector' = 0 /\ offset' = 0
  /\ bootCount' = 0
  /\ UNCHANGED <<reason, current>>

\* The blocks an application could leave: what it staged fits the buffer.
StagedBlocks ==
  {NoBlock} \cup {PendingBlock(img) : img \in {i \in Images : Len(i) <= StagingChunks}}

\* The application does anything at all to the memory it shares.
ApplicationRuns ==
  /\ bpc = "off"
  /\ ram' \in [Chunks -> Bytes] /\ block' \in StagedBlocks
  /\ UNCHANGED bootVars

Init ==
  /\ BootInit
  /\ ram = [c \in Chunks |-> Junk] /\ block = NoBlock
Next == BootStep \/ SoftReset \/ PowerLoss \/ ApplicationRuns
vars == <<bootVars, ram, block>>
Spec == Init /\ [][Next]_vars

-----------------------------------------------------------------------------
\* The types of the bootloader's variables and of what it shares.
TypeOK ==
  /\ ram \in [Chunks -> Bytes] /\ block \in Blocks
  /\ block.pending => Len(block.image) <= StagingChunks
  /\ bpc \in BootPoints /\ sector \in Nat /\ offset \in Nat
  /\ slot \in [SlotRange -> Bytes]
  /\ reason \in BootReasons /\ bootCount \in Nat
  /\ current \in Seq(Bytes) /\ Len(current) <= SlotChunks
  /\ torn \in BOOLEAN

\* From the first erase to the last read-back, and whatever the application,
\* resets and failing flash did before: the staging RAM still holds exactly
\* the image of a pending block, and its header fits this board and this
\* bootloader (check_and_install_ota, steps 1 and 1b before step 2).
OnlyVerifiedIsInstalled ==
  bpc \in {"erase", "program", "verify"} =>
    block.pending /\ Holds(ram, block.image) /\ Compatible(block.image)

\* Unless an installation started and did not pass its read-back, slot A
\* holds, chunk for chunk, the last image installed: no path through
\* rejections, failures, resets and power losses leaves it with a mixture.
IntactSlot == ~torn => Holds(slot, current)

\* The application is told OTA_UPDATE only about a slot that passed its
\* read-back in this very boot, and the block is gone: the next reset does
\* not install it again.
UpdateReported ==
  bpc = "jump" /\ reason = "OTA_UPDATE" => ~torn /\ ~block.pending

\* A boot that reports POWER_ON left the slot as it was; one that reports
\* FAULT after touching the slot keeps the block for another try.
TornKeepsBlock ==
  [][ bpc # "jump" /\ bpc' = "jump" /\ (slot' # slot \/ bpc = "verify") /\ reason' # "OTA_UPDATE"
        => reason' = "FAULT" /\ block'.pending ]_vars

\* Seen from outside, an update is atomic: the bootloader implements
\* OtaInstall, in which the slot goes from one whole image through "torn" to
\* the pending one and is written to only while an image is pending.
Promise == INSTANCE OtaInstall WITH
  Installable <- {i \in Images : Len(i) <= StagingChunks},
  Original <- Factory,
  waiting <- IF block.pending THEN {block.image} ELSE {},
  content <- IF torn THEN {} ELSE {current}
UpdateIsAtomic == Promise!Atomically
=============================================================================
