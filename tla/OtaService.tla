----------------------------- MODULE OtaService -----------------------------
(***************************************************************************)
(* OtaService (components/net/services/OtaService.cpp) with the two tasks  *)
(* that call it: CommandService, priority 5, runs the CMD_OTA_* handlers,  *)
(* and the serial console, priority 2, runs "ota abort".  There is no      *)
(* lock.  A handler does not block, so the console never sees one half     *)
(* done; but the command task preempts the console anywhere, so the four   *)
(* plain stores of the console's handleAbort may be separated by whole     *)
(* handlers, in whatever order and grouping the compiler emits them.       *)
(*                                                                         *)
(* staging is what the CPU reads through its write-back D-cache, ram what  *)
(* the SRAM really holds: any line may be written back at any time, and    *)
(* those not yet written back are lost in a reset.                         *)
(***************************************************************************)
EXTENDS OtaMemory

CONSTANT AbortStores   \* the stores of handleAbort, each a set of fields
AbortFields == {"state", "lastError", "bytesWritten", "rebootPending"}
ASSUME AbortAssumption ==
  AbortStores \subseteq SUBSET AbortFields /\ UNION AbortStores = AbortFields

VARIABLES
  state, lastError,    \* state_, last_error_
  expected,            \* total_image_size_ and expected_crc32_
  bytesWritten,        \* bytes_written_, in chunks
  autoReboot, rebootPending,
  staging,             \* staging_buffer_ as the CPU sees it
  otaEnabled,          \* FEAT_OTA_RAM_STAGING in SystemController
  cmd,                 \* where the command task is
  aborting             \* the stores the console's handleAbort still owes

serviceVars == <<state, lastError, expected, bytesWritten, autoReboot,
                 rebootPending, staging, otaEnabled, cmd, aborting>>
sessionVars == <<expected, autoReboot, staging, otaEnabled>>

States == {"IDLE", "RECEIVING", "READY", "ERROR_STATE"}
StatusCodes == {"OK", "ERR_OTA_DISABLED", "ERR_IMAGE_TOO_LARGE",
                "ERR_INVALID_PAYLOAD", "ERR_INVALID_CRC",
                "ERR_INCOMPATIBLE_BOARD", "ERR_INCOMPATIBLE_BOOTLOADER"}

HeaderStatus ==
  [none |-> "OK", ok |-> "OK", badCrc |-> "ERR_INVALID_CRC",
   otherBoard |-> "ERR_INCOMPATIBLE_BOARD",
   newerBootloader |-> "ERR_INCOMPATIBLE_BOOTLOADER"]

\* The service as the constructor and startup leave it: staging_buffer_ is
\* static, so .bss initialisation zeroes it, through the cache.
ServiceInit ==
  /\ state = "IDLE" /\ lastError = "OK"
  /\ expected = <<>> /\ bytesWritten = 0
  /\ autoReboot = FALSE /\ rebootPending = FALSE
  /\ staging = [c \in Chunks |-> Zero]
  /\ otaEnabled = TRUE
  /\ cmd = "recv" /\ aborting = {}

\* The same as a step: the application starts again.
ServiceStart ==
  /\ state' = "IDLE" /\ lastError' = "OK"
  /\ expected' = <<>> /\ bytesWritten' = 0
  /\ autoReboot' = FALSE /\ rebootPending' = FALSE
  /\ staging' = [c \in Chunks |-> Zero]
  /\ otaEnabled' = TRUE
  /\ cmd' = "recv" /\ aborting' = {}

-----------------------------------------------------------------------------
(* handleBegin.  Accepted in every state, a READY one included; the control *)
(* block of an earlier session is left as it is.                            *)

\* Mutants of Fits: the upper bound forgotten; off by one.
FitsAnyway(img) == Len(img) > 0
FitsLoosely(img) == Len(img) \in 1 .. StagingChunks - 1
Fits(img) == Len(img) \in Chunks

RefuseBegin(img) ==
  /\ cmd = "recv"
  /\ \/ ~otaEnabled /\ lastError' = "ERR_OTA_DISABLED"
     \/ otaEnabled /\ ~Fits(img) /\ lastError' = "ERR_IMAGE_TOO_LARGE"
  /\ UNCHANGED <<state, bytesWritten, rebootPending, cmd, aborting, ram, block>>
  /\ UNCHANGED sessionVars

AcceptBegin(img, auto) ==
  /\ cmd = "recv" /\ otaEnabled /\ Fits(img)
  /\ expected' = img /\ bytesWritten' = 0
  /\ autoReboot' = auto /\ rebootPending' = FALSE
  /\ lastError' = "OK" /\ state' = "RECEIVING"
  /\ staging' = [c \in Chunks |-> IF c <= Len(img) THEN FF ELSE staging[c]]
  /\ UNCHANGED <<otaEnabled, cmd, aborting, ram, block>>

-----------------------------------------------------------------------------
(* handleData(offset, data).  Outside RECEIVING it answers ERR_BUSY and     *)
(* changes nothing.  A chunk past the end or with a wrong CRC16 is not      *)
(* stored; one that completes an unacceptable header is stored and refused, *)
(* and the session goes on.                                                 *)

RefuseData(c, crcMatches) ==
  /\ cmd = "recv" /\ state = "RECEIVING"
  /\ \/ c > Len(expected) /\ lastError' = "ERR_INVALID_PAYLOAD"
     \/ c <= Len(expected) /\ ~crcMatches /\ lastError' = "ERR_INVALID_CRC"
  /\ UNCHANGED <<state, bytesWritten, rebootPending, cmd, aborting, ram, block>>
  /\ UNCHANGED sessionVars

StoreData(c, data) ==
  /\ cmd = "recv" /\ state = "RECEIVING" /\ c <= Len(expected)
  /\ staging' = [staging EXCEPT ![c] = data]
  /\ bytesWritten' = c
  /\ LET status == HeaderStatus[HeaderKind(staging', c)]
     IN  lastError' = IF status = "OK" THEN lastError ELSE status
  /\ UNCHANGED <<state, expected, autoReboot, rebootPending, otaEnabled, cmd,
                 aborting, ram, block>>

-----------------------------------------------------------------------------
(* handleEnd, then the tail of the CMD_OTA_END case: the acknowledgement is *)
(* written (which may block), reboot_pending_ is read, and 300 ms later the *)
(* node resets.                                                             *)

\* Mutants: the CRC of the buffer not compared; the cache not cleaned.
VerifiedBlindly == TRUE
CleanedLate == ram
Verified == Holds(staging, expected)
Cleaned == [c \in Chunks |-> IF c <= Len(expected) THEN staging[c] ELSE ram[c]]

EndBusy ==
  /\ cmd = "recv" /\ state # "RECEIVING"
  /\ cmd' = "ack"
  /\ UNCHANGED <<state, lastError, bytesWritten, rebootPending, aborting, ram, block>>
  /\ UNCHANGED sessionVars

\* Mutant of EndMismatch: the block written before the comparison.
EndMismatchArmed ==
  /\ cmd = "recv" /\ state = "RECEIVING"
  /\ ram' = Cleaned
  /\ ~Verified
  /\ block' = PendingBlock(expected)
  /\ state' = "ERROR_STATE" /\ lastError' = "ERR_INVALID_CRC"
  /\ cmd' = "ack"
  /\ UNCHANGED <<bytesWritten, rebootPending, aborting>>
  /\ UNCHANGED sessionVars

EndMismatch ==
  /\ cmd = "recv" /\ state = "RECEIVING"
  /\ ram' = Cleaned
  /\ ~Verified
  /\ state' = "ERROR_STATE" /\ lastError' = "ERR_INVALID_CRC"
  /\ cmd' = "ack"
  /\ UNCHANGED <<bytesWritten, rebootPending, aborting, block>>
  /\ UNCHANGED sessionVars

EndVerified(auto) ==
  /\ cmd = "recv" /\ state = "RECEIVING"
  /\ ram' = Cleaned
  /\ Verified
  /\ block' = PendingBlock(expected)
  /\ state' = "READY"
  /\ rebootPending' = (rebootPending \/ autoReboot \/ auto)
  /\ cmd' = "ack"
  /\ UNCHANGED <<lastError, bytesWritten, aborting>>
  /\ UNCHANGED sessionVars

\* Mutant of ResetFollows: what BEGIN asked for instead of the flag.
ResetFollowsBegin == autoReboot
ResetFollows == rebootPending

EndAcknowledged ==
  /\ cmd = "ack"
  /\ cmd' = IF ResetFollows THEN "endDelay" ELSE "recv"
  /\ UNCHANGED <<state, lastError, bytesWritten, rebootPending, aborting, ram, block>>
  /\ UNCHANGED sessionVars

\* CMD_REBOOT, and "reboot" through CMD_CLI_EXEC: acknowledge, wait, reset.
RebootCommand ==
  /\ cmd = "recv" /\ cmd' = "rebootDelay"
  /\ UNCHANGED <<state, lastError, bytesWritten, rebootPending, aborting, ram, block>>
  /\ UNCHANGED sessionVars

-----------------------------------------------------------------------------
(* handleAbort: from the command task (CMD_OTA_ABORT, or the CLI over TCP)  *)
(* in one go, from the console store by store.  Neither touches the block.  *)

AbortCommand ==
  /\ cmd = "recv"
  /\ state' = "IDLE" /\ lastError' = "OK"
  /\ bytesWritten' = 0 /\ rebootPending' = FALSE
  /\ UNCHANGED <<cmd, aborting, ram, block>>
  /\ UNCHANGED sessionVars

ConsoleAbort ==
  /\ aborting = {} /\ aborting' = AbortStores
  /\ UNCHANGED <<state, lastError, bytesWritten, rebootPending, cmd, ram, block>>
  /\ UNCHANGED sessionVars

ConsoleAbortStore(store) ==
  /\ store \in aborting /\ aborting' = aborting \ {store}
  /\ state' = IF "state" \in store THEN "IDLE" ELSE state
  /\ lastError' = IF "lastError" \in store THEN "OK" ELSE lastError
  /\ bytesWritten' = IF "bytesWritten" \in store THEN 0 ELSE bytesWritten
  /\ rebootPending' = (rebootPending /\ "rebootPending" \notin store)
  /\ UNCHANGED <<cmd, ram, block>>
  /\ UNCHANGED sessionVars

\* "feature enable ota" / "feature disable ota", from either task.
SetOtaFeature(enable) ==
  /\ otaEnabled # enable /\ otaEnabled' = enable
  /\ UNCHANGED <<state, lastError, expected, bytesWritten, autoReboot,
                 rebootPending, staging, cmd, aborting, ram, block>>

\* The cache writes a line of the staging buffer back.
WriteBack(c) ==
  /\ ram[c] # staging[c]
  /\ ram' = [ram EXCEPT ![c] = staging[c]]
  /\ UNCHANGED block
  /\ UNCHANGED serviceVars

ServiceNext ==
  \/ \E img \in Images : RefuseBegin(img)
  \/ \E img \in Images, auto \in BOOLEAN : AcceptBegin(img, auto)
  \/ \E c \in 1 .. StagingChunks + 1, crcMatches \in BOOLEAN : RefuseData(c, crcMatches)
  \/ \E c \in Chunks, data \in Bytes : StoreData(c, data)
  \/ EndBusy
  \/ EndMismatch
  \/ \E auto \in BOOLEAN : EndVerified(auto)
  \/ EndAcknowledged
  \/ RebootCommand
  \/ AbortCommand
  \/ ConsoleAbort
  \/ \E store \in AbortStores : ConsoleAbortStore(store)
  \/ \E enable \in BOOLEAN : SetOtaFeature(enable)
  \/ \E c \in Chunks : WriteBack(c)
=============================================================================
