------------------------------ MODULE OtaUpdate ------------------------------
(***************************************************************************)
(* A whole update: the running application with its OtaService, the reset, *)
(* the bootloader, and the application again.  The two share ram and block *)
(* and never run at the same time: the application runs while the          *)
(* bootloader is "off".                                                    *)
(***************************************************************************)
EXTENDS OtaService, Bootloader

VARIABLES
  alive,   \* what the bootloader jumped to works
  acked    \* history: the images CMD_OTA_END was acknowledged for

allVars == <<ram, block, serviceVars, bootVars, alive, acked>>

Running == alive /\ bpc = "off"

UpdateInit ==
  /\ ServiceInit /\ BootInit
  /\ ram = [c \in Chunks |-> Junk] /\ block = NoBlock
  /\ alive = TRUE /\ acked = {}

\* One step of the application.  Only handleEnd makes a block pending.
ServiceRuns ==
  /\ Running /\ ServiceNext
  /\ acked' = IF state = "RECEIVING" /\ state' = "READY"
              THEN acked \cup {expected} ELSE acked
  /\ UNCHANGED <<bootVars, alive>>

\* systemReset() after the delay of CMD_OTA_END or of a reboot command.  The
\* application's state goes with the reset; what it starts from next time is
\* set here already.
RebootNow ==
  /\ Running /\ cmd \in {"endDelay", "rebootDelay"}
  /\ SoftReset /\ ServiceStart
  /\ UNCHANGED <<alive, acked>>

\* The bootloader runs; its jump starts the application, if the slot holds
\* one.  What a torn slot does is undefined: it may run or hang, and may or
\* may not have zeroed the staging buffer (WriteBack) before it hangs.
BootRuns ==
  /\ BootStep /\ bpc # "jump"
  /\ UNCHANGED <<serviceVars, alive, acked>>

StartApplication ==
  /\ Jump
  /\ alive' \in (IF torn THEN BOOLEAN ELSE {TRUE})
  /\ UNCHANGED <<serviceVars, acked>>

\* Mutant of TornStartup: its dirty lines written back after the reset too.
TornStartupLingers ==
  /\ ~alive
  /\ \E c \in Chunks : WriteBack(c)
  /\ UNCHANGED <<bootVars, alive, acked>>

TornStartup ==
  /\ bpc = "off" /\ ~alive
  /\ \E c \in Chunks : WriteBack(c)
  /\ UNCHANGED <<bootVars, alive, acked>>

\* The reset button, the serial console's "reboot", or the power, any time.
Interrupt ==
  /\ SoftReset \/ PowerLoss
  /\ ServiceStart
  /\ UNCHANGED <<alive, acked>>

UpdateNext ==
  ServiceRuns \/ RebootNow \/ BootRuns \/ StartApplication \/ TornStartup \/ Interrupt

UpdateSpec == UpdateInit /\ [][UpdateNext]_allVars

-----------------------------------------------------------------------------
ServiceTypeOK ==
  /\ state \in States /\ lastError \in StatusCodes
  /\ expected \in Seq(Bytes) /\ Len(expected) <= StagingChunks
  /\ bytesWritten \in 0 .. StagingChunks
  /\ autoReboot \in BOOLEAN /\ rebootPending \in BOOLEAN
  /\ staging \in [Chunks -> Bytes] /\ otaEnabled \in BOOLEAN
  /\ cmd \in {"recv", "ack", "endDelay", "rebootDelay"}
  /\ aborting \subseteq AbortStores

\* The types of the system's variables; an upload is never larger than the
\* staging buffer (the size check of handleBegin).
UpdateTypeOK ==
  /\ TypeOK /\ ServiceTypeOK
  /\ alive \in BOOLEAN /\ acked \subseteq Seq(Bytes)

\* While the service says READY, a reset at any moment finds everything the
\* bootloader needs: a pending block for the announced image and that image
\* in physical RAM, not merely in the cache (handleEnd and writeControlBlock
\* clean it), whatever else the two tasks did since.
ReadySurvivesReset ==
  Running /\ state = "READY" =>
    block = PendingBlock(expected) /\ Holds(ram, expected) /\ Holds(staging, expected)

\* Once the command task has decided to reset for CMD_OTA_END, what it
\* acknowledged is installable: no abort of the console that runs in between
\* and no late write-back takes the image away.
AutoRebootIsArmed ==
  Running /\ cmd = "endDelay" => block.pending /\ Holds(ram, block.image)

\* reboot_pending_ never outlives the CMD_OTA_END that set it: a later
\* command finds it clear, so it cannot reset the node by surprise.
RebootFlagIsScoped ==
  Running /\ rebootPending => cmd \in {"ack", "endDelay"}

\* Nothing but an image some host completed with an acknowledged CMD_OTA_END
\* is ever pending or, the factory image apart, installed.
OnlyAckedIsInstalled ==
  /\ block.pending => block.image \in acked
  /\ current \in acked \cup {Factory}
  /\ bpc \in {"erase", "program", "verify"} => Target \in acked

\* The application keeps to what the bootloader was verified against: the
\* whole system behaves, for the bootloader's variables, as Bootloader!Spec,
\* whose ApplicationRuns may do anything to the shared memory but only
\* between a jump and the next reset.
RefinesBootloader == Spec
=============================================================================
