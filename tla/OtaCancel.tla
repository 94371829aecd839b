------------------------------ MODULE OtaCancel ------------------------------
(***************************************************************************)
(* OtaUpdate with a memory of cancellations: what the CLI help and the     *)
(* integration guide say of "ota abort" and CMD_OTA_ABORT.                 *)
(***************************************************************************)
EXTENDS OtaUpdate

VARIABLE cancelled   \* history: aborted, and no CMD_OTA_END succeeded since

CancelInit == UpdateInit /\ cancelled = FALSE

CancelNext ==
  \/ /\ Running /\ AbortCommand /\ cancelled' = TRUE
     /\ UNCHANGED <<bootVars, alive, acked>>
  \/ /\ UpdateNext
     /\ cancelled' = (cancelled /\ ~(state = "RECEIVING" /\ state' = "READY"))

CancelSpec == CancelInit /\ [][CancelNext]_<<allVars, cancelled>>

\* "ota abort: Cancel pending OTA update" (CliEngine.cpp:99).  Once the
\* abort has been acknowledged, the bootloader installs nothing until another
\* upload is completed.
CancelledIsNotInstalled == [][current' # current => ~cancelled]_<<allVars, cancelled>>
=============================================================================
