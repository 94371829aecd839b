---------------------------- MODULE MCOtaUpdate ----------------------------
(* Updates of two chunks, the second with the header. *)
EXTENDS OtaUpdate

MCBytes == {"FF", "h", "x"}
MCKind == [b \in MCBytes |-> CASE b = "h" -> "ok" [] b = "x" -> "otherBoard" [] OTHER -> "none"]
\* A good image, one for another board, an empty and an oversized request.
MCImages == {<<"h", "h">>, <<"h", "x">>, <<>>, <<"h", "h", "h">>}
MCFactory == <<"x", "h">>

\* The store that matters apart from state_'s is reboot_pending_'s; the two
\* fields that nothing reads back go with state_.
MCAbortStores == {{"state", "lastError", "bytesWritten"}, {"rebootPending"}}

\* lastError, bytesWritten, reason and bootCount are only ever reported: no
\* guard and no other variable depends on them, so states that differ in
\* them alone need not be told apart.
MCView == <<ram, block, state, expected, autoReboot, rebootPending, staging,
            otaEnabled, cmd, aborting, bpc, sector, offset, slot, current, torn,
            alive, acked>>
=============================================================================
