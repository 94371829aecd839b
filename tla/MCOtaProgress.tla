--------------------------- MODULE MCOtaProgress ---------------------------
(* One image of two chunks, the second with its header; two resets from     *)
(* outside.  The checksums the modules take to be perfect are checked here. *)
EXTENDS OtaProgress, Checksums

MCBytes == {"FF", "h", "x"}
MCKind == [b \in MCBytes |-> IF b = "h" THEN "ok" ELSE "none"]
MCImages == {<<"h", "h">>}
MCFactory == <<"x", "h">>
MCAbortStores == {{"state", "lastError", "bytesWritten", "rebootPending"}}

\* What is only ever reported is left out: no guard, no fair action and no
\* property depends on it.
MCView == <<ram, block, state, expected, autoReboot, rebootPending, staging,
            otaEnabled, cmd, aborting, bpc, sector, offset, slot, current, torn,
            alive, resets, disturbed>>
=============================================================================
