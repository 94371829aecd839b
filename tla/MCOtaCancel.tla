---------------------------- MODULE MCOtaCancel ----------------------------
(* One image of two chunks. *)
EXTENDS OtaCancel

MCBytes == {"FF", "h", "x"}
MCKind == [b \in MCBytes |-> IF b = "h" THEN "ok" ELSE "none"]
MCImages == {<<"h", "h">>}
MCFactory == <<"x", "h">>
MCAbortStores == {{"state", "lastError", "bytesWritten", "rebootPending"}}
=============================================================================
