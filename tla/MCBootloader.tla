---------------------------- MODULE MCBootloader ----------------------------
(* The bootloader on a slot of two sectors of two chunks, and the flash     *)
(* driver of the application it starts.                                     *)
EXTENDS Bootloader, FlashDriver

MCBytes == {"FF", "zero", "h", "x"}
MCKind == [b \in MCBytes |-> CASE b = "h" -> "ok" [] b = "x" -> "otherBoard" [] OTHER -> "none"]
\* A good image with a header; one of a sector and a half; one for another
\* board; one of size 0; one too large to stage.
MCImages == {<<"zero", "h">>, <<"h", "zero", "x">>, <<"h", "x">>, <<>>, <<"h", "h", "h", "h">>}
MCFactory == <<"h", "h", "h">>
=============================================================================
