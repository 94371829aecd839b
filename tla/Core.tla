-------------------------------- MODULE Core --------------------------------
(***************************************************************************)
(* What the core runs after a reset: the bootloader's main, then the       *)
(* application.                                                            *)
(***************************************************************************)
VARIABLE bpc       \* where the bootloader is; "off" while the application runs
=============================================================================
