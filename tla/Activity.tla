------------------------------ MODULE Activity ------------------------------
(***************************************************************************)
(* What a node is doing: whether TelemetryService streams, and where       *)
(* ConsoleTask is in the operation of a command.                           *)
(***************************************************************************)
VARIABLES
  streaming,  \* is_streaming_
  cpc         \* where the console's operation is
=============================================================================
