---------------------------- MODULE MCTelemetry ----------------------------
(* Two channels, each sent every tick or every second tick, the numbers     *)
(* behind such intervals, and the commands of the console.                  *)
EXTENDS Telemetry, Cli
=============================================================================
