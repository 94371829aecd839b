---------------------------- MODULE OtaProgress ----------------------------
(***************************************************************************)
(* What an update must eventually come to.  The delayed resets of the      *)
(* command task and the steps of the bootloader are fair: nothing of a     *)
(* higher priority than CommandService runs for ever, and the bootloader   *)
(* is a sequential program.  Hosts, the console, write-backs and failures  *)
(* are not.                                                                *)
(*                                                                         *)
(* Faults (power, flash, external memory) are counted out by "disturbed";  *)
(* resets that keep the RAM are allowed, MaxResets of them.                *)
(***************************************************************************)
EXTENDS OtaUpdate

CONSTANT MaxResets
ASSUME MaxResetsAssumption == MaxResets \in Nat

VARIABLES
  resets,     \* resets from outside so far
  disturbed   \* history: a fault happened

progressVars == <<allVars, resets, disturbed>>

Faults ==
  \/ EraseFails \/ ProgramFails \/ VerifyFails
  \/ bpc' = "recovery"
  \/ ProgramChunk /\ slot'[offset'] # ram[offset']

ProgressInit == UpdateInit /\ resets = 0 /\ disturbed = FALSE

Undisturbed(step) == step /\ UNCHANGED resets /\ disturbed' = (disturbed \/ Faults)

ProgressNext ==
  \/ Undisturbed(ServiceRuns \/ TornStartup)
  \/ Undisturbed(RebootNow)
  \/ Undisturbed(BootRuns)
  \/ Undisturbed(StartApplication)
  \/ /\ Interrupt /\ resets < MaxResets /\ resets' = resets + 1
     /\ disturbed' = (disturbed \/ PowerLoss)

ProgressSpec ==
  /\ ProgressInit /\ [][ProgressNext]_progressVars
  /\ WF_progressVars(Undisturbed(RebootNow))
  /\ WF_progressVars(Undisturbed(BootRuns))
  /\ WF_progressVars(Undisturbed(StartApplication))

-----------------------------------------------------------------------------
\* The command task has acknowledged a reset and counts it down, the staged
\* image is complete and fits the node.
CountingDown(img) ==
  /\ Running /\ block = PendingBlock(img) /\ Compatible(img)
  /\ \/ cmd = "endDelay"
     \/ cmd = "rebootDelay" /\ state = "READY"

\* A host that was told the node resets into its image gets that image
\* installed, and the application started on it, whatever the console aborts
\* or resets meanwhile and however often the bootloader is interrupted; only
\* a fault of the power, the flash or the external memory is an excuse.
RebootInstalls ==
  \A img \in Images :
    CountingDown(img) ~> (disturbed \/ (current = img /\ ~torn /\ Running))

\* Every boot ends: in the application, or in the recovery loop when the
\* external flash did not start.
BootEnds == (bpc = "init") ~> (bpc \in {"off", "recovery"})
=============================================================================
