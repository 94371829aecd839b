--------------------------- MODULE TelemetryProofs ---------------------------
(***************************************************************************)
(* Telemetry, for any number of channels and any packet intervals: the     *)
(* types, the agreement of channels, engine and heartbeat, and the one     *)
(* late packet.                                                            *)
(***************************************************************************)
EXTENDS Telemetry, TLAPS

USE ChannelsAssumption, LongestAssumption DEF ChannelsAssumption, LongestAssumption

Agree ==
  /\ enabled # {} => streaming
  /\ nodeState = (IF streaming THEN "STREAMING" ELSE "IDLE")

\* What a console operation that nothing overtook has established so far.
Underway ==
  /\ cpc = "started" => streaming
  /\ cpc \in {"disabling", "looking"} /\ target # All => Agree
  /\ cpc = "disabling" /\ target = All => enabled \subseteq todo
  /\ cpc = "looking" => target # All /\ enabled \subseteq todo
  /\ cpc = "found" => target # All /\ Agree /\ enabled # {}
  /\ cpc = "stopped" => /\ streaming <=> enabled # {}
                        /\ streaming => nodeState = "STREAMING"
  /\ cpc = "reporting" => enabled = {} /\ ~streaming

Undisturbed == ~raced => AgreeUnlessRaced /\ Underway

\* A packet is late only while its channel is off, and one in hand is the
\* first to be.
InHand ==
  /\ \A c \in enabled : late[c] = 0
  /\ tpc = "send" => late[slot] = 0
  /\ OnePacketLate

-----------------------------------------------------------------------------
LEMMA Retuned ==
  ASSUME NEW chosen, Enable(chosen)
  PROVE  period' \in [Channels -> Intervals]
BY DEF Enable

LEMMA TypeInit == Init => TypeOK
<1> SUFFICES ASSUME Init PROVE TypeOK
  OBVIOUS
<1>1. age \in [Channels -> 0 .. Longest] /\ late \in [Channels -> Nat]
  BY DEF Init
<1>2. slot \in 1 .. N + 1
  BY DEF Init
<1> QED
  BY <1>1, <1>2 DEF Init, TypeOK, Targets

\* The console's operations and the commands, then the loop.
LEMMA TypeStep == TypeOK /\ [Next]_vars => TypeOK'
<1> SUFFICES ASSUME TypeOK, [Next]_vars PROVE TypeOK'
  OBVIOUS
<1> USE Retuned DEF TypeOK, Channels, Targets, All, Unknown
<1>1. ASSUME NEW t \in Targets, CommandStart(t) PROVE TypeOK'
  BY <1>1 DEF CommandStart, Enable, Matching, Overtakes, Fresh, ConsoleIdle, loopVars, consoleVars
<1>2. ASSUME NEW t \in Targets, CommandStop(t) PROVE TypeOK'
  BY <1>2 DEF CommandStop, AnyEnabled, Matching, Overtakes, Fresh, ConsoleIdle, loopVars, consoleVars
<1>3. CASE ConsoleStep
  <2> USE DEF engineVars, loopVars
  <2>1. ASSUME NEW t \in Targets, ConsoleStart(t) \/ ConsoleStop(t) PROVE TypeOK'
    BY <2>1 DEF ConsoleStart, ConsoleStop, Matching, Fresh
  <2>2. ASSUME NEW c \in Channels, ConsoleEnables(c) \/ ConsoleDisables(c) PROVE TypeOK'
    <3>1. CASE ConsoleEnables(c)
      <4>1. late' \in [Channels -> Nat]
        BY <3>1 DEF ConsoleEnables, Enable
      <4> QED
        BY <3>1, <4>1 DEF ConsoleEnables, Enable
    <3>2. CASE ConsoleDisables(c)
      BY <3>2 DEF ConsoleDisables
    <3> QED
      BY <2>2, <3>1, <3>2
  <2>3. ASSUME NEW c \in Channels, ConsoleLooks(c) PROVE TypeOK'
    BY <2>3 DEF ConsoleLooks
  <2>4. CASE ConsoleEngineOn \/ ConsoleReportsStreaming \/ ConsoleEngineOff
    BY <2>4 DEF ConsoleEngineOn, ConsoleReportsStreaming, ConsoleEngineOff
  <2>5. CASE ConsoleStoresAny \/ ConsoleChecks \/ ConsoleReportsIdle
    BY <2>5 DEF ConsoleStoresAny, ConsoleChecks, ConsoleReportsIdle
  <2> QED
    BY <1>3, <2>1, <2>2, <2>3, <2>4, <2>5 DEF ConsoleStep
<1>4. CASE LoopStep
  <2> USE DEF sharedVars, consoleVars
  <2>1. CASE EngineStarts \/ Rests
    <3>1. age' \in [Channels -> 0 .. Longest]
      BY <2>1 DEF EngineStarts, Rests
    <3> QED
      BY <2>1, <3>1 DEF EngineStarts, Rests
  <2>6. CASE BeginScan
    <3>1. slot' \in 1 .. N + 1
      BY <2>6 DEF BeginScan
    <3> QED
      BY <2>6, <3>1 DEF BeginScan
  <2>2. CASE SkipChannel
    <3>1. slot' \in 1 .. N + 1
      BY <2>2 DEF SkipChannel
    <3> QED
      BY <2>2, <3>1 DEF SkipChannel
  <2>3. CASE BeginPacket
    BY <2>3 DEF BeginPacket
  <2>4. CASE SendPacket
    <3>1. slot' \in 1 .. N + 1 /\ tpc' = "scan"
      BY <2>4 DEF SendPacket
    <3>2. age' \in [Channels -> 0 .. Longest] /\ late' \in [Channels -> Nat]
      BY <2>4 DEF SendPacket
    <3> QED
      BY <2>4, <3>1, <3>2 DEF SendPacket
  <2>5. CASE Sleep
    <3>1. age' \in [Channels -> 0 .. Longest]
      BY <2>5 DEF Sleep
    <3> QED
      BY <2>5, <3>1 DEF Sleep
  <2> QED
    BY <1>4, <2>1, <2>2, <2>3, <2>4, <2>5, <2>6 DEF LoopStep
<1>5. CASE NetworkChanges
  BY <1>5 DEF NetworkChanges, loopVars, consoleVars
<1>6. CASE UNCHANGED vars
  BY <1>6 DEF vars, loopVars, consoleVars
<1> QED
  BY <1>1, <1>2, <1>3, <1>4, <1>5, <1>6 DEF Next

\* The variables of the telemetry service keep their types (TypeOK).
THEOREM TelemetryTypes == Spec => []TypeOK
BY TypeInit, TypeStep, PTL DEF Spec

-----------------------------------------------------------------------------
LEMMA UndisturbedStep == TypeOK /\ Undisturbed /\ [Next]_vars => Undisturbed'
<1> SUFFICES ASSUME TypeOK, Undisturbed, [Next]_vars PROVE Undisturbed'
  OBVIOUS
<1> USE DEF Undisturbed, AgreeUnlessRaced, Underway, Agree, ConsoleIdle, TypeOK
<1>1. ASSUME NEW t \in Targets, CommandStart(t) PROVE Undisturbed'
  BY <1>1 DEF CommandStart, Enable, Overtakes, Fresh, consoleVars
<1>2. ASSUME NEW t \in Targets, CommandStop(t) PROVE Undisturbed'
  <2>1. CASE ~ConsoleIdle
    BY <1>2, <2>1 DEF CommandStop, Overtakes
  <2>2. CASE ConsoleIdle /\ t = All
    <3>1. enabled' = {}
      BY <1>2, <2>2 DEF CommandStop, Matching
    <3> QED
      BY <1>2, <2>2, <3>1 DEF CommandStop, consoleVars
  <2>3. CASE ConsoleIdle /\ t # All
    BY <1>2, <2>3 DEF CommandStop, AnyEnabled, Overtakes, Fresh, consoleVars
  <2> QED
    BY <2>1, <2>2, <2>3
<1>3. CASE ConsoleStep
  <2>1. ASSUME NEW t \in Targets, ConsoleStart(t) PROVE Undisturbed'
    BY <2>1 DEF ConsoleStart
  <2>2. ASSUME NEW t \in Targets, ConsoleStop(t) PROVE Undisturbed'
    BY <2>2 DEF ConsoleStop, Fresh, Matching
  <2>3. ASSUME NEW c \in Channels, ConsoleEnables(c) PROVE Undisturbed'
    BY <2>3 DEF ConsoleEnables
  <2>4. ASSUME NEW c \in Channels, ConsoleDisables(c) PROVE Undisturbed'
    BY <2>4 DEF ConsoleDisables
  <2>5. ASSUME NEW c \in Channels, ConsoleLooks(c) PROVE Undisturbed'
    BY <2>5 DEF ConsoleLooks, AnyEnabled
  <2>6. CASE ConsoleEngineOn \/ ConsoleReportsStreaming
    BY <2>6 DEF ConsoleEngineOn, ConsoleReportsStreaming
  <2>7. CASE ConsoleEngineOff
    BY <2>7 DEF ConsoleEngineOff
  <2>8. CASE ConsoleStoresAny
    BY <2>8 DEF ConsoleStoresAny
  <2>9. CASE ConsoleChecks \/ ConsoleReportsIdle
    BY <2>9 DEF ConsoleChecks, ConsoleReportsIdle
  <2> QED
    BY <1>3, <2>1, <2>2, <2>3, <2>4, <2>5, <2>6, <2>7, <2>8, <2>9 DEF ConsoleStep
<1>4. CASE LoopStep
  BY <1>4 DEF LoopStep, EngineStarts, Rests, BeginScan, SkipChannel, BeginPacket,
              SendPacket, Sleep, sharedVars, consoleVars
<1>5. CASE NetworkChanges
  BY <1>5 DEF NetworkChanges, consoleVars
<1>6. CASE UNCHANGED vars
  BY <1>6 DEF vars, consoleVars
<1> QED
  BY <1>1, <1>2, <1>3, <1>4, <1>5, <1>6 DEF Next

\* Whenever no command overtook the console, channels, engine and heartbeat
\* agree between its operations (AgreeUnlessRaced).
THEOREM AgreementUnlessRaced == Spec => []AgreeUnlessRaced
<1>1. Init => Undisturbed
  BY DEF Init, Undisturbed, AgreeUnlessRaced, Underway
<1>2. Undisturbed /\ TypeOK => AgreeUnlessRaced
  BY DEF Undisturbed, AgreeUnlessRaced
<1> QED
  BY <1>1, <1>2, TelemetryTypes, UndisturbedStep, PTL DEF Spec

-----------------------------------------------------------------------------
LEMMA InHandStep == TypeOK /\ InHand /\ [Next]_vars => InHand'
<1> SUFFICES ASSUME TypeOK, InHand, [Next]_vars PROVE InHand'
  OBVIOUS
<1> USE DEF InHand, OnePacketLate, TypeOK
<1>1. ASSUME NEW t \in Targets, CommandStart(t) \/ CommandStop(t) PROVE InHand'
  <2>1. CASE CommandStart(t)
    <3>1. Matching(t) \subseteq Channels /\ late' = [c \in Channels |-> IF c \in Matching(t) THEN 0 ELSE late[c]]
      BY <2>1 DEF CommandStart, Enable, Matching
    <3>2. enabled' = enabled \cup Matching(t) /\ tpc' = tpc /\ slot' = slot
      BY <2>1 DEF CommandStart, Enable, loopVars
    <3> QED
      BY <3>1, <3>2
  <2>2. CASE CommandStop(t)
    BY <2>2 DEF CommandStop, loopVars
  <2> QED
    BY <1>1, <2>1, <2>2
<1>2. CASE ConsoleStep
  <2> USE DEF engineVars, loopVars
  <2>1. ASSUME NEW t \in Targets, ConsoleStart(t) \/ ConsoleStop(t) PROVE InHand'
    BY <2>1 DEF ConsoleStart, ConsoleStop
  <2>2. ASSUME NEW c \in Channels, ConsoleEnables(c) PROVE InHand'
    BY <2>2 DEF ConsoleEnables, Enable
  <2>3. ASSUME NEW c \in Channels, ConsoleDisables(c) \/ ConsoleLooks(c) PROVE InHand'
    BY <2>3 DEF ConsoleDisables, ConsoleLooks
  <2>4. CASE ConsoleEngineOn \/ ConsoleReportsStreaming \/ ConsoleEngineOff
    BY <2>4 DEF ConsoleEngineOn, ConsoleReportsStreaming, ConsoleEngineOff
  <2>5. CASE ConsoleStoresAny \/ ConsoleChecks \/ ConsoleReportsIdle
    BY <2>5 DEF ConsoleStoresAny, ConsoleChecks, ConsoleReportsIdle
  <2> QED
    BY <1>2, <2>1, <2>2, <2>3, <2>4, <2>5 DEF ConsoleStep
<1>3. CASE LoopStep
  <2> USE DEF sharedVars
  <2>1. CASE EngineStarts \/ Rests \/ BeginScan \/ SkipChannel \/ Sleep
    BY <2>1 DEF EngineStarts, Rests, BeginScan, SkipChannel, Sleep
  <2>2. CASE BeginPacket
    BY <2>2 DEF BeginPacket, IsOn
  <2>3. CASE SendPacket
    BY <2>3 DEF SendPacket
  <2> QED
    BY <1>3, <2>1, <2>2, <2>3 DEF LoopStep
<1>4. CASE NetworkChanges
  BY <1>4 DEF NetworkChanges, loopVars
<1>5. CASE UNCHANGED vars
  BY <1>5 DEF vars, loopVars
<1> QED
  BY <1>1, <1>2, <1>3, <1>4, <1>5 DEF Next

\* After a channel is disabled at most the packet in hand leaves
\* (OnePacketLate).
THEOREM AtMostOneLate == Spec => []OnePacketLate
<1>1. Init => InHand
  BY DEF Init, InHand, OnePacketLate
<1>2. InHand => OnePacketLate
  BY DEF InHand
<1> QED
  BY <1>1, <1>2, TelemetryTypes, InHandStep, PTL DEF Spec
=============================================================================
