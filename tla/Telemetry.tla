------------------------------ MODULE Telemetry ------------------------------
(***************************************************************************)
(* TelemetryService (components/net/services/TelemetryService.cpp) between *)
(* the two tasks that start and stop streams and its own sending loop.     *)
(*                                                                         *)
(* CommandService, priority 5, runs CMD_START_STREAM and CMD_STOP_STREAM   *)
(* (and the CLI, for a host) without blocking: one step.  The serial       *)
(* console, priority 2, does the same through SystemController, and the    *)
(* command task and the loop, priority 3, preempt it between any two       *)
(* memory accesses.  The console in turn only runs while the loop sleeps   *)
(* or waits for the network stack.                                         *)
(*                                                                         *)
(* A channel is its slot number; its period is the packet interval that    *)
(* the loop computes from its rate and batch, in ticks.                    *)
(***************************************************************************)
EXTENDS Activity, Naturals

CONSTANTS
  N,        \* registered channels
  Longest   \* the longest packet interval: (batch * 1000) / rate, at least 1

ASSUME ChannelsAssumption == N \in Nat \ {0}
ASSUME LongestAssumption == Longest \in Nat \ {0}

VARIABLES
  enabled,    \* the channels whose is_enabled() holds
  period,     \* interval_ticks of each channel
  nodeState,  \* state_ of DiscoveryService, what heartbeats report
  ready,      \* NetManager::is_ready()
  tpc,        \* where TelemetryService::run is
  slot,       \* the channel its scan has come to
  age,        \* ticks since each channel's last_wake_tick, up to Longest
  target,     \* the streamTag of that operation, while it is used
  todo,       \* the channels whose set_enabled it still owes
  raced,      \* history: see Overtakes
  late        \* history: packets of each channel since it was disabled

loopVars == <<tpc, slot, age>>
consoleVars == <<cpc, target, todo>>
vars == <<enabled, period, streaming, nodeState, ready, loopVars, consoleVars, raced, late>>

Channels == 1 .. N
Intervals == 1 .. Longest
All == 0
Unknown == N + 1
Targets == Channels \cup {All, Unknown}

ConsoleIdle == cpc = "idle"
\* The operations after which nothing of an earlier one is left.
Fresh(op, t) == op = "start" \/ t = All

\* raced: a command came in the middle of a console operation, and no fresh
\* operation has begun since that was not itself overtaken.
Overtakes(op, t) ==
  raced' = IF ~ConsoleIdle THEN TRUE ELSE raced /\ ~Fresh(op, t)

Init ==
  /\ enabled = {} /\ streaming = FALSE /\ nodeState = "IDLE"
  /\ period \in [Channels -> Intervals]
  /\ ready = FALSE
  /\ tpc = "wait" /\ slot = 1 /\ age = [c \in Channels |-> 0]
  /\ cpc = "idle" /\ target = All /\ todo = {}
  /\ raced = FALSE /\ late = [c \in Channels |-> 0]

-----------------------------------------------------------------------------
\* Mutant: the other channels forgotten.
OffAnyway(on) == FALSE

\* find_channel, or all of them.
Matching(t) == IF t = All THEN Channels ELSE {c \in Channels : c = t}
AnyEnabled(on) == on # {}

\* set_enabled(true), and the rate and batch count that the request, the
\* channel's own limits and its native values leave it with; a channel that
\* is enabled has no late packets.
Enable(chosen) ==
  /\ enabled' = enabled \cup chosen
  /\ period' \in {p \in [Channels -> Intervals] :
                   \A c \in Channels \ chosen : p[c] = period[c]}
  /\ late' = [c \in Channels |-> IF c \in chosen THEN 0 ELSE late[c]]

\* start_streaming, then DiscoveryService::set_state.  CMD_START_STREAM does
\* not ask for the feature flag, and an unknown tag starts the engine too.
CommandStart(t) ==
  /\ Enable(Matching(t))
  /\ streaming' = TRUE /\ nodeState' = "STREAMING"
  /\ Overtakes("start", t)
  /\ UNCHANGED <<ready, loopVars, consoleVars>>

CommandStop(t) ==
  /\ enabled' = enabled \ Matching(t)
  /\ streaming' = (IF t = All THEN FALSE ELSE AnyEnabled(enabled'))
  /\ nodeState' = IF streaming' THEN nodeState ELSE "IDLE"
  /\ Overtakes("stop", t)
  /\ UNCHANGED <<period, ready, loopVars, consoleVars, late>>

-----------------------------------------------------------------------------
(* The console, access by access.                                           *)

ConsoleRuns == tpc # "scan"
engineVars == <<period, ready, loopVars>>

\* While FEAT_TELEMETRY_STREAM is off it is refused and does nothing.
ConsoleStart(t) ==
  /\ ConsoleRuns /\ ConsoleIdle
  /\ cpc' = "enabling" /\ target' = t /\ todo' = Matching(t)
  /\ raced' = FALSE
  /\ UNCHANGED <<enabled, streaming, nodeState, late, engineVars>>

ConsoleStop(t) ==
  /\ ConsoleRuns /\ ConsoleIdle
  /\ cpc' = "disabling" /\ target' = t /\ todo' = Matching(t)
  /\ raced' = (raced /\ ~Fresh("stop", t))
  /\ UNCHANGED <<enabled, streaming, nodeState, late, engineVars>>

IsNext(c) == c \in todo /\ \A d \in todo : c <= d

ConsoleEnables(c) ==
  /\ ConsoleRuns /\ cpc = "enabling" /\ IsNext(c)
  /\ Enable({c}) /\ todo' = todo \ {c}
  /\ UNCHANGED <<streaming, nodeState, cpc, target, raced, ready, loopVars>>

ConsoleDisables(c) ==
  /\ ConsoleRuns /\ cpc = "disabling" /\ IsNext(c)
  /\ enabled' = enabled \ {c} /\ todo' = todo \ {c}
  /\ UNCHANGED <<streaming, nodeState, cpc, target, raced, late, engineVars>>

ConsoleEngineOn ==
  /\ ConsoleRuns /\ cpc = "enabling" /\ todo = {}
  /\ streaming' = TRUE /\ cpc' = "started"
  /\ UNCHANGED <<enabled, nodeState, target, todo, raced, late, engineVars>>

ConsoleReportsStreaming ==
  /\ ConsoleRuns /\ cpc = "started"
  /\ nodeState' = "STREAMING" /\ cpc' = "idle" /\ target' = All
  /\ UNCHANGED <<enabled, streaming, todo, raced, late, engineVars>>

\* Stop of all: is_streaming_ cleared.  Stop of one: first the scan for a
\* channel that is still enabled, slot by slot.
ConsoleEngineOff ==
  /\ ConsoleRuns /\ cpc = "disabling" /\ todo = {}
  /\ IF target = All
     THEN streaming' = FALSE /\ cpc' = "stopped" /\ UNCHANGED todo
     ELSE cpc' = "looking" /\ todo' = Channels /\ UNCHANGED streaming
  /\ UNCHANGED <<enabled, nodeState, target, raced, late, engineVars>>

ConsoleLooks(c) ==
  /\ ConsoleRuns /\ cpc = "looking" /\ IsNext(c)
  /\ IF AnyEnabled(enabled \cap {c})
     THEN cpc' = "found" /\ todo' = {}
     ELSE cpc' = cpc /\ todo' = todo \ {c}
  /\ UNCHANGED <<enabled, streaming, nodeState, target, raced, late, engineVars>>

ConsoleStoresAny ==
  /\ ConsoleRuns /\ todo = {} /\ cpc \in {"looking", "found"}
  /\ streaming' = (cpc = "found") /\ cpc' = "stopped"
  /\ UNCHANGED <<enabled, nodeState, target, todo, raced, late, engineVars>>

\* stop_telemetry reads is_streaming_ again.
ConsoleChecks ==
  /\ ConsoleRuns /\ cpc = "stopped"
  /\ cpc' = (IF streaming THEN "idle" ELSE "reporting") /\ target' = All
  /\ UNCHANGED <<enabled, streaming, nodeState, todo, raced, late, engineVars>>

ConsoleReportsIdle ==
  /\ ConsoleRuns /\ cpc = "reporting"
  /\ nodeState' = "IDLE" /\ cpc' = "idle"
  /\ UNCHANGED <<enabled, streaming, target, todo, raced, late, engineVars>>

ConsoleStep ==
  \/ \E t \in Targets : ConsoleStart(t) \/ ConsoleStop(t)
  \/ \E c \in Channels : ConsoleEnables(c) \/ ConsoleDisables(c) \/ ConsoleLooks(c)
  \/ ConsoleEngineOn \/ ConsoleReportsStreaming \/ ConsoleEngineOff
  \/ ConsoleStoresAny \/ ConsoleChecks \/ ConsoleReportsIdle

-----------------------------------------------------------------------------
(* TelemetryService::run.                                                   *)

sharedVars == <<enabled, period, streaming, nodeState, ready, consoleVars, raced>>

EngineStarts ==
  /\ tpc = "wait" /\ ready
  /\ tpc' = "top" /\ age' = [c \in Channels |-> 0]
  /\ UNCHANGED <<slot, late, sharedVars>>

Rests ==
  /\ tpc = "top" /\ ~(streaming /\ ready)
  /\ age' = [c \in Channels |-> 0]
  /\ UNCHANGED <<tpc, slot, late, sharedVars>>

BeginScan ==
  /\ tpc = "top" /\ streaming /\ ready
  /\ tpc' = "scan" /\ slot' = 1
  /\ UNCHANGED <<age, late, sharedVars>>

\* Mutants: one tick more than age ever shows; the engine's flag instead of
\* the channel's.
DueLate(c) == age[c] > period[c]
IsOnAnyway(c) == streaming
Due(c) == age[c] >= period[c]
IsOn(c) == c \in enabled

SkipChannel ==
  /\ tpc = "scan" /\ slot \in Channels
  /\ ~(IsOn(slot) /\ Due(slot))
  /\ slot' = slot + 1
  /\ UNCHANGED <<tpc, age, late, sharedVars>>

\* From here to the network stack's answer the loop looks at nothing else.
BeginPacket ==
  /\ tpc = "scan" /\ slot \in Channels
  /\ IsOn(slot) /\ Due(slot)
  /\ tpc' = "send"
  /\ UNCHANGED <<slot, age, late, sharedVars>>

SendPacket ==
  /\ tpc = "send"
  /\ tpc' = "scan" /\ slot' = slot + 1
  /\ age' = [age EXCEPT ![slot] = 0]
  /\ late' = [late EXCEPT ![slot] = IF slot \in enabled THEN 0 ELSE @ + 1]
  /\ UNCHANGED sharedVars

\* vTaskDelay of one tick.
Sleep ==
  /\ tpc = "scan" /\ slot = N + 1
  /\ tpc' = "top"
  /\ age' = [c \in Channels |-> IF age[c] < Longest THEN age[c] + 1 ELSE age[c]]
  /\ UNCHANGED <<slot, late, sharedVars>>

LoopStep ==
  EngineStarts \/ Rests \/ BeginScan \/ SkipChannel \/ BeginPacket \/ SendPacket \/ Sleep

\* The link goes or an address comes.
NetworkChanges ==
  /\ ready' = ~ready
  /\ UNCHANGED <<enabled, period, streaming, nodeState, loopVars, consoleVars, raced, late>>

Next ==
  \/ \E t \in Targets : CommandStart(t) \/ CommandStop(t)
  \/ ConsoleStep \/ LoopStep \/ NetworkChanges

\* The loop is a task of middle priority below tasks that wait for input.
Spec == Init /\ [][Next]_vars /\ WF_vars(LoopStep)

-----------------------------------------------------------------------------
\* The types of the variables; only registered channels are ever enabled
\* (find_channel), and age within its cap.
TypeOK ==
  /\ enabled \subseteq Channels /\ streaming \in BOOLEAN
  /\ nodeState \in {"IDLE", "STREAMING"}
  /\ ready \in BOOLEAN /\ raced \in BOOLEAN
  /\ tpc \in {"wait", "top", "scan", "send"} /\ slot \in 1 .. N + 1
  /\ tpc = "send" => slot \in Channels
  /\ period \in [Channels -> Intervals] /\ age \in [Channels -> 0 .. Longest]
  /\ cpc \in {"idle", "enabling", "started", "disabling", "looking", "found",
              "stopped", "reporting"}
  /\ target \in Targets /\ todo \subseteq Channels
  /\ late \in [Channels -> Nat]

\* Channels, engine and heartbeat agree whenever the console is between
\* operations, unless a command overtook one of its operations; and then the
\* next start, or stop of all streams, that is not overtaken puts them right.
AgreeUnlessRaced ==
  ConsoleIdle /\ ~raced =>
    /\ enabled # {} => streaming
    /\ nodeState = (IF streaming THEN "STREAMING" ELSE "IDLE")

\* Once a channel is disabled, by whichever task and at whatever point of
\* the loop, at most the packet in hand still leaves.
OnePacketLate == \A c \in Channels : late[c] <= 1

\* A channel that is enabled while the engine and the network are on is sent,
\* or one of the three changes: the rest of the channels cannot starve it.
StreamsFlow ==
  \A c \in Channels :
    (c \in enabled /\ streaming /\ ready) ~>
      ((tpc = "send" /\ slot = c) \/ c \notin enabled \/ ~streaming \/ ~ready)

\* "Stop active data streaming", of a "Specific FourCC tag to stop"
\* (TelemetryService.h:52): when the console has stopped one channel, the
\* streams of the others go on.
StopIsSelective == cpc = "stopped" /\ target # All /\ enabled # {} => streaming
=============================================================================
