--------------------------------- MODULE Cli ---------------------------------
(***************************************************************************)
(* The command line of a node: what ConsoleTask makes of the keys typed on *)
(* the serial console, what CliEngine makes of a line, from there or from  *)
(* CMD_CLI_EXEC, and what SystemController does of it, one command after   *)
(* the other.  (Commands that overtake one another are the subject of      *)
(* Telemetry, CommandServer and OtaService.)  A line is a sequence of      *)
(* words, spaces and control characters; words and control characters that *)
(* no space separates make one token.  Texts that are only shown are left  *)
(* out: an answer is "OK", "ERR", "shown" or none.                         *)
(***************************************************************************)
EXTENDS Streams, Versions

CR == "\r"
LF == "\n"
TAB == "\t"
Space == " "
-----------------------------------------------------------------------------
(* ConsoleTask::run: the line being typed and the lines executed.  Three    *)
(* characters fill the buffer here, 127 there.                              *)

LineSize == 3

KeyPressed(console, key) ==
  CASE key \in {CR, LF} ->
         IF console.line = <<>> THEN console
         ELSE [line |-> <<>>, executed |-> Append(console.executed, console.line)]
    [] key = "DEL" ->
         IF console.line = <<>> THEN console
         ELSE [console EXCEPT !.line = SubSeq(@, 1, Len(@) - 1)]
    [] key \in {"a", "b"} ->
         IF Len(console.line) < LineSize THEN [console EXCEPT !.line = Append(@, key)]
         ELSE console
    [] OTHER -> console
-----------------------------------------------------------------------------
(* execute: stripping, and strtok_r with " ".                               *)

\* Mutant: what ends a line stays in its last word.
StripsSpaces(line) ==
  LET kept == {i \in DOMAIN line : line[i] # Space}
  IN  IF kept = {} THEN <<>>
      ELSE SubSeq(line, CHOOSE i \in kept : \A j \in kept : i <= j,
                        CHOOSE i \in kept : \A j \in kept : i >= j)

\* CR, LF and spaces off the end, then spaces and tabs off the start.
Stripped(line) ==
  LET ends == {i \in DOMAIN line : line[i] \notin {CR, LF, Space}}
      begins == {i \in DOMAIN line : line[i] \notin {Space, TAB}}
  IN  IF ends = {} \/ begins = {} THEN <<>>
      ELSE SubSeq(line, CHOOSE i \in begins : \A j \in begins : i <= j,
                        CHOOSE i \in ends : \A j \in ends : i >= j)

\* The n-th position of a set.
Nth(set, n) == CHOOSE i \in set : Cardinality({j \in set : j <= i}) = n

FirstOf(line) == {i \in DOMAIN line : line[i] # Space /\ (i = 1 \/ line[i - 1] = Space)}
LastOf(line, i) ==
  CHOOSE j \in i .. Len(line) : /\ \A k \in i .. j : line[k] # Space
                                /\ j = Len(line) \/ line[j + 1] = Space
Tokens(line) ==
  LET at(n) == Nth(FirstOf(line), n)
  IN  [n \in 1 .. Cardinality(FirstOf(line)) |-> SubSeq(line, at(n), LastOf(line, at(n)))]

\* What a stream command and the LED take a token for: see Streams.
FourLetters == {"list", "stop", "help"}
Meaning(token) ==
  CASE token \in {<<t>> : t \in DOMAIN StreamTags} -> TagWord(token[1])
    [] token = <<"9">> -> NumberWord(9)
    [] token = <<"10">> -> NumberWord(10)
    [] token = <<"1000">> -> NumberWord(1000)
    [] token = <<"10000">> -> NumberWord(10000)
    [] token = <<"10001">> -> NumberWord(10001)
    [] token \in {<<w>> : w \in FourLetters} -> [len |-> 4, tag |-> 1, number |-> 0]
    [] OTHER -> [len |-> 9, tag |-> 1, number |-> 0]
-----------------------------------------------------------------------------
(* SystemController, and the services behind it.                            *)

\* feature_flags_ starts as the image header has them; the LED's period is
\* that of version 1.0.0.
PoweredUp(features) ==
  [features |-> features, slots |-> Node, engine |-> FALSE, state |-> "IDLE",
   aborted |-> FALSE, led |-> 500, resetting |-> FALSE]

set_feature(node, flag, enable) ==
  [node EXCEPT !.features = IF enable THEN @ \cup {flag} ELSE @ \ {flag}]

start_telemetry(node, req) ==
  [node EXCEPT !.slots = start_streaming(@, req), !.engine = TRUE, !.state = "STREAMING"]

stop_streaming(slots, tag) ==
  LET named == IF tag # 0 THEN find_channel(slots, tag) ELSE DOMAIN slots
  IN  [i \in DOMAIN slots |-> IF i \in named THEN [slots[i] EXCEPT !.enabled = FALSE] ELSE slots[i]]

stop_telemetry(node, tag) ==
  LET slots == stop_streaming(node.slots, tag)
      any_enabled == \E i \in DOMAIN slots : slots[i].enabled
  IN  [node EXCEPT !.slots = slots, !.engine = any_enabled,
                   !.state = IF any_enabled THEN @ ELSE "IDLE"]

set_blink_rate(node, period_ms) == [node EXCEPT !.led = period_ms]
reboot(node) == [node EXCEPT !.resetting = TRUE]
-----------------------------------------------------------------------------
(* The commands: the node after it, and the answer.                         *)

Result(node, answer) == [node |-> node, answer |-> answer]

cmd_feature(node, args) ==
  LET named == Len(args) > 1 /\ Len(args[2]) = 1
      flag == IF named THEN parse_feature_name(args[2][1]) ELSE "NONE"
  IN  IF args = <<>> \/ args[1] = <<"list">> THEN Result(node, "shown")
      ELSE IF flag = "NONE" \/ args[1] \notin {<<"enable">>, <<"disable">>} THEN Result(node, "ERR")
      ELSE Result(set_feature(node, flag, args[1] = <<"enable">>), "OK")

cmd_stream(node, args) ==
  LET words == [i \in 1 .. (IF Len(args) > 3 THEN 2 ELSE Len(args) - 1) |-> Meaning(args[i + 1])]
  IN  IF args = <<>> \/ args[1] = <<"status">> THEN Result(node, "shown")
      ELSE IF args[1] = <<"start">>
           THEN IF "FEAT_TELEMETRY_STREAM" \in node.features
                THEN Result(start_telemetry(node, CliStart(words)), "OK")
                ELSE Result(node, "ERR")
      ELSE IF args[1] = <<"stop">> THEN Result(stop_telemetry(node, CliStopTag(words)), "OK")
      ELSE Result(node, "ERR")

cmd_ota(node, args) ==
  IF args = <<>> \/ args[1] = <<"status">> THEN Result(node, "shown")
  ELSE IF args[1] = <<"abort">> THEN Result([node EXCEPT !.aborted = TRUE], "OK")
  ELSE Result(node, "ERR")

LedPeriods == 10 .. 10000

cmd_led(node, args) ==
  IF args = <<>> THEN Result(node, "shown")
  ELSE LET ms == Meaning(args[1]).number
       IN  IF ms \in LedPeriods THEN Result(set_blink_rate(node, ms), "OK")
           ELSE Result(node, "ERR")

\* What cmd_status shows of the node, and the six features of cmd_feature's list.
cmd_status(node) ==
  [streaming |-> node.engine, unlocked |-> "FEAT_OTA_RAM_STAGING" \in node.features,
   blinking |-> node.led]
FeatureList(node) ==
  [f \in {"FEAT_OTA_RAM_STAGING", "FEAT_TELEMETRY_STREAM", "FEAT_TEMP_SENSOR_DTS",
          "FEAT_ETHERNET_LAN8742", "FEAT_DYNAMIC_RATE", "FEAT_UART_CLI"} |-> f \in node.features]

cmd_reboot(node) == Result(reboot(node), "shown")

Shows == {"help", "?", "version", "info", "status", "time"}

execute(node, line) ==
  LET tokens == Tokens(Stripped(line))
      args == Tail(tokens)
  IN  IF tokens = <<>> THEN Result(node, "none")
      ELSE CASE tokens[1] \in {<<w>> : w \in Shows} -> Result(node, "shown")
             [] tokens[1] = <<"feature">> -> cmd_feature(node, args)
             [] tokens[1] = <<"stream">> -> cmd_stream(node, args)
             [] tokens[1] = <<"ota">> -> cmd_ota(node, args)
             [] tokens[1] = <<"led">> -> cmd_led(node, args)
             [] tokens[1] \in {<<"reboot">>, <<"reset">>} -> cmd_reboot(node)
             [] OTHER -> Result(node, "ERR")
-----------------------------------------------------------------------------
(* Lines of up to four words, sensible or not, and the nodes that two       *)
(* commands make.                                                           *)

FirstWords == Shows \cup {"feature", "stream", "ota", "led", "reboot", "reset", "start"}
SecondWords == {"list", "enable", "disable", "start", "stop", "status", "abort",
                "9", "10", "10000", "10001"}
ThirdWords == {"ota", "telemetry", "CNTR", "STR", "1000", "list"}
Lines ==
  {<<a>> : a \in FirstWords} \cup (FirstWords \X SecondWords)
    \cup (FirstWords \X SecondWords \X ThirdWords)
    \cup ({"stream"} \X {"start", "stop"} \X ThirdWords \X {"10", "CNTR"})

\* The words of a line, each width characters after the last.
Spread(line, width, len) ==
  [i \in 1 .. len |-> IF i % width = 1 THEN line[(i + width - 1) \div width] ELSE Space]
Spaced(line) == Spread(line, 2, 2 * Len(line) - 1)

AfterLine(nodes) ==
  {n \in {execute(node, Spaced(line)).node : node \in nodes, line \in Lines} : ~n.resetting}
Nodes ==
  LET up == {PoweredUp(Flags)} IN AfterLine(up) \cup AfterLine(AfterLine(up))

\* The answers of CliEngine.cpp are true: one that is no OK leaves the node as
\* it was, but for a reboot; an OK changes what the command names and nothing
\* else.
OwnPart(word) ==
  CASE word = "feature" -> {"features"}
    [] word = "stream" -> {"slots", "engine", "state"}
    [] word = "ota" -> {"aborted"}
    [] word = "led" -> {"led"}
    [] word \in {"reboot", "reset"} -> {"resetting"}
    [] OTHER -> {}
AnswersAreTrue ==
  \A node \in Nodes, line \in Lines :
    LET r == execute(node, Spaced(line))
        changed == {f \in DOMAIN node : r.node[f] # node[f]}
    IN  /\ changed \subseteq OwnPart(line[1])
        /\ r.answer # "OK" => changed \subseteq {"resetting"}
        /\ r.answer = "ERR" => changed = {}

\* What heartbeats and status report of a node is what its engine does.
Reported(node) ==
  /\ cmd_status(node).streaming = (node.state = "STREAMING")
  /\ cmd_status(node).unlocked = FeatureList(node)["FEAT_OTA_RAM_STAGING"]
  /\ cmd_status(node).blinking \in LedPeriods
  /\ (\E i \in DOMAIN node.slots : node.slots[i].enabled) => node.engine
StopStopsAll(node) ==
  LET all == execute(node, Spaced(<<"stream", "stop">>)).node
  IN  ~all.engine /\ \A i \in DOMAIN all.slots : ~all.slots[i].enabled
StopUndoes(node) ==
  ~node.engine /\ "FEAT_TELEMETRY_STREAM" \in node.features =>
    LET on == execute(node, Spaced(<<"stream", "start", "CNTR">>)).node
        off == execute(on, Spaced(<<"stream", "stop", "CNTR">>)).node
    IN  on.engine /\ off = node
LockedIsFreed(node, f) ==
  LET locked == execute(node, Spaced(<<"feature", "disable", f>>)).node
      freed == execute(locked, Spaced(<<"feature", "enable", f>>)).node
  IN  FeatureNames[f] \notin locked.features /\ freed.features = node.features \cup {FeatureNames[f]}

\* Commands in sequence keep the node consistent (SystemController.cpp): what
\* heartbeats and status report is what the engine does, a stop of all stops
\* all, a stop of a channel undoes its start, and a release of a feature its
\* lock.
CommandsCompose ==
  \A node \in Nodes :
    /\ Reported(node) /\ StopStopsAll(node) /\ StopUndoes(node)
    /\ \A f \in {"ota", "telemetry"} : LockedIsFreed(node, f)

\* To CliEngine::execute (CliEngine.cpp) spaces around and between words, and CR
\* or LF behind them, mean nothing.
SpacingIsFree ==
  \A line \in Lines, before \in {<<>>, <<Space>>, <<TAB, Space>>},
     behind \in {<<>>, <<Space>>, <<CR, LF>>, <<LF, Space, CR>>} :
    LET doubled == Spread(line, 3, 3 * Len(line))
        node == PoweredUp(Flags)
        plain == execute(node, Spaced(line))
    IN  /\ execute(node, before \o Spaced(line) \o behind) = plain
        /\ execute(node, before \o doubled \o behind) = plain

\* The console after each key, from an empty line.
Edit(keys) ==
  LET after[i \in 0 .. Len(keys)] ==
        IF i = 0 THEN [line |-> <<>>, executed |-> <<>>] ELSE KeyPressed(after[i - 1], keys[i])
  IN  after

\* The keys that count: the ends of lines, and letters that no DEL of their
\* line has taken back.
Pressed(keys, i, j, set) == Cardinality({k \in i .. j : keys[k] \in set})
Erased(keys, i, n) ==
  \E j \in i .. n : /\ Pressed(keys, i, j, {CR}) = 0
                    /\ Pressed(keys, i, j, {"a", "b"}) = Pressed(keys, i, j, {"DEL"})
Left(keys, n) ==
  {i \in 1 .. n : keys[i] = CR \/ (keys[i] \in {"a", "b"} /\ ~Erased(keys, i, n))}
Corrected(keys) ==
  LET left == Left(keys, Len(keys)) IN [n \in 1 .. Cardinality(left) |-> keys[Nth(left, n)]]

\* A line typed with corrections (ConsoleTask.cpp) is, unless it was too long
\* for a moment, the line of the keys that no DEL has taken back, and however a
\* terminal ends its lines each is executed once, if anything is left of it.
Keys == {"a", "b", "DEL", CR, TAB}
Typed == UNION {[1 .. n -> Keys] : n \in 0 .. 5}
EditingMeans ==
  \A keys \in Typed :
    LET typed == Edit(keys)[Len(keys)]
        plain == Edit(Corrected(keys))[Len(Corrected(keys))]
    IN  /\ (\A i \in DOMAIN keys : Len(Edit(keys)[i].line) < LineSize) => typed = plain
        /\ <<>> \notin {typed.executed[i] : i \in DOMAIN typed.executed}
        /\ KeyPressed(KeyPressed(typed, CR), LF) = KeyPressed(typed, CR)

\* What an operator at the console or a host with CMD_CLI_EXEC relies on of
\* ConsoleTask, CliEngine and SystemController: see the four parts.
CommandsMean ==
  /\ AnswersAreTrue
  /\ CommandsCompose
  /\ SpacingIsFree
  /\ EditingMeans

\* A console that waits for a line does what the next ones say (ConsoleTask.cpp,
\* CliEngine.cpp, SystemController.cpp): lines are what was typed, answers are
\* true, a command touches only its own part of the node, and stops and locks
\* undo starts and releases.
CommandsHold == cpc = "idle" => CommandsMean
=============================================================================
