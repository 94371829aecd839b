---------------------------- MODULE CommandServer ----------------------------
(***************************************************************************)
(* The TCP server of CommandService (components/net/services/              *)
(* CommandService.cpp) and the hosts that upload through it.  One task     *)
(* serves one connection at a time; it closes a connection after every     *)
(* message that is not CMD_OTA_DATA, and when the client stays silent for  *)
(* the receive timeout.  Everyone else waits in the listen queue.          *)
(*                                                                         *)
(* A host goes through the requests of scripts/ota_updater.py (node info,  *)
(* BEGIN, the DATA chunks in order, END), one at a time.  The script keeps *)
(* to one connection; a host connects again when the server has closed,    *)
(* and goes on.  Hosts in Slow may outlast the receive timeout, send half  *)
(* a frame, or lose their connection.  A host without an image asks what   *)
(* the run allows, again and again.                                        *)
(*                                                                         *)
(* The feature word of SystemController is set from here, by CMD_CLI_EXEC, *)
(* and from the serial console, which the command task preempts between    *)
(* its load of the word and its store.                                     *)
(***************************************************************************)
EXTENDS Peers, OtaService, FiniteSets

CONSTANTS
  Hosts, Slow,
  Goal,        \* the image each host uploads, <<>> for none
  Questions,   \* what hosts without an image ask
  Consoles,    \* what the console sets: "ota", or another flag
  Backlog,     \* TCP_DEFAULT_LISTEN_BACKLOG
  MaxAborts    \* bound: how often lwIP runs out of connection blocks

ASSUME HostsAssumption == Slow \subseteq Hosts
ASSUME GoalAssumption == Goal \in [Hosts -> Images \cup {<<>>}]
ASSUME BacklogAssumption == Backlog \in Nat \ {0} /\ MaxAborts \in Nat
ASSUME QuestionsAssumption ==
  Questions \subseteq {"info", "bad", "lock", "unlock", "abort", "reboot"} /\ Consoles \subseteq {"ota", "other"}

VARIABLES
  srv,      \* where run and handleClient are
  queue,    \* connections not yet accepted
  link,     \* each host's connection as the host has it
  step,     \* how many requests of its script each host has had answered
  phase,    \* what the host is doing
  sent,     \* its request on the wire, unread by the server
  reply,    \* the answer on the wire, unread by the host
  aborts,   \* accept errors so far
  held,     \* {FEAT_OTA_RAM_STAGING of the word the console has loaded}
  wanted    \* history: {the last setting of that flag}, or {} in doubt

nodeVars == <<serviceVars, ram, block>>
hostVars == <<link, step, phase, sent, reply>>
shellVars == <<held, wanted>>
netVars == <<srv, conn, queue, aborts>>
serverVars == <<nodeVars, hostVars, netVars, shellVars>>

Uploads(h) == Goal[h] # <<>>
Steps(h) == Len(Goal[h]) + 3
Request(h) ==
  IF step[h] = 0 THEN "info"
  ELSE IF step[h] = 1 THEN "begin"
  ELSE IF step[h] + 1 = Steps(h) THEN "end" ELSE "data"
Chunk(h) == step[h] - 1

ServerInit ==
  /\ ServiceInit /\ ram = [c \in Chunks |-> Zero] /\ block = NoBlock
  /\ srv = "down" /\ conn = {} /\ queue = <<>> /\ aborts = 0
  /\ link = [h \in Hosts |-> "none"] /\ step = [h \in Hosts |-> 0]
  /\ phase = [h \in Hosts |-> "ready"]
  /\ sent = [h \in Hosts |-> "none"] /\ reply = [h \in Hosts |-> "none"]
  /\ held = {} /\ wanted = {TRUE}

-----------------------------------------------------------------------------
(* CommandService::run and handleClient.                                    *)

Listen ==
  /\ srv = "down" /\ srv' = "accept"
  /\ UNCHANGED <<nodeVars, hostVars, conn, queue, aborts, shellVars>>

Accept ==
  /\ srv = "accept" /\ queue # <<>>
  /\ conn' = {Head(queue)} /\ queue' = Tail(queue) /\ srv' = "read"
  /\ link' = [link EXCEPT ![Head(queue)] = IF @ = "queued" THEN "served" ELSE @]
  /\ UNCHANGED <<nodeVars, step, phase, sent, reply, aborts, shellVars>>

\* Where a connection goes that the node drops: a host that already left
\* does not notice.
Dropped(h) == IF link[h] = "gone" THEN "none" ELSE "closed"

\* netconn_accept fails: the listening socket is deleted, with all that
\* waited on it, and made again after 100 ms.
\* Mutant: the queue survives its socket.
AcceptFailsLeaky ==
  /\ srv = "accept" /\ aborts < MaxAborts
  /\ aborts' = aborts + 1 /\ srv' = "down"
  /\ link' = [h \in Hosts |-> IF \E i \in DOMAIN queue : queue[i] = h THEN Dropped(h) ELSE link[h]]
  /\ UNCHANGED <<nodeVars, conn, queue, step, phase, sent, reply, shellVars>>

AcceptFails ==
  /\ srv = "accept" /\ aborts < MaxAborts
  /\ aborts' = aborts + 1 /\ srv' = "down" /\ queue' = <<>>
  /\ link' = [h \in Hosts |-> IF \E i \in DOMAIN queue : queue[i] = h THEN Dropped(h) ELSE link[h]]
  /\ UNCHANGED <<nodeVars, conn, step, phase, sent, reply, shellVars>>

\* netconn_recv gives nothing for 2 s (1 s after a DATA), in the middle of a
\* frame or between two; or the peer left.
\* Mutant of TimesOut: a receive without a timeout.
NeverTimesOut(h) == FALSE
TimesOut(h) == h \in Slow /\ sent[h] \in {"none", "half"}

ReadFails(h) ==
  /\ srv = "read" /\ h \in conn /\ cmd = "recv"
  /\ link[h] = "gone" \/ TimesOut(h)
  /\ srv' = "close"
  /\ UNCHANGED <<nodeVars, hostVars, conn, queue, aborts, shellVars>>

\* The answers of processCommand: what becomes of the session, and whether
\* it is positive.
\* Node info, stream list, OTA status and the CLI commands that only report
\* are answered with what is there.
InfoAnswered(ok) == ok /\ UNCHANGED nodeVars
\* A frame with a wrong magic, one that is too long, and an unknown command.
BadRefused(ok) == ~ok /\ UNCHANGED nodeVars
BeginAnswered(h, ok) ==
  \/ ok /\ \E auto \in BOOLEAN : AcceptBegin(Goal[h], auto)
  \/ ~ok /\ RefuseBegin(Goal[h])
DataAnswered(h, ok) ==
  \/ /\ StoreData(Chunk(h), Goal[h][Chunk(h)])
     /\ ok = (HeaderKind(staging', Chunk(h)) \in {"none", "ok"})
  \/ ~ok /\ RefuseData(Chunk(h), TRUE)
  \/ ~ok /\ state # "RECEIVING" /\ UNCHANGED nodeVars
EndAnswered(h, ok) ==
  \/ ok /\ \E auto \in BOOLEAN : EndVerified(auto)
  \/ ~ok /\ (EndMismatch \/ EndBusy)

\* FEAT_OTA_RAM_STAGING in the word after set_feature.
\* Mutant: the flag is only ever joined to the word.
OnlyJoined(word, enable) == word \/ enable
WithFlag(word, enable) == enable

\* "feature enable ota" and "feature disable ota".
FeatureSet(enable) ==
  /\ otaEnabled' = WithFlag(otaEnabled, enable) /\ cmd = "recv"
  /\ wanted' = IF held = {} THEN {enable} ELSE {}
  /\ UNCHANGED <<state, lastError, expected, bytesWritten, autoReboot, rebootPending,
                 staging, cmd, aborting, ram, block, held>>

\* Every command but CMD_OTA_DATA ends its connection.
ClosesAfter(request) == request # "data"

Answered(h, ok) ==
  \/ /\ UNCHANGED shellVars
     /\ \/ sent[h] = "info" /\ InfoAnswered(ok)
        \/ sent[h] = "bad" /\ BadRefused(ok)
        \/ sent[h] = "begin" /\ BeginAnswered(h, ok)
        \/ sent[h] = "data" /\ DataAnswered(h, ok)
        \/ sent[h] = "end" /\ EndAnswered(h, ok)
        \/ sent[h] = "abort" /\ ok /\ AbortCommand
        \/ sent[h] = "reboot" /\ ok /\ RebootCommand
  \/ ok /\ \E enable \in BOOLEAN :
            sent[h] = (IF enable THEN "unlock" ELSE "lock") /\ FeatureSet(enable)

\* sendAckNack.
Answer(ok) == IF ok THEN "ok" ELSE "nack"

Process(h) ==
  /\ srv = "read" /\ h \in conn /\ cmd = "recv"
  /\ \E ok \in BOOLEAN : Answered(h, ok) /\ reply' = [reply EXCEPT ![h] = Answer(ok)]
  /\ sent' = [sent EXCEPT ![h] = "none"]
  /\ srv' = IF ClosesAfter(sent[h]) THEN "close" ELSE "read"
  /\ UNCHANGED <<link, step, phase, conn, queue, aborts>>

\* After the answer to END: reset in 300 ms, or carry on.
EndWritten ==
  /\ EndAcknowledged
  /\ UNCHANGED <<hostVars, netVars, shellVars>>

\* netconn_close and netconn_delete; a request not read is lost.
CloseClient(h) ==
  /\ srv = "close" /\ h \in conn /\ cmd = "recv"
  /\ srv' = "accept" /\ conn' = {}
  /\ link' = [link EXCEPT ![h] = Dropped(h)]
  /\ sent' = [sent EXCEPT ![h] = "none"]
  /\ UNCHANGED <<nodeVars, step, phase, reply, queue, aborts, shellVars>>

\* The reset ends every connection.  The node comes back with its session
\* forgotten; the block is gone, unless the bootloader could not install it.
Reset ==
  /\ cmd \in {"endDelay", "rebootDelay"} /\ ServiceStart
  /\ block' \in {block, NoBlock} /\ UNCHANGED ram
  /\ srv' = "down" /\ conn' = {} /\ queue' = <<>>
  /\ link' = [h \in Hosts |-> IF link[h] = "none" THEN "none" ELSE Dropped(h)]
  /\ sent' = [h \in Hosts |-> "none"]
  /\ held' = {} /\ wanted' = {TRUE}
  /\ UNCHANGED <<step, phase, reply, aborts>>

-----------------------------------------------------------------------------
(* The hosts.                                                               *)

Connect(h) ==
  /\ link[h] = "none" /\ phase[h] = "ready" /\ srv # "down"
  /\ Len(queue) < Backlog
  /\ queue' = Append(queue, h) /\ link' = [link EXCEPT ![h] = "queued"]
  /\ UNCHANGED <<nodeVars, step, phase, sent, reply, srv, conn, aborts, shellVars>>

\* The rest of half a frame comes too late, if at all.
Frames(h) ==
  (IF Uploads(h) THEN {Request(h)} ELSE Questions) \cup (IF h \in Slow THEN {"half"} ELSE {})

Ask(h) ==
  /\ link[h] \in {"queued", "served"} /\ phase[h] = "ready"
  /\ phase' = [phase EXCEPT ![h] = "waiting"]
  /\ \E f \in Frames(h) : sent' = [sent EXCEPT ![h] = f]
  /\ UNCHANGED <<nodeVars, link, step, reply, netVars, shellVars>>

\* After a refusal, and when it is done, the script closes its connection and
\* exits.
Closes(h) == IF link[h] \in {"queued", "served"} THEN "gone" ELSE "none"

Hear(h) ==
  /\ link[h] # "gone" /\ reply[h] # "none"
  /\ reply' = [reply EXCEPT ![h] = "none"]
  /\ step' = [step EXCEPT ![h] =
                IF Uploads(h) /\ reply[h] = "ok" THEN @ + 1 ELSE @]
  /\ phase' = [phase EXCEPT ![h] =
                 IF ~Uploads(h) THEN "ready"
                 ELSE IF reply[h] = "nack" THEN "failed"
                 ELSE IF step'[h] = Steps(h) THEN "done" ELSE "ready"]
  /\ link' = [link EXCEPT ![h] = IF phase'[h] = "ready" THEN @ ELSE Closes(h)]
  /\ UNCHANGED <<nodeVars, sent, netVars, shellVars>>

\* The host finds its connection closed, with no answer left to read.
SeeClose(h) ==
  /\ link[h] = "closed" /\ reply[h] = "none" /\ phase[h] \in {"ready", "waiting"}
  /\ link' = [link EXCEPT ![h] = "none"]
  /\ phase' = [phase EXCEPT ![h] = "ready"]
  /\ sent' = [sent EXCEPT ![h] = "none"]
  /\ UNCHANGED <<nodeVars, step, reply, netVars, shellVars>>

GoAway(h) ==
  /\ h \in Slow /\ link[h] \in {"queued", "served"}
  /\ link' = [link EXCEPT ![h] = "gone"] /\ phase' = [phase EXCEPT ![h] = "ready"]
  /\ sent' = [sent EXCEPT ![h] = "none"] /\ reply' = [reply EXCEPT ![h] = "none"]
  /\ UNCHANGED <<nodeVars, step, netVars, shellVars>>

-----------------------------------------------------------------------------
(* The console: set_feature, a load and a store of the whole word.          *)

ConsoleLoads ==
  /\ "other" \in Consoles /\ held = {}
  /\ held' = {otaEnabled}
  /\ UNCHANGED <<nodeVars, hostVars, netVars, wanted>>

otherVars == <<state, lastError, expected, bytesWritten, autoReboot, rebootPending,
               staging, cmd, aborting, ram, block, hostVars, netVars>>

ConsoleStores ==
  /\ held # {} /\ otaEnabled' \in held
  /\ held' = {}
  /\ UNCHANGED <<otherVars, wanted>>

\* Of the flag itself, the console's own setting stands whatever it loaded.
ConsoleSets(enable) ==
  /\ "ota" \in Consoles /\ held = {}
  /\ otaEnabled' = WithFlag(otaEnabled, enable) /\ wanted' = {enable}
  /\ UNCHANGED <<otherVars, held>>

ConsoleStep == ConsoleLoads \/ ConsoleStores \/ \E enable \in BOOLEAN : ConsoleSets(enable)

ServerStep ==
  \/ Listen \/ Accept \/ EndWritten \/ Reset
  \/ \E h \in Hosts : ReadFails(h) \/ Process(h) \/ CloseClient(h)
HostStep(h) == Connect(h) \/ Ask(h) \/ Hear(h) \/ SeeClose(h)

ServerNext ==
  ServerStep \/ AcceptFails \/ ConsoleStep \/ \E h \in Hosts : HostStep(h) \/ GoAway(h)

\* The command task runs whenever it can; a host that is not slow carries on
\* with its script.
ServerSpec ==
  /\ ServerInit /\ [][ServerNext]_serverVars
  /\ WF_serverVars(ServerStep)
  /\ \A h \in Hosts \ Slow : WF_serverVars(HostStep(h))

-----------------------------------------------------------------------------
\* The types of the connections, and that they agree: exactly the queued and
\* abandoned ones wait, each once.
ServerTypeOK ==
  /\ srv \in {"down", "accept", "read", "close"}
  /\ Cardinality(conn) = (IF srv \in {"read", "close"} THEN 1 ELSE 0)
  /\ \A i, j \in DOMAIN queue : queue[i] = queue[j] => i = j
  /\ \A h \in Hosts :
       /\ link[h] \in {"none", "queued", "served", "closed", "gone"}
       /\ link[h] = "queued" => \E i \in DOMAIN queue : queue[i] = h
       /\ link[h] = "served" => h \in conn
       /\ sent[h] # "none" => phase[h] = "waiting" /\ reply[h] = "none"

\* However the uploads of several hosts interleave, a positive answer to a
\* CMD_OTA_END means that one host's image is pending, complete and unmixed.
EndIsWhole ==
  [][ \A h \in Hosts :
        sent[h] = "end" /\ reply[h] = "none" /\ reply'[h] = "ok"
          => \E g \in Hosts : block' = PendingBlock(Goal[g]) /\ Holds(ram', Goal[g]) ]_serverVars

\* A host that is told OK for its CMD_OTA_END has its own image pending,
\* the one PayloadOtaEnd.image_crc32 names ("Final full image CRC32").
EndNamesImage ==
  [][ \A h \in Hosts :
        sent[h] = "end" /\ reply[h] = "none" /\ reply'[h] = "ok"
          => block' = PendingBlock(Goal[h]) ]_serverVars

\* A node that an operator has locked against updates ("feature disable
\* ota", from a host or from the console) begins no session until it is
\* unlocked or reset, unless a console was just setting another flag of the
\* same word; and then the next setting counts again.
LockKeepsOut ==
  [][ \A h \in Hosts :
        sent[h] = "begin" /\ reply[h] = "none" /\ reply'[h] = "ok" => wanted # {FALSE} ]_serverVars

\* However long others keep silent or how they leave, whoever is in the
\* queue is accepted or dropped (with the socket, or by a reset): one mute
\* client cannot keep the server.
EveryoneIsServed == \A h \in Hosts : link[h] = "queued" ~> link[h] # "queued"

\* A host that is alone in uploading to a node that is not locked, connects
\* again when it has to and answers in time gets its image acknowledged.
UploadCompletes ==
  \A h \in Hosts \ Slow : Uploads(h) /\ []otaEnabled => <>(phase[h] = "done")
=============================================================================
