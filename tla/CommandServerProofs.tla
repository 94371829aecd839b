------------------------- MODULE CommandServerProofs -------------------------
(***************************************************************************)
(* The TCP server with any number of hosts, images and chunks, any listen  *)
(* queue and any commands: its connections agree with its queue, a         *)
(* positive answer to CMD_OTA_END means a whole image, and a lock keeps    *)
(* uploads out.                                                            *)
(***************************************************************************)
EXTENDS CommandServer, FiniteSetTheorems, TLAPS

USE HostsAssumption, GoalAssumption, BacklogAssumption, QuestionsAssumption,
    StagingAssumption
    DEF HostsAssumption, GoalAssumption, BacklogAssumption, QuestionsAssumption,
        StagingAssumption

Requests == {"none", "half", "info", "bad", "begin", "data", "end", "abort", "reboot",
             "lock", "unlock"}

HostTypes ==
  /\ link \in [Hosts -> {"none", "queued", "served", "closed", "gone"}]
  /\ step \in [Hosts -> Nat]
  /\ phase \in [Hosts -> {"ready", "waiting", "failed", "done"}]
  /\ sent \in [Hosts -> Requests]
  /\ reply \in [Hosts -> {"none", "ok", "nack"}]

\* A host asks one thing at a time.
OneAtATime ==
  \A h \in Hosts :
    /\ sent[h] # "none" => phase[h] = "waiting" /\ reply[h] = "none"
    /\ reply[h] # "none" => phase[h] = "waiting"

\* The server has a connection exactly while it reads from one.
OneServed ==
  /\ queue \in Seq(Hosts)
  /\ srv \in {"down", "accept", "read", "close"}
  /\ \/ srv \in {"down", "accept"} /\ conn = {}
     \/ srv \in {"read", "close"} /\ \E h \in Hosts : conn = {h}

InQueue(h) == \E i \in DOMAIN queue : queue[i] = h
Once == \A i, j \in DOMAIN queue : queue[i] = queue[j] => i = j

\* Each host waits, is served, or does neither; one that has gone may still
\* do the one or the other.
Agree ==
  \A h \in Hosts :
    /\ link[h] = "queued" => InQueue(h)
    /\ InQueue(h) => link[h] \in {"queued", "gone"} /\ h \notin conn
    /\ link[h] = "served" => h \in conn
    /\ h \in conn => link[h] \in {"served", "gone"}

\* The image a session receives is that of some host, and fits.
Announced ==
  state = "RECEIVING" => Fits(expected) /\ \E g \in Hosts : expected = Goal[g]

\* The last setting of the flag stands unless the console may store another.
LockStands ==
  wanted # {} => wanted = {otaEnabled} /\ (held = {} \/ held = {otaEnabled})

ServerInv ==
  HostTypes /\ OneAtATime /\ OneServed /\ Once /\ Agree /\ Announced /\ LockStands

-----------------------------------------------------------------------------
(* The queue.                                                               *)

LEMMA TailOfQueue ==
  ASSUME queue \in Seq(Hosts), queue # <<>>
  PROVE  /\ Head(queue) \in Hosts /\ Head(queue) = queue[1] /\ 1 \in DOMAIN queue
         /\ Tail(queue) \in Seq(Hosts)
         /\ \A i \in DOMAIN Tail(queue) : i + 1 \in DOMAIN queue /\ Tail(queue)[i] = queue[i + 1]
         /\ \A i \in DOMAIN queue : i # 1 => i - 1 \in DOMAIN Tail(queue)
         /\ DOMAIN queue \subseteq Nat /\ DOMAIN Tail(queue) \subseteq Nat \ {0}
OBVIOUS

LEMMA AppendToQueue ==
  ASSUME queue \in Seq(Hosts), NEW h \in Hosts
  PROVE  /\ Append(queue, h) \in Seq(Hosts)
         /\ \A i \in DOMAIN queue : i \in DOMAIN Append(queue, h) /\ Append(queue, h)[i] = queue[i]
         /\ \A i \in DOMAIN Append(queue, h) : i \in DOMAIN queue \/ i = Len(queue) + 1
         /\ Len(queue) + 1 \in DOMAIN Append(queue, h)
         /\ Append(queue, h)[Len(queue) + 1] = h
OBVIOUS

LEMMA EmptyQueue == <<>> \in Seq(Hosts) /\ \A i \in DOMAIN <<>> : FALSE
OBVIOUS

LEMMA ServerInvInit == ServerInit => ServerInv
<1>1. SUFFICES ASSUME ServerInit PROVE ServerInv
  OBVIOUS
<1>2. HostTypes /\ OneAtATime
  BY <1>1 DEF ServerInit, HostTypes, OneAtATime, Requests
<1>3. OneServed /\ Once /\ Agree
  BY <1>1, EmptyQueue DEF ServerInit, OneServed, Once, Agree, InQueue
<1>4. Announced /\ LockStands
  BY <1>1 DEF ServerInit, ServiceInit, Announced, LockStands
<1> QED
  BY <1>2, <1>3, <1>4 DEF ServerInv

-----------------------------------------------------------------------------
(* The steps of the server.                                                 *)

\* A step that keeps the session and the flag.
LEMMA SameNode ==
  ASSUME ServerInv, UNCHANGED <<nodeVars, shellVars>>
  PROVE  Announced' /\ LockStands'
BY DEF ServerInv, nodeVars, serviceVars, shellVars, Announced, LockStands, Fits

LEMMA SameHosts ==
  ASSUME ServerInv, UNCHANGED hostVars
  PROVE  HostTypes' /\ OneAtATime'
BY DEF ServerInv, hostVars, HostTypes, OneAtATime

LEMMA SameQueue ==
  ASSUME ServerInv, UNCHANGED <<srv, conn, queue, link>>
  PROVE  OneServed' /\ Once' /\ Agree'
BY DEF ServerInv, OneServed, Once, Agree, InQueue

LEMMA ListenStep ==
  ASSUME ServerInv, Listen
  PROVE  ServerInv'
<1>1. OneServed' /\ Once' /\ Agree'
  BY DEF Listen, ServerInv, OneServed, Once, Agree, InQueue, hostVars
<1> QED
  BY <1>1, SameNode, SameHosts DEF Listen, ServerInv

LEMMA AcceptStep ==
  ASSUME ServerInv, Accept
  PROVE  ServerInv'
<1> DEFINE a == Head(queue)
<1>1. /\ srv = "accept" /\ queue # <<>> /\ conn' = {a} /\ queue' = Tail(queue) /\ srv' = "read"
      /\ link' = [link EXCEPT ![a] = IF @ = "queued" THEN "served" ELSE @]
      /\ UNCHANGED <<nodeVars, step, phase, sent, reply, shellVars>>
  BY DEF Accept
<1>2. conn = {} /\ queue \in Seq(Hosts)
  BY <1>1 DEF ServerInv, OneServed
<1>3. a \in Hosts /\ InQueue(a)
  BY <1>1, <1>2, TailOfQueue DEF InQueue
<1>4. link[a] \in {"queued", "gone"}
  BY <1>3 DEF ServerInv, Agree
<1>5. HostTypes' /\ OneAtATime'
  BY <1>1 DEF ServerInv, HostTypes, OneAtATime
<1>6. OneServed'
  BY <1>1, <1>2, <1>3, TailOfQueue DEF OneServed
<1>7. Once'
  BY <1>1, <1>2, TailOfQueue DEF ServerInv, Once
<1>8. \A h \in Hosts : InQueue(h)' <=> InQueue(h) /\ h # a
  <2>1. TAKE h \in Hosts
  <2>2. InQueue(h)' => InQueue(h) /\ h # a
    BY <1>1, <1>2, TailOfQueue DEF ServerInv, Once, InQueue
  <2>3. InQueue(h) /\ h # a => InQueue(h)'
    <3>1. SUFFICES ASSUME NEW i \in DOMAIN queue, queue[i] = h, h # a PROVE InQueue(h)'
      BY DEF InQueue
    <3>2. i # 1 /\ i \in Nat
      BY <1>1, <1>2, <3>1, TailOfQueue
    <3>3. i - 1 \in DOMAIN Tail(queue) /\ Tail(queue)[i - 1] = queue[(i - 1) + 1]
      BY <1>1, <1>2, <3>2, TailOfQueue
    <3>4. (i - 1) + 1 = i
      BY <3>2
    <3> QED
      BY <1>1, <3>1, <3>3, <3>4 DEF InQueue
  <2> QED
    BY <2>2, <2>3
<1>9. Agree'
  <2>1. SUFFICES ASSUME NEW h \in Hosts
                 PROVE  /\ link'[h] = "queued" => InQueue(h)'
                        /\ InQueue(h)' => link'[h] \in {"queued", "gone"} /\ h \notin conn'
                        /\ link'[h] = "served" => h \in conn'
                        /\ h \in conn' => link'[h] \in {"served", "gone"}
    BY DEF Agree
  <2>2. CASE h = a
    BY <1>1, <1>3, <1>4, <1>8, <2>2 DEF ServerInv, HostTypes
  <2>3. CASE h # a
    BY <1>1, <1>2, <1>8, <2>3 DEF ServerInv, HostTypes, Agree
  <2> QED
    BY <2>2, <2>3
<1> QED
  BY <1>1, <1>5, <1>6, <1>7, <1>9, SameNode DEF ServerInv

LEMMA AcceptFailsStep ==
  ASSUME ServerInv, AcceptFails
  PROVE  ServerInv'
<1>1. /\ srv = "accept" /\ srv' = "down" /\ queue' = <<>>
      /\ link' = [h \in Hosts |-> IF InQueue(h) THEN Dropped(h) ELSE link[h]]
      /\ UNCHANGED <<nodeVars, conn, step, phase, sent, reply, shellVars>>
  BY DEF AcceptFails, InQueue
<1>2. HostTypes' /\ OneAtATime'
  BY <1>1 DEF ServerInv, HostTypes, OneAtATime, Dropped
<1>3. conn = {} /\ OneServed' /\ Once' /\ \A h \in Hosts : ~InQueue(h)'
  BY <1>1, EmptyQueue DEF ServerInv, OneServed, Once, InQueue
<1>4. Agree'
  BY <1>1, <1>3 DEF ServerInv, Agree, Dropped
<1> QED
  BY <1>1, <1>2, <1>3, <1>4, SameNode DEF ServerInv

LEMMA ResetStep ==
  ASSUME ServerInv, Reset
  PROVE  ServerInv'
<1>1. /\ srv' = "down" /\ conn' = {} /\ queue' = <<>> /\ ServiceStart
      /\ link' = [h \in Hosts |-> IF link[h] = "none" THEN "none" ELSE Dropped(h)]
      /\ sent' = [h \in Hosts |-> "none"] /\ held' = {} /\ wanted' = {TRUE}
      /\ UNCHANGED <<step, phase, reply>>
  BY DEF Reset
<1>2. HostTypes' /\ OneAtATime'
  BY <1>1 DEF ServerInv, HostTypes, OneAtATime, Dropped, Requests
<1>3. OneServed' /\ Once' /\ \A h \in Hosts : ~InQueue(h)'
  BY <1>1, EmptyQueue DEF OneServed, Once, InQueue
<1>4. Agree'
  BY <1>1, <1>3 DEF Agree, Dropped
<1>5. Announced' /\ LockStands'
  BY <1>1 DEF ServiceStart, Announced, LockStands
<1> QED
  BY <1>2, <1>3, <1>4, <1>5 DEF ServerInv

LEMMA CloseClientStep ==
  ASSUME ServerInv, NEW h \in Hosts, CloseClient(h)
  PROVE  ServerInv'
<1>1. /\ srv' = "accept" /\ conn' = {} /\ conn = {h} /\ UNCHANGED queue
      /\ link' = [link EXCEPT ![h] = Dropped(h)] /\ sent' = [sent EXCEPT ![h] = "none"]
      /\ UNCHANGED <<nodeVars, step, phase, reply, shellVars>>
  BY DEF CloseClient, ServerInv, OneServed
<1>2. HostTypes' /\ OneAtATime'
  BY <1>1 DEF ServerInv, HostTypes, OneAtATime, Dropped, Requests
<1>3. OneServed' /\ Once' /\ Agree'
  BY <1>1 DEF ServerInv, HostTypes, OneServed, Once, Agree, InQueue, Dropped
<1> QED
  BY <1>1, <1>2, <1>3, SameNode DEF ServerInv

LEMMA ReadFailsStep ==
  ASSUME ServerInv, NEW h \in Hosts, ReadFails(h)
  PROVE  ServerInv'
<1>1. OneServed' /\ Once' /\ Agree'
  BY DEF ReadFails, ServerInv, OneServed, Once, Agree, InQueue, hostVars
<1> QED
  BY <1>1, SameNode, SameHosts DEF ReadFails, ServerInv

LEMMA EndWrittenStep ==
  ASSUME ServerInv, EndWritten
  PROVE  ServerInv'
<1>1. Announced' /\ LockStands'
  BY DEF EndWritten, EndAcknowledged, sessionVars, shellVars, ServerInv, Announced, LockStands
<1> QED
  BY <1>1, SameHosts, SameQueue DEF EndWritten, netVars, hostVars, ServerInv

LEMMA ProcessStep ==
  ASSUME ServerInv, NEW h \in Hosts, Process(h)
  PROVE  ServerInv'
<1>1. /\ srv = "read" /\ h \in conn /\ srv' \in {"close", "read"}
      /\ sent' = [sent EXCEPT ![h] = "none"]
      /\ UNCHANGED <<link, step, phase, conn, queue, aborts>>
  BY DEF Process
<1>2. PICK ok \in BOOLEAN : Answered(h, ok) /\ reply' = [reply EXCEPT ![h] = Answer(ok)]
  BY DEF Process
<1>3. sent[h] # "none" /\ phase[h] = "waiting"
  BY <1>2 DEF Answered, ServerInv, OneAtATime
<1>4. HostTypes' /\ OneAtATime'
  BY <1>1, <1>2, <1>3 DEF Answer, ServerInv, HostTypes, OneAtATime, Requests
<1>5. OneServed' /\ Once' /\ Agree'
  BY <1>1 DEF ServerInv, OneServed, Once, Agree, InQueue
<1>6. Announced'
  <2>1. CASE \E enable \in BOOLEAN : FeatureSet(enable)
    BY <2>1 DEF FeatureSet, ServerInv, Announced, Fits
  <2>2. CASE BeginAnswered(h, ok)
    <3>1. CASE \E auto \in BOOLEAN : AcceptBegin(Goal[h], auto)
      BY <3>1 DEF AcceptBegin, Announced, Fits
    <3>2. CASE RefuseBegin(Goal[h])
      BY <3>2 DEF RefuseBegin, sessionVars, ServerInv, Announced, Fits
    <3> QED
      BY <2>2, <3>1, <3>2 DEF BeginAnswered
  <2>3. CASE InfoAnswered(ok) \/ BadRefused(ok)
    BY <2>3 DEF InfoAnswered, BadRefused, nodeVars, serviceVars, ServerInv, Announced, Fits
  <2>4. CASE DataAnswered(h, ok)
    BY <2>4 DEF DataAnswered, StoreData, RefuseData, sessionVars, nodeVars, serviceVars, ServerInv,
       Announced, Fits
  <2>5. CASE EndAnswered(h, ok)
    BY <2>5 DEF EndAnswered, EndVerified, EndMismatch, EndBusy, sessionVars, ServerInv, Announced, Fits
  <2>6. CASE AbortCommand \/ RebootCommand
    BY <2>6 DEF AbortCommand, RebootCommand, sessionVars, ServerInv, Announced, Fits
  <2> QED
    BY <1>2, <2>1, <2>2, <2>3, <2>4, <2>5, <2>6 DEF Answered
<1>7. LockStands'
  <2>1. CASE \E enable \in BOOLEAN : FeatureSet(enable)
    BY <2>1 DEF FeatureSet, WithFlag, ServerInv, LockStands
  <2>2. CASE UNCHANGED shellVars /\ UNCHANGED otaEnabled
    BY <2>2 DEF shellVars, ServerInv, LockStands
  <2>3. UNCHANGED otaEnabled \/ \E enable \in BOOLEAN : FeatureSet(enable)
    BY <1>2 DEF Answered, InfoAnswered, BadRefused, BeginAnswered, AcceptBegin, RefuseBegin,
       DataAnswered, StoreData, RefuseData, EndAnswered, EndVerified, EndMismatch, EndBusy,
       AbortCommand, RebootCommand, sessionVars, nodeVars, serviceVars
  <2> QED
    BY <1>2, <2>1, <2>2, <2>3 DEF Answered
<1> QED
  BY <1>4, <1>5, <1>6, <1>7 DEF ServerInv

-----------------------------------------------------------------------------
(* The steps of the hosts and of the console.                               *)

LEMMA ConnectStep ==
  ASSUME ServerInv, NEW h \in Hosts, Connect(h)
  PROVE  ServerInv'
<1>1. /\ link[h] = "none" /\ queue' = Append(queue, h) /\ link' = [link EXCEPT ![h] = "queued"]
      /\ UNCHANGED <<nodeVars, step, phase, sent, reply, srv, conn, shellVars>>
  BY DEF Connect
<1>2. queue \in Seq(Hosts) /\ ~InQueue(h) /\ h \notin conn
  BY <1>1 DEF ServerInv, OneServed, Agree
<1>3. HostTypes' /\ OneAtATime'
  BY <1>1 DEF ServerInv, HostTypes, OneAtATime
<1>4. OneServed'
  BY <1>1, <1>2, AppendToQueue DEF ServerInv, OneServed
<1>5. Once'
  BY <1>1, <1>2, AppendToQueue DEF ServerInv, Once, InQueue
<1>6. \A g \in Hosts : InQueue(g)' <=> InQueue(g) \/ g = h
  BY <1>1, <1>2, AppendToQueue DEF InQueue
<1>7. Agree'
  BY <1>1, <1>2, <1>6 DEF ServerInv, HostTypes, Agree
<1> QED
  BY <1>1, <1>3, <1>4, <1>5, <1>7, SameNode DEF ServerInv

LEMMA AskStep ==
  ASSUME ServerInv, NEW h \in Hosts, Ask(h)
  PROVE  ServerInv'
<1>1. /\ phase[h] = "ready" /\ phase' = [phase EXCEPT ![h] = "waiting"]
      /\ UNCHANGED <<nodeVars, link, step, reply, srv, conn, queue, shellVars>>
  BY DEF Ask, netVars
<1>2. PICK f \in Frames(h) : sent' = [sent EXCEPT ![h] = f]
  BY DEF Ask
<1>3. f \in Requests
  BY DEF Frames, Request, Requests
<1>4. HostTypes' /\ OneAtATime'
  BY <1>1, <1>2, <1>3 DEF ServerInv, HostTypes, OneAtATime
<1> QED
  BY <1>1, <1>4, SameNode, SameQueue DEF ServerInv

LEMMA HearStep ==
  ASSUME ServerInv, NEW h \in Hosts, Hear(h)
  PROVE  ServerInv'
<1>1. /\ link[h] # "gone" /\ reply[h] # "none" /\ reply' = [reply EXCEPT ![h] = "none"]
      /\ UNCHANGED <<nodeVars, sent, srv, conn, queue, shellVars>>
  BY DEF Hear, netVars
<1>2. sent[h] = "none"
  BY <1>1 DEF ServerInv, OneAtATime
<1>3. PICK n, p, l :
           /\ step' = [step EXCEPT ![h] = n] /\ n \in {step[h], step[h] + 1}
           /\ phase' = [phase EXCEPT ![h] = p] /\ p \in {"ready", "failed", "done"}
           /\ link' = [link EXCEPT ![h] = l] /\ l \in {link[h], Closes(h)}
  BY DEF Hear, ServerInv, HostTypes
<1>4. HostTypes' /\ OneAtATime'
  <2>1. l \in {"none", "queued", "served", "closed", "gone"}
    BY <1>3 DEF Closes, ServerInv, HostTypes
  <2>2. HostTypes'
    BY <1>1, <1>3, <2>1 DEF ServerInv, HostTypes
  <2>3. OneAtATime'
    BY <1>1, <1>2, <1>3 DEF ServerInv, HostTypes, OneAtATime
  <2> QED
    BY <2>2, <2>3
<1>5. OneServed' /\ Once' /\ Agree'
  BY <1>1, <1>3 DEF Closes, ServerInv, HostTypes, OneServed, Once, Agree, InQueue
<1> QED
  BY <1>1, <1>4, <1>5, SameNode DEF ServerInv

LEMMA LeavingStep ==
  ASSUME ServerInv, NEW h \in Hosts, SeeClose(h) \/ GoAway(h)
  PROVE  ServerInv'
<1>1. /\ sent' = [sent EXCEPT ![h] = "none"]
      /\ UNCHANGED <<nodeVars, step, srv, conn, queue, shellVars>>
  BY DEF SeeClose, GoAway, netVars
<1>2. PICK l, p :
           /\ link' = [link EXCEPT ![h] = l] /\ phase' = [phase EXCEPT ![h] = p]
           /\ reply' = [reply EXCEPT ![h] = "none"] /\ p \in {"ready", "failed"}
           /\ \/ link[h] = "closed" /\ l = "none"
              \/ link[h] \in {"queued", "served"} /\ l = "gone"
  BY DEF SeeClose, GoAway, ServerInv, HostTypes
<1>3. HostTypes' /\ OneAtATime'
  BY <1>1, <1>2 DEF ServerInv, HostTypes, OneAtATime, Requests
<1>4. OneServed' /\ Once' /\ Agree'
  BY <1>1, <1>2 DEF ServerInv, HostTypes, OneServed, Once, Agree, InQueue
<1> QED
  BY <1>1, <1>3, <1>4, SameNode DEF ServerInv

LEMMA ConsoleKeeps ==
  ASSUME ServerInv, ConsoleStep
  PROVE  ServerInv'
<1>1. UNCHANGED <<state, expected, hostVars, netVars>>
  BY DEF ConsoleStep, ConsoleLoads, ConsoleStores, ConsoleSets, nodeVars, serviceVars, otherVars
<1>2. Announced'
  BY <1>1 DEF ServerInv, Announced, Fits
<1>3. LockStands'
  BY DEF ConsoleStep, ConsoleLoads, ConsoleStores, ConsoleSets, nodeVars, serviceVars, WithFlag,
     ServerInv, LockStands
<1> QED
  BY <1>1, <1>2, <1>3, SameHosts, SameQueue DEF netVars, hostVars, ServerInv

LEMMA ServerInvStep == ServerInv /\ [ServerNext]_serverVars => ServerInv'
<1>1. SUFFICES ASSUME ServerInv, [ServerNext]_serverVars PROVE ServerInv'
  OBVIOUS
<1>2. CASE UNCHANGED serverVars
  BY <1>1, <1>2, SameNode, SameHosts, SameQueue DEF serverVars, netVars, hostVars, ServerInv
<1>3. CASE ServerStep
  BY <1>1, <1>3, ListenStep, AcceptStep, EndWrittenStep, ResetStep, ReadFailsStep, ProcessStep,
     CloseClientStep DEF ServerStep
<1>4. CASE \E h \in Hosts : HostStep(h) \/ GoAway(h)
  BY <1>1, <1>4, ConnectStep, AskStep, HearStep, LeavingStep DEF HostStep
<1> QED
  BY <1>1, <1>2, <1>3, <1>4, AcceptFailsStep, ConsoleKeeps DEF ServerNext

\* The connections, the queue, the session and the lock agree, always.
THEOREM ServerInvariant == ServerSpec => []ServerInv
BY ServerInvInit, ServerInvStep, PTL DEF ServerSpec

-----------------------------------------------------------------------------
\* Exactly the queued and the abandoned connections wait, each once, and one
\* at most is being served, for any number of hosts.
THEOREM ServerTypes == ServerSpec => []ServerTypeOK
<1>1. ServerInv => ServerTypeOK
  <2>1. SUFFICES ASSUME ServerInv PROVE ServerTypeOK
    OBVIOUS
  <2>2. Cardinality(conn) = IF srv \in {"read", "close"} THEN 1 ELSE 0
    BY <2>1, FS_EmptySet, FS_Singleton DEF ServerInv, OneServed
  <2> QED
    BY <2>1, <2>2, ZenonT(40) DEF ServerInv, HostTypes, OneAtATime, OneServed, Once, Agree, InQueue,
       ServerTypeOK
<1> QED
  BY <1>1, ServerInvariant, PTL

\* What leads to a positive answer.
LEMMA PositiveAnswer ==
  ASSUME ServerInv, [ServerNext]_serverVars, NEW h \in Hosts,
         reply[h] = "none", reply'[h] = "ok"
  PROVE  Answered(h, TRUE)
<1>1. PICK g \in Hosts : Process(g)
  <2>1. UNCHANGED serverVars \/ Listen \/ Accept \/ AcceptFails \/ EndWritten \/ Reset \/ ConsoleStep
          => reply' = reply
    BY DEF Listen, Accept, AcceptFails, EndWritten, Reset, ConsoleStep, ConsoleLoads, ConsoleStores,
       ConsoleSets, otherVars, hostVars, serverVars
  <2>2. ASSUME NEW g \in Hosts, ReadFails(g) \/ CloseClient(g) \/ Connect(g) \/ Ask(g)
        PROVE  reply' = reply
    BY <2>2 DEF ReadFails, CloseClient, Connect, Ask, hostVars
  <2>3. ASSUME NEW g \in Hosts, Hear(g) \/ SeeClose(g) \/ GoAway(g)
        PROVE  reply' = reply \/ reply' = [reply EXCEPT ![g] = "none"]
    BY <2>3 DEF Hear, SeeClose, GoAway
  <2>4. reply' # reply /\ \A g \in Hosts : reply' # [reply EXCEPT ![g] = "none"]
    BY DEF ServerInv, HostTypes
  <2> QED
    BY <2>1, <2>2, <2>3, <2>4 DEF ServerNext, ServerStep, HostStep
<1>2. PICK ok \in BOOLEAN : Answered(g, ok) /\ reply' = [reply EXCEPT ![g] = Answer(ok)]
  BY <1>1 DEF Process
<1>3. g = h /\ ok = TRUE
  BY <1>2 DEF Answer, ServerInv, HostTypes
<1> QED
  BY <1>2, <1>3

\* However many hosts upload at the same time, an acknowledged CMD_OTA_END
\* leaves the whole image of one of them pending.
THEOREM AcknowledgedIsWhole == ServerSpec => EndIsWhole
<1>1. ASSUME ServerInv, [ServerNext]_serverVars, NEW h \in Hosts,
             sent[h] = "end", reply[h] = "none", reply'[h] = "ok"
      PROVE  \E g \in Hosts : block' = PendingBlock(Goal[g]) /\ Holds(ram', Goal[g])
  <2>1. PICK auto \in BOOLEAN : EndVerified(auto)
    BY <1>1, PositiveAnswer DEF Answered, EndAnswered
  <2>2. PICK g \in Hosts : expected = Goal[g] /\ Fits(expected)
    BY <1>1, <2>1 DEF EndVerified, ServerInv, Announced
  <2>3. Holds(Cleaned, expected)
    <3>1. \A c \in 1 .. Len(expected) : c \in Chunks /\ Cleaned[c] = staging[c]
      BY <2>2 DEF Cleaned, Chunks, Fits
    <3> QED
      BY <2>1, <3>1 DEF EndVerified, Verified, Holds
  <2> QED
    BY <2>1, <2>2, <2>3 DEF EndVerified
<1>2. ServerInv /\ [ServerNext]_serverVars
        => [ \A h \in Hosts :
               sent[h] = "end" /\ reply[h] = "none" /\ reply'[h] = "ok"
                 => \E g \in Hosts : block' = PendingBlock(Goal[g]) /\ Holds(ram', Goal[g]) ]_serverVars
  BY <1>1
<1> QED
  BY <1>2, ServerInvariant, PTL DEF ServerSpec, EndIsWhole

\* A lock keeps every upload out, whoever set it and whatever else asks.
THEOREM LockIsKept == ServerSpec => LockKeepsOut
<1>1. ASSUME ServerInv, [ServerNext]_serverVars, NEW h \in Hosts,
             sent[h] = "begin", reply[h] = "none", reply'[h] = "ok"
      PROVE  wanted # {FALSE}
  <2>1. PICK auto \in BOOLEAN : AcceptBegin(Goal[h], auto)
    BY <1>1, PositiveAnswer DEF Answered, BeginAnswered
  <2> QED
    BY <1>1, <2>1 DEF AcceptBegin, ServerInv, LockStands
<1>2. ServerInv /\ [ServerNext]_serverVars
        => [ \A h \in Hosts :
               sent[h] = "begin" /\ reply[h] = "none" /\ reply'[h] = "ok"
                 => wanted # {FALSE} ]_serverVars
  BY <1>1
<1> QED
  BY <1>2, ServerInvariant, PTL DEF ServerSpec, LockKeepsOut

-----------------------------------------------------------------------------
(* The server and its hosts, seen through the variables of OtaService:      *)
(* whatever connects, asks, leaves or is reset, the service goes through    *)
(* steps of ServiceNext, which OtaUpdate composes with the bootloader.      *)

\* A host asks what its script has come to, or what it may ask; a script that
\* has gone past CMD_OTA_BEGIN has an image that fits, and one that is over has
\* closed its connection.
Script(h) ==
  /\ sent[h] \notin {"none", "half"} =>
       sent[h] \in (IF Uploads(h) THEN {Request(h)} ELSE Questions)
  /\ Uploads(h) =>
       /\ step[h] <= Steps(h)
       /\ phase[h] \in {"ready", "waiting"} => step[h] < Steps(h)
       /\ step[h] > 1 \/ (step[h] = 1 /\ reply[h] = "ok") => Fits(Goal[h])
  /\ phase[h] \in {"failed", "done"} => link[h] \in {"none", "gone"}
FlagTypes == otaEnabled \in BOOLEAN /\ held \subseteq BOOLEAN
ScriptInv == FlagTypes /\ \A h \in Hosts : Script(h)

\* The node is reset: the service starts again, and the block is gone unless
\* it could not be installed.
Restart ==
  /\ cmd \in {"endDelay", "rebootDelay"} /\ ServiceStart
  /\ block' \in {block, NoBlock} /\ UNCHANGED ram

ServiceAlone ==
  /\ ServiceInit /\ ram = [c \in Chunks |-> Zero] /\ block = NoBlock
  /\ [][ServiceNext \/ Restart]_nodeVars

LEMMA GoalLemma ==
  ASSUME NEW h \in Hosts, Uploads(h)
  PROVE  /\ Goal[h] \in Images /\ Goal[h] \in Seq(Bytes) /\ Len(Goal[h]) \in Nat \ {0}
         /\ Steps(h) \in Nat /\ Steps(h) = Len(Goal[h]) + 3
<1>1. Goal[h] \in Images /\ Goal[h] \in Seq(Bytes) /\ Goal[h] # <<>>
  BY ImagesAssumption DEF Uploads
<1> QED
  BY <1>1 DEF Steps

\* What a host has asked, the server knows how far its script has come.
LEMMA AskedLemma ==
  ASSUME ServerInv, ScriptInv, NEW h \in Hosts, sent[h] \in {"begin", "data", "end"}
  PROVE  /\ Uploads(h) /\ phase[h] = "waiting" /\ step[h] \in Nat
         /\ sent[h] = "begin" => step[h] = 1
         /\ sent[h] = "data" => Chunk(h) \in 1 .. Len(Goal[h]) /\ Chunk(h) \in Chunks
<1>1. Uploads(h) /\ sent[h] = Request(h)
  BY DEF ScriptInv, Script
<1>2. phase[h] = "waiting" /\ step[h] \in Nat /\ step[h] < Steps(h)
  BY <1>1 DEF ServerInv, OneAtATime, HostTypes, ScriptInv, Script
<1>3. sent[h] = "begin" => step[h] = 1
  BY <1>1 DEF Request
<1>4. ASSUME sent[h] = "data" PROVE Chunk(h) \in 1 .. Len(Goal[h]) /\ Chunk(h) \in Chunks
  <2>1. step[h] > 1 /\ step[h] + 1 # Steps(h)
    BY <1>1, <1>2, <1>4 DEF Request
  <2>2. Chunk(h) \in 1 .. Len(Goal[h])
    BY <1>1, <1>2, <2>1, GoalLemma DEF Chunk
  <2>3. Len(Goal[h]) <= StagingChunks
    <3>1. Fits(Goal[h])
      BY <1>1, <2>1 DEF ScriptInv, Script
    <3> QED
      BY <3>1 DEF Fits, Chunks
  <2> QED
    BY <1>1, <2>2, <2>3, GoalLemma DEF Chunks
<1> QED
  BY <1>1, <1>2, <1>3, <1>4

LEMMA ScriptInit == ServerInit => ScriptInv
<1>1. SUFFICES ASSUME ServerInit PROVE ScriptInv
  OBVIOUS
<1>2. ASSUME NEW h \in Hosts PROVE Script(h)
  <2>1. Uploads(h) => step[h] <= Steps(h) /\ step[h] < Steps(h)
    BY <1>1, GoalLemma DEF ServerInit
  <2> QED
    BY <1>1, <2>1 DEF ServerInit, Script
<1> QED
  BY <1>1, <1>2 DEF ServerInit, ServiceInit, FlagTypes, ScriptInv

LEMMA HostScript ==
  ASSUME ServerInv, ScriptInv, NEW h \in Hosts, HostStep(h) \/ GoAway(h)
  PROVE  \A g \in Hosts : Script(g)'
<1> SUFFICES ASSUME NEW g \in Hosts PROVE Script(g)'
  OBVIOUS
<1>1. Script(g) /\ Script(h)
  BY DEF ScriptInv
<1>2. CASE Connect(h)
  BY <1>1, <1>2 DEF Connect, ServerInv, HostTypes, Script, Request, Uploads, Steps, Fits
<1>3. CASE Ask(h)
  <2>1. PICK f \in Frames(h) : sent' = [sent EXCEPT ![h] = f]
    BY <1>3 DEF Ask
  <2>2. /\ phase' = [phase EXCEPT ![h] = "waiting"] /\ phase[h] = "ready"
        /\ UNCHANGED <<link, step, reply>>
    BY <1>3 DEF Ask
  <2>3. f \in (IF Uploads(h) THEN {Request(h)} ELSE Questions) \cup {"half"}
    BY DEF Frames
  <2>4. Request(g)' = Request(g)
    BY <2>2 DEF Request, Steps
  <2> QED
    BY <1>1, <2>1, <2>2, <2>3, <2>4 DEF ServerInv, HostTypes, Script, Uploads, Steps, Fits
<1>4. CASE Hear(h)
  <2>1. /\ reply[h] # "none" /\ reply' = [reply EXCEPT ![h] = "none"]
        /\ step' = [step EXCEPT ![h] = IF Uploads(h) /\ reply[h] = "ok" THEN step[h] + 1 ELSE step[h]]
        /\ UNCHANGED sent
    BY <1>4 DEF Hear
  <2>2. sent[h] = "none" /\ phase[h] = "waiting"
    BY <2>1 DEF ServerInv, OneAtATime
  <2>3. /\ \A i \in Hosts \ {h} : phase'[i] = phase[i] /\ link'[i] = link[i]
        /\ phase'[h] = IF ~Uploads(h) THEN "ready"
                       ELSE IF reply[h] = "nack" THEN "failed"
                       ELSE IF step'[h] = Steps(h) THEN "done" ELSE "ready"
        /\ link'[h] = IF phase'[h] = "ready" THEN link[h] ELSE Closes(h)
    BY <1>4 DEF Hear, ServerInv, HostTypes
  <2>4. CASE g # h
    BY <1>1, <2>1, <2>3, <2>4 DEF ServerInv, HostTypes, Script, Request, Uploads, Steps, Fits
  <2>5. CASE g = h
    <3>1. sent'[h] = "none" /\ (phase'[h] \in {"failed", "done"} => link'[h] \in {"none", "gone"})
      BY <2>1, <2>2, <2>3 DEF Closes
    <3>2. ASSUME Uploads(h)
          PROVE  /\ step'[h] <= Steps(h)
                 /\ phase'[h] \in {"ready", "waiting"} => step'[h] < Steps(h)
                 /\ step'[h] > 1 \/ (step'[h] = 1 /\ reply'[h] = "ok") => Fits(Goal[h])
      <4>1. step[h] \in Nat /\ step[h] < Steps(h) /\ Steps(h) \in Nat
        BY <1>1, <2>2, <3>2, GoalLemma DEF Script, ServerInv, HostTypes
      <4>2. reply[h] \in {"ok", "nack"} /\ step'[h] = (IF reply[h] = "ok" THEN step[h] + 1 ELSE step[h])
        BY <2>1, <3>2 DEF ServerInv, HostTypes
      <4>3. step'[h] <= Steps(h) /\ (phase'[h] \in {"ready", "waiting"} => step'[h] < Steps(h))
        BY <2>3, <3>2, <4>1, <4>2
      <4>4. step[h] > 1 \/ (step[h] = 1 /\ reply[h] = "ok") => Fits(Goal[h])
        BY <1>1, <3>2 DEF Script
      <4>5. reply'[h] = "none"
        BY <2>1 DEF ServerInv, HostTypes
      <4> QED
        BY <4>1, <4>2, <4>3, <4>4, <4>5
    <3> QED
      BY <2>5, <3>1, <3>2 DEF Script, Uploads, Steps, Fits
  <2> QED
    BY <2>4, <2>5
<1>5. CASE SeeClose(h) \/ GoAway(h)
  <2>1. PICK l, p :
             /\ link' = [link EXCEPT ![h] = l] /\ phase' = [phase EXCEPT ![h] = p]
             /\ reply' = [reply EXCEPT ![h] = "none"] /\ sent' = [sent EXCEPT ![h] = "none"]
             /\ p \in {"ready", "failed"} /\ l \in {"none", "gone"}
             /\ link[h] \in {"closed", "queued", "served"} /\ UNCHANGED step
    BY <1>5 DEF SeeClose, GoAway, ServerInv, HostTypes
  <2>2. phase[h] \in {"ready", "waiting"}
    BY <1>1, <2>1 DEF Script, ServerInv, HostTypes
  <2> QED
    BY <1>1, <2>1, <2>2 DEF ServerInv, HostTypes, Script, Request, Uploads, Steps, Fits
<1> QED
  BY <1>2, <1>3, <1>4, <1>5 DEF HostStep

LEMMA ProcessScript ==
  ASSUME ServerInv, ScriptInv, NEW h \in Hosts, Process(h)
  PROVE  \A g \in Hosts : Script(g)'
<1> SUFFICES ASSUME NEW g \in Hosts PROVE Script(g)'
  OBVIOUS
<1>1. /\ sent' = [sent EXCEPT ![h] = "none"] /\ UNCHANGED <<link, step, phase>>
  BY DEF Process
<1>2. PICK ok \in BOOLEAN : Answered(h, ok) /\ reply' = [reply EXCEPT ![h] = Answer(ok)]
  BY DEF Process
<1>3. Script(g) /\ Script(h)
  BY DEF ScriptInv
<1>4. CASE g # h
  BY <1>1, <1>2, <1>3, <1>4 DEF ServerInv, HostTypes, Script, Request, Uploads, Steps, Fits
<1>5. CASE g = h
  <2>1. ASSUME Uploads(h), step[h] = 1, reply'[h] = "ok" PROVE Fits(Goal[h])
    <3>1. ok = TRUE
      BY <1>2, <2>1 DEF Answer, ServerInv, HostTypes
    <3>2. sent[h] = "begin"
      BY <1>2, <1>3, <2>1 DEF Answered, Script, Request
    <3> QED
      BY <1>2, <3>1, <3>2 DEF Answered, BeginAnswered, AcceptBegin
  <2>2. sent'[h] = "none"
    BY <1>1 DEF ServerInv, HostTypes
  <2> QED
    BY <1>1, <1>3, <1>5, <2>1, <2>2 DEF Script, Uploads, Steps, Fits
<1> QED
  BY <1>4, <1>5

LEMMA OtherScript ==
  ASSUME ServerInv, ScriptInv,
         \/ UNCHANGED serverVars
         \/ Listen \/ Accept \/ AcceptFails \/ EndWritten \/ Reset \/ ConsoleStep
         \/ \E h \in Hosts : ReadFails(h) \/ CloseClient(h)
  PROVE  \A g \in Hosts : Script(g)'
<1> SUFFICES ASSUME NEW g \in Hosts PROVE Script(g)'
  OBVIOUS
<1>1. UNCHANGED <<step, phase, reply>>
  BY DEF Listen, Accept, AcceptFails, EndWritten, Reset, ConsoleStep, ConsoleLoads, ConsoleStores,
     ConsoleSets, otherVars, ReadFails, CloseClient, hostVars, serverVars
<1>2. sent'[g] \in {sent[g], "none"}
  BY ZenonT(40) DEF Listen, Accept, AcceptFails, EndWritten, Reset, ConsoleStep, ConsoleLoads, ConsoleStores,
     ConsoleSets, otherVars, ReadFails, CloseClient, hostVars, serverVars, ServerInv, HostTypes
<1>3. link[g] \in {"none", "gone"} => link'[g] \in {"none", "gone"}
  <2>1. CASE Accept
    <3>1. queue \in Seq(Hosts) /\ queue # <<>>
      BY <2>1 DEF Accept, ServerInv, OneServed
    <3> QED
      BY <2>1, <3>1, TailOfQueue DEF Accept, ServerInv, HostTypes
  <2>2. CASE AcceptFails
    <3>1. link'[g] = IF InQueue(g) THEN Dropped(g) ELSE link[g]
      BY <2>2 DEF AcceptFails, InQueue
    <3> QED
      BY <3>1 DEF Dropped, ServerInv, Agree
  <2>3. CASE Reset
    <3>1. link'[g] = IF link[g] = "none" THEN "none" ELSE Dropped(g)
      BY <2>3 DEF Reset
    <3> QED
      BY <3>1 DEF Dropped
  <2>4. ASSUME NEW h \in Hosts, CloseClient(h)
        PROVE  link[g] \in {"none", "gone"} => link'[g] \in {"none", "gone"}
    <3>1. h \in conn /\ link'[g] = IF g = h THEN Dropped(h) ELSE link[g]
      BY <2>4 DEF CloseClient, ServerInv, HostTypes
    <3> QED
      BY <3>1 DEF Dropped, ServerInv, Agree
  <2>5. CASE ~(Accept \/ AcceptFails \/ Reset \/ \E h \in Hosts : CloseClient(h))
    BY <2>5 DEF Listen, EndWritten, ConsoleStep, ConsoleLoads, ConsoleStores, ConsoleSets, otherVars,
       ReadFails, hostVars, serverVars
  <2> QED
    BY <2>1, <2>2, <2>3, <2>4, <2>5
<1> QED
  BY <1>1, <1>2, <1>3 DEF ScriptInv, Script, Request, Uploads, Steps, Fits

LEMMA FlagStep ==
  ASSUME ServerInv, ScriptInv, [ServerNext]_serverVars
  PROVE  FlagTypes'
<1>1. CASE ConsoleStep
  BY <1>1 DEF ConsoleStep, ConsoleLoads, ConsoleStores, ConsoleSets, otherVars, nodeVars, serviceVars,
     WithFlag, ScriptInv, FlagTypes
<1>2. CASE Reset
  BY <1>2 DEF Reset, ServiceStart, FlagTypes
<1>3. ASSUME NEW h \in Hosts, Process(h)
      PROVE  FlagTypes'
  <2>1. PICK ok \in BOOLEAN : Answered(h, ok)
    BY <1>3 DEF Process
  <2> QED
    BY <2>1 DEF Answered, InfoAnswered, BadRefused, BeginAnswered, AcceptBegin, RefuseBegin,
       DataAnswered, StoreData, RefuseData, EndAnswered, EndVerified, EndMismatch, EndBusy,
       AbortCommand, RebootCommand, FeatureSet, WithFlag, sessionVars, nodeVars, serviceVars,
       shellVars, ScriptInv, FlagTypes
<1>4. ASSUME UNCHANGED <<otaEnabled, held>>
      PROVE  FlagTypes'
  BY <1>4 DEF ScriptInv, FlagTypes
<1>5. CASE UNCHANGED serverVars \/ Listen \/ Accept \/ AcceptFails \/ EndWritten
  BY <1>4, <1>5 DEF Listen, Accept, AcceptFails, EndWritten, EndAcknowledged, sessionVars, nodeVars,
     serviceVars, shellVars, serverVars
<1>6. ASSUME NEW h \in Hosts, ReadFails(h) \/ CloseClient(h) \/ HostStep(h) \/ GoAway(h)
      PROVE  FlagTypes'
  BY <1>4, <1>6 DEF ReadFails, CloseClient, HostStep, Connect, Ask, Hear, SeeClose, GoAway,
     nodeVars, serviceVars, shellVars
<1> QED
  BY <1>1, <1>2, <1>3, <1>5, <1>6 DEF ServerNext, ServerStep

LEMMA ScriptStep ==
  ASSUME ServerInv, ScriptInv, [ServerNext]_serverVars
  PROVE  ScriptInv'
<1>1. \A g \in Hosts : Script(g)'
  BY HostScript, ProcessScript, OtherScript DEF ServerNext, ServerStep
<1> QED
  BY <1>1, FlagStep DEF ScriptInv

-----------------------------------------------------------------------------
LEMMA ProcessServes ==
  ASSUME ServerInv, ScriptInv, NEW h \in Hosts, Process(h)
  PROVE  [ServiceNext]_nodeVars
<1>1. PICK ok \in BOOLEAN : Answered(h, ok)
  BY DEF Process
<1>2. CASE \E enable \in BOOLEAN : FeatureSet(enable)
  BY <1>2 DEF FeatureSet, WithFlag, ServiceNext, SetOtaFeature, nodeVars, serviceVars
<1>3. CASE sent[h] = "begin" /\ BeginAnswered(h, ok)
  <2>1. Goal[h] \in Images
    BY <1>3, AskedLemma, GoalLemma
  <2> QED
    BY <1>3, <2>1 DEF BeginAnswered, ServiceNext
<1>4. CASE sent[h] = "data" /\ DataAnswered(h, ok)
  <2>1. Chunk(h) \in 1 .. Len(Goal[h]) /\ Chunk(h) \in Chunks
    BY <1>4, AskedLemma
  <2>2. Goal[h] \in Seq(Bytes)
    BY <1>4, AskedLemma, GoalLemma
  <2>3. Goal[h][Chunk(h)] \in Bytes
    BY <2>1, <2>2
  <2>4. Chunk(h) \in 1 .. StagingChunks + 1
    BY <2>1 DEF Chunks
  <2>5. CASE StoreData(Chunk(h), Goal[h][Chunk(h)])
    BY <2>1, <2>3, <2>5 DEF ServiceNext
  <2>6. CASE RefuseData(Chunk(h), TRUE)
    BY <2>4, <2>6 DEF ServiceNext
  <2> QED
    BY <1>4, <2>5, <2>6 DEF DataAnswered
<1>5. CASE EndAnswered(h, ok) \/ AbortCommand \/ RebootCommand
  BY <1>5 DEF EndAnswered, ServiceNext
<1>6. CASE InfoAnswered(ok) \/ BadRefused(ok)
  BY <1>6 DEF InfoAnswered, BadRefused
<1> QED
  BY <1>1, <1>2, <1>3, <1>4, <1>5, <1>6 DEF Answered

LEMMA ConsoleServes ==
  ASSUME ServerInv, ScriptInv, ConsoleStep
  PROVE  [ServiceNext]_nodeVars
<1>1. CASE ConsoleLoads
  BY <1>1 DEF ConsoleLoads
<1>2. CASE UNCHANGED otherVars /\ otaEnabled' \in BOOLEAN
  BY <1>2 DEF otherVars, ServiceNext, SetOtaFeature, nodeVars, serviceVars
<1>3. ConsoleStores \/ (\E enable \in BOOLEAN : ConsoleSets(enable))
        => UNCHANGED otherVars /\ otaEnabled' \in BOOLEAN
  BY DEF ConsoleStores, ConsoleSets, WithFlag, ScriptInv, FlagTypes
<1> QED
  BY <1>1, <1>2, <1>3 DEF ConsoleStep

LEMMA ServiceStep ==
  ASSUME ServerInv, ScriptInv, [ServerNext]_serverVars
  PROVE  [ServiceNext \/ Restart]_nodeVars
<1>1. CASE Reset
  BY <1>1 DEF Reset, Restart
<1>2. CASE EndWritten
  BY <1>2 DEF EndWritten, ServiceNext
<1>3. CASE UNCHANGED serverVars \/ Listen \/ Accept \/ AcceptFails
  BY <1>3 DEF Listen, Accept, AcceptFails, serverVars
<1>4. ASSUME NEW h \in Hosts, ReadFails(h) \/ CloseClient(h) \/ HostStep(h) \/ GoAway(h)
      PROVE  UNCHANGED nodeVars
  BY <1>4 DEF ReadFails, CloseClient, HostStep, Connect, Ask, Hear, SeeClose, GoAway
<1> QED
  BY <1>1, <1>2, <1>3, <1>4, ProcessServes, ConsoleServes DEF ServerNext, ServerStep

LEMMA ScriptInvariant == ServerSpec => []ScriptInv
BY ScriptInit, ScriptStep, ServerInvariant, PTL DEF ServerSpec

\* However many hosts connect, ask out of turn, fall silent, leave and come
\* back, and however the console overtakes them, what becomes of the service is
\* a behaviour of OtaService (which OtaUpdate proves safe together with the
\* bootloader), interrupted by the resets its commands cause.
THEOREM ServerImplementsService == ServerSpec => ServiceAlone
<1>1. ServerInit => ServiceInit /\ ram = [c \in Chunks |-> Zero] /\ block = NoBlock
  BY DEF ServerInit
<1> QED
  BY <1>1, ServiceStep, ScriptInvariant, ServerInvariant, PTL DEF ServerSpec, ServiceAlone

-----------------------------------------------------------------------------
\* As long as the service is READY the whole image of the last session is
\* pending, in RAM and in the cache, whatever other hosts ask meanwhile.
ReadyIsPending ==
  state = "READY" =>
    block = PendingBlock(expected) /\ Holds(ram, expected) /\ Holds(staging, expected)

\* A reset after CMD_OTA_END is decided by the very answer that made the
\* service READY, and nothing comes between.
ResetIsDue ==
  /\ rebootPending => state = "READY" /\ cmd \in {"ack", "endDelay"}
  /\ cmd = "endDelay" => rebootPending

LEMMA SameReady ==
  ASSUME ReadyIsPending, ResetIsDue,
         UNCHANGED <<state, expected, rebootPending, staging, cmd, ram, block>>
  PROVE  ReadyIsPending' /\ ResetIsDue'
BY DEF ReadyIsPending, ResetIsDue, Holds

LEMMA EndMakesReady ==
  ASSUME ServerInv, NEW auto \in BOOLEAN, EndVerified(auto)
  PROVE  ReadyIsPending' /\ ResetIsDue'
<1>1. /\ expected' = expected /\ staging' = staging /\ ram' = Cleaned
      /\ block' = PendingBlock(expected) /\ state' = "READY" /\ cmd' = "ack" /\ Verified
  BY DEF EndVerified, sessionVars
<1>2. Fits(expected)
  BY DEF EndVerified, ServerInv, Announced
<1>3. \A c \in 1 .. Len(expected) : c \in Chunks /\ Cleaned[c] = staging[c]
  BY <1>2 DEF Cleaned, Chunks, Fits
<1> QED
  BY <1>1, <1>3 DEF Verified, Holds, ReadyIsPending, ResetIsDue

LEMMA ProcessReady ==
  ASSUME ServerInv, ReadyIsPending, ResetIsDue, NEW h \in Hosts, Process(h)
  PROVE  ReadyIsPending' /\ ResetIsDue'
<1>1. PICK ok \in BOOLEAN : Answered(h, ok)
  BY DEF Process
<1>2. cmd = "recv" /\ ~rebootPending
  BY DEF Process, ResetIsDue
<1>3. CASE BeginAnswered(h, ok)
  BY <1>2, <1>3, SameReady DEF BeginAnswered, AcceptBegin, RefuseBegin, sessionVars, ReadyIsPending, ResetIsDue
<1>4. CASE DataAnswered(h, ok)
  BY <1>2, <1>4, SameReady DEF DataAnswered, StoreData, RefuseData, sessionVars, nodeVars, serviceVars,
     ReadyIsPending, ResetIsDue
<1>5. CASE EndAnswered(h, ok)
  BY <1>2, <1>5, EndMakesReady DEF EndAnswered, EndMismatch, EndBusy, sessionVars, ReadyIsPending,
     ResetIsDue, Holds
<1>6. CASE AbortCommand \/ RebootCommand
  BY <1>2, <1>6 DEF AbortCommand, RebootCommand, sessionVars, ReadyIsPending, ResetIsDue, Holds
<1>7. CASE InfoAnswered(ok) \/ BadRefused(ok) \/ \E enable \in BOOLEAN : FeatureSet(enable)
  BY <1>7, SameReady DEF InfoAnswered, BadRefused, FeatureSet, nodeVars, serviceVars
<1> QED
  BY <1>1, <1>3, <1>4, <1>5, <1>6, <1>7 DEF Answered

LEMMA ReadyStep ==
  ASSUME ServerInv, ReadyIsPending, ResetIsDue, [ServerNext]_serverVars
  PROVE  ReadyIsPending' /\ ResetIsDue'
<1>1. CASE Reset
  BY <1>1 DEF Reset, ServiceStart, ReadyIsPending, ResetIsDue
<1>2. CASE EndWritten
  BY <1>2 DEF EndWritten, EndAcknowledged, ResetFollows, sessionVars, ReadyIsPending, ResetIsDue, Holds
<1>3. CASE UNCHANGED serverVars \/ Listen \/ Accept \/ AcceptFails \/ ConsoleStep
  BY <1>3, SameReady DEF Listen, Accept, AcceptFails, ConsoleStep, ConsoleLoads, ConsoleStores,
     ConsoleSets, otherVars, nodeVars, serviceVars, serverVars
<1>4. ASSUME NEW h \in Hosts, ReadFails(h) \/ CloseClient(h) \/ HostStep(h) \/ GoAway(h)
      PROVE  ReadyIsPending' /\ ResetIsDue'
  BY <1>4, SameReady DEF ReadFails, CloseClient, HostStep, Connect, Ask, Hear, SeeClose, GoAway,
     nodeVars, serviceVars
<1> QED
  BY <1>1, <1>2, <1>3, <1>4, ProcessReady DEF ServerNext, ServerStep

\* Whichever host's session came last, a READY service has that host's whole
\* image pending until the reset, a new CMD_OTA_BEGIN or an abort, and a reset
\* that CMD_OTA_END decided on finds it: another host's requests, between the
\* acknowledgement and the reset or after it, never leave it half.
THEOREM ServedReadyIsPending == ServerSpec => [](ReadyIsPending /\ ResetIsDue)
<1>1. ServerInit => ReadyIsPending /\ ResetIsDue
  BY DEF ServerInit, ServiceInit, ReadyIsPending, ResetIsDue
<1> QED
  BY <1>1, ReadyStep, ServerInvariant, PTL DEF ServerSpec
=============================================================================
