-------------------------- MODULE MCCommandServer --------------------------
(* An uploader "a" with two slow clients; the uploaders "b" and "d" of      *)
(* different images while "q" aborts, reboots and, like the console, locks  *)
(* the node.  With the layouts the requests travel in.                      *)
EXTENDS CommandServer, Wire

MCBytes == {"FF", "h", "x"}
MCKind == [b \in MCBytes |-> IF b = "h" THEN "ok" ELSE "none"]
MCImages == {<<"h">>, <<"x", "h">>, <<"h", "h">>, <<"x", "h", "x">>}
MCGoal ==
  [h \in Hosts |->
     CASE h \in {"p", "q"} -> <<>>
       [] h = "b" -> <<"h", "h">>
       [] h = "d" -> <<"h">>
       [] OTHER -> <<"x", "h">>]
\* lastError and bytesWritten are only reported: nothing depends on them.
MCView == <<ram, block, state, expected, autoReboot, rebootPending, staging, cmd,
            hostVars, srv, conn, queue, aborts, held, wanted>>
MCAbortStores == {{"state", "lastError", "bytesWritten", "rebootPending"}}
=============================================================================
