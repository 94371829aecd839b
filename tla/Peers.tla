------------------------------- MODULE Peers -------------------------------
(***************************************************************************)
(* Whom a node is talking to: the connection that CommandService's         *)
(* handleClient serves.                                                    *)
(***************************************************************************)
VARIABLE conn      \* {the host being served}, or {}
=============================================================================
