------------------------------ MODULE FrameQueue ------------------------------
(***************************************************************************)
(* What NetManager may take the receive side of the Ethernet driver for:   *)
(* a queue of bounded length.  A frame that finds it full is lost; one     *)
(* that entered stays as it is until it is the oldest and is taken.        *)
(***************************************************************************)
EXTENDS Sequences, Naturals

CONSTANTS Frame, Capacity

VARIABLE q

Init == q = <<>>

Put == \E f \in Frame : Len(q) < Capacity /\ q' = Append(q, f)
Take == q # <<>> /\ q' = Tail(q)

Spec == Init /\ [][Put \/ Take]_q
=============================================================================
