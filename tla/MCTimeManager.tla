---------------------------- MODULE MCTimeManager ----------------------------
(* A counter that turns over after three cycles, one or two tasks that ask, *)
(* a master some microseconds ahead or level.                               *)
EXTENDS TimeManager

MCForced == {5}
=============================================================================
