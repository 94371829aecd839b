------------------------------ MODULE MCNetwork ------------------------------
(* Two descriptors and a single pbuf: the ring backs up and the pool runs   *)
(* out; every configuration of the address.                                 *)
EXTENDS Network
=============================================================================
