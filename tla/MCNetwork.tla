------------------------------ MODULE MCNetwork ------------------------------
(* Instance of Network for TLC. *)
EXTENDS Network

CONSTANTS p1
=============================================================================
