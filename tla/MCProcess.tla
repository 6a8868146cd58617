------------------------------ MODULE MCProcess ------------------------------
(* Instance of Process for TLC. *)
EXTENDS Process

CONSTANTS p1, c1
=============================================================================
