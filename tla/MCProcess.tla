----------------------------- MODULE MCProcess -----------------------------
(* A small instance of Process for TLC. *)
EXTENDS Process

CONSTANTS r1, r2
=============================================================================
