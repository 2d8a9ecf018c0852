------------------------------- MODULE MCChat -------------------------------
(* A small instance of Chat for TLC.                                       *)
EXTENDS Chat
=============================================================================
