--------------------------- MODULE MCClientSession ---------------------------
(* Instances of ClientSession for TLC; the cfg files give the constants.    *)
EXTENDS ClientSession
==============================================================================
