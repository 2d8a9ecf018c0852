--------------------------- MODULE MCAudioPlayback ---------------------------
(* Instances of AudioPlayback for TLC; the cfg files give the constants.    *)
EXTENDS AudioPlayback
=============================================================================
