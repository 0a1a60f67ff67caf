--------------------------- MODULE MCVoiceSession ---------------------------
(***************************************************************************)
(* Small instances of VoiceSession for TLC.                                *)
(***************************************************************************)
EXTENDS VoiceSession

CONSTANTS t1, t2, t3, w1, w2
=============================================================================
