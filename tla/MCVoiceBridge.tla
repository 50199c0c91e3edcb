--------------------------- MODULE MCVoiceBridge ---------------------------
(***************************************************************************)
(* VoiceBridge.tla for TLC.  VoiceBridge.cfg has two calls to a business,  *)
(* one line, a restart, and one call in which the agent asks for           *)
(* something.  VoiceLiveness.cfg has one call and two restarts: what it    *)
(* says is said of every call on its own.                                  *)
(***************************************************************************)
EXTENDS VoiceBridge, TLC

Symmetric == Permutations(Call)
=============================================================================
