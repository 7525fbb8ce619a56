---------------------------- MODULE MCAofManager ----------------------------
(* Instances of AofManager for TLC; the constants are set in the configs. *)
EXTENDS AofManager
=============================================================================
