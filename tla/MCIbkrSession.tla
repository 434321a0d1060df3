---------------------------- MODULE MCIbkrSession ----------------------------
(* Instances of IbkrSession for TLC. *)
EXTENDS IbkrSession
=============================================================================
