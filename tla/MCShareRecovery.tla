-------------------------- MODULE MCShareRecovery --------------------------
(* Instances of ShareRecovery for TLC. *)
EXTENDS ShareRecovery
=============================================================================
