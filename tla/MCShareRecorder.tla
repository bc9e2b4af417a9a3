-------------------------- MODULE MCShareRecorder --------------------------
(* Instances of ShareRecorder for TLC. *)
EXTENDS ShareRecorder

=============================================================================
