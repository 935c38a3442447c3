-------------------------- MODULE MCValidationSession --------------------------
(* Small instances of the validation sessions. *)
EXTENDS ValidationSession
===============================================================================
