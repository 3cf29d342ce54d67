------------------------------- MODULE MCDrive --------------------------------
(* Instance of Drive for TLC. *)
EXTENDS Drive
=============================================================================
