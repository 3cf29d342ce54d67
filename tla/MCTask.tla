------------------------------- MODULE MCTask -------------------------------
(* Small instances of the scheduler for TLC; the values are in the cfgs.    *)
EXTENDS TaskLifecycle
=============================================================================
