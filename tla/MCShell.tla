------------------------------- MODULE MCShell --------------------------------
(***************************************************************************)
(* Instance of Shell for TLC: both demonstrations, started in any order    *)
(* any number of times.                                                    *)
(***************************************************************************)
EXTENDS Shell
=============================================================================
