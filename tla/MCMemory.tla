------------------------------- MODULE MCMemory -------------------------------
(* A small heap for TLC; its sizes are in the cfg.                          *)
EXTENDS Memory
=============================================================================
