------------------------------- MODULE MCTyping -------------------------------
(* A small keyboard for TLC; its keys are in the cfg.                       *)
EXTENDS Typing
=============================================================================
