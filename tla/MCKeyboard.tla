------------------------------ MODULE MCKeyboard ------------------------------
(* Small instances of the keyboard for TLC; the values are in the cfgs.     *)
EXTENDS Keyboard
=============================================================================
