---------------------------- MODULE MCFileContents ----------------------------
(* An instance of FileContents for TLC; the constants are in the cfg. *)
EXTENDS FileContents, TLC

\* Names are only compared.
Names == Permutations(Name)
=============================================================================
