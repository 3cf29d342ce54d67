------------------------------- MODULE MCFiles --------------------------------
(* Instances of FileSystem for TLC; the constants are in MCFiles*.cfg. *)
EXTENDS FileSystem, TLC

\* Names are only compared.
Names == Permutations(Name)
=============================================================================
