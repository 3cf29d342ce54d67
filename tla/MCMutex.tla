------------------------------- MODULE MCMutex --------------------------------
(* Small instances of mutexes for TLC; the values are in MCMutex*.cfg.       *)
EXTENDS MutexLock
=============================================================================
