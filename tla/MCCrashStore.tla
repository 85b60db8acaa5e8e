---------------------------- MODULE MCCrashStore ----------------------------
(* Small instances of CrashStore for TLC.                                  *)
EXTENDS CrashStore, TLC

Symmetry == Permutations(Handlers) \cup Permutations(Blobs)
=============================================================================
