--------------------------- MODULE MCAuthRefresh ---------------------------
(* Instances of AuthRefresh for TLC.  Init places the callers in the processes *)
(* in every way, so callers and processes may be renamed.                      *)
EXTENDS AuthRefresh, TLC

MCSymmetry == Permutations(Callers) \cup Permutations(Procs)
=============================================================================
