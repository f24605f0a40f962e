---------------------------- MODULE MCSingleton ----------------------------
(***************************************************************************)
(* Model values for Singleton.  Pids are interchangeable; the symmetry is  *)
(* used only by the runs without a liveness property.                      *)
(***************************************************************************)
EXTENDS Singleton, TLC

Symmetry == Permutations(Pids)
=============================================================================
