----------------------------- MODULE Goroutines -----------------------------
(***************************************************************************)
(* The goroutines that use the package at once, and the value that stands  *)
(* for the owner of a lock nobody holds.                                   *)
(***************************************************************************)
EXTENDS FiniteSets

CONSTANTS
  Goroutines,
  Nobody

ASSUME GoroutinesAssumption == IsFiniteSet(Goroutines)
ASSUME NobodyAssumption == Nobody \notin Goroutines
=============================================================================
