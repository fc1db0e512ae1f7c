---------------------------- MODULE MCLifecycle ----------------------------
(***************************************************************************)
(* TLC's instance of Lifecycle; the .cfg files pick sizes and properties.  *)
(***************************************************************************)
EXTENDS Lifecycle, TLC

Alike == Permutations(Starters)
=============================================================================
