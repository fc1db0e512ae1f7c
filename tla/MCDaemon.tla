------------------------------ MODULE MCDaemon ------------------------------
(***************************************************************************)
(* TLC's instance of Daemon; the .cfg files pick sizes and properties.     *)
(***************************************************************************)
EXTENDS Daemon, TLC

Alike == Permutations(Finders) \union Permutations(Sessions)
=============================================================================
