-------------------------- MODULE MCSessionManager --------------------------
(***************************************************************************)
(* TLC's instances of SessionManager; each .cfg picks a specification,     *)
(* the sizes and the properties.                                           *)
(***************************************************************************)
EXTENDS SessionManager, TLC

Interchangeable == Permutations(Handlers) \union Permutations(Beats)
                     \union Permutations(Sessions)
=============================================================================
