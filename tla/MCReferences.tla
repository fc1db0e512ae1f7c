---------------------------- MODULE MCReferences ----------------------------
(***************************************************************************)
(* TLC's instance of References: two elements that share their text and    *)
(* one with a text of its own, on lists in which each leads, follows, and  *)
(* is missing.                                                             *)
(***************************************************************************)
EXTENDS References, TLC

MCElements == 1..3
MCTextOf == [e \in MCElements |-> IF e = 3 THEN "other" ELSE "same"]
MCScreens == {<<>>, <<1>>, <<1, 2>>, <<1, 3>>, <<3, 1>>, <<2, 3>>,
              <<1, 3, 2>>, <<3, 1, 2>>, <<2, 1, 3>>}
Alike == Permutations(Users)
=============================================================================
