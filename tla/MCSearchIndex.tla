---------------------------- MODULE MCSearchIndex ----------------------------
(***************************************************************************)
(* SearchIndex, and with it Catalogue under every statement in every       *)
(* order, with two channels so that a row can move from one to the other   *)
(* while either is deleted.                                                *)
(***************************************************************************)
EXTENDS SearchIndex, TLC

Symmetry == Permutations(Channels)
=============================================================================
