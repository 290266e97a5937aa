----------------------------- MODULE MCLabelling -----------------------------
(***************************************************************************)
(* Labelling with two videos and the retention cut to one finished record  *)
(* of each kind, so that a record is trimmed and its id queued afresh.     *)
(***************************************************************************)
EXTENDS Labelling, TLC

Symmetry == Permutations(Jobs)
=============================================================================
