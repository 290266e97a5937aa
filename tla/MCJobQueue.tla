----------------------------- MODULE MCJobQueue -----------------------------
(***************************************************************************)
(* JobQueue with the retention cut to one finished record of each kind, so *)
(* that trimming happens, and the attempts to two.                         *)
(***************************************************************************)
EXTENDS JobQueue
=============================================================================
