--------------------------- MODULE MCCrawlPipeline ---------------------------
(***************************************************************************)
(* CrawlPipeline for TLC.  The model values are interchangeable, so the    *)
(* runs that check no liveness use their symmetry.                         *)
(***************************************************************************)
EXTENDS CrawlPipeline, TLC

Symmetry == Permutations(Videos) \cup Permutations(Handlers)
            \cup Permutations(Slots) \cup Permutations(Tasks)
=============================================================================
