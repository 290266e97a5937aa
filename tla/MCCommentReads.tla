--------------------------- MODULE MCCommentReads ----------------------------
(***************************************************************************)
(* CommentReads with two readers at once beside one request of a user.     *)
(***************************************************************************)
EXTENDS CommentReads, TLC

Symmetry == Permutations(CrawledIds) \cup Permutations(Readers)
=============================================================================
