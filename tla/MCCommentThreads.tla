-------------------------- MODULE MCCommentThreads ---------------------------
EXTENDS CommentThreads, TLC

Symmetry == Permutations(Users) \cup Permutations(Requests)
            \cup Permutations(UserIds) \cup Permutations(CrawledIds)
=============================================================================
