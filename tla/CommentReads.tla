---------------------------- MODULE CommentReads -----------------------------
(***************************************************************************)
(* GET /videos/:id/comments: VideoService.getComments over the table of    *)
(* CommentThreads.  A video without top-level comments is crawled by its   *)
(* first readers, who save what they get comment by comment, and a marker  *)
(* in Redis with a TTL keeps the next ones from crawling again.            *)
(*                                                                         *)
(* Users, the worker's crawls and cleanup go on as in CommentThreads while *)
(* a reader waits.  Readers ask for the first page.  What the crawler      *)
(* answers is abstract: any threads, one after the other.                  *)
(***************************************************************************)
EXTENDS CommentThreads

CONSTANTS
    Readers  \* concurrent calls of getComments

VARIABLES
    marker,  \* whether comments:crawled:<id> is held
    reader,  \* reader[d]: how far the call is, and its history
    tried    \* history: a reader's crawl has ended since the marker last expired

readVars == <<vars, marker, reader, tried>>

-----------------------------------------------------------------------------
(* A call is idle, or at: count, marker, crawl, save, mark, markEmpty, list,
   empty.  thread is the comment whose replies are being saved.  history: shown, the
   video has had a top-level comment ever since the call began; late, the call
   began after a crawl ended, and the marker has not expired since. *)
NoReader == [pc |-> "idle", thread |-> NoParent, shown |-> FALSE, late |-> FALSE]

TopLevel(rows) == {i \in Ids : rows[i] # Gone /\ rows[i].parent = NoParent}

ReadInit ==
    /\ Init
    /\ marker = FALSE
    /\ reader = [d \in Readers |-> NoReader]
    /\ tried = FALSE

Stays == UNCHANGED vars

\* The state of the readers after a step of the tables.
Watched(readers) ==
    [d \in Readers |-> [readers[d] EXCEPT !.shown = @ /\ TopLevel(comment') # {}]]

At(d, pc) == reader[d].pc = pc
ReaderGoes(d, pc) == reader' = [reader EXCEPT ![d].pc = pc, ![d].thread = NoParent]
ReaderEnds(d) == reader' = [reader EXCEPT ![d] = NoReader]

-----------------------------------------------------------------------------
\* The video is looked up.  For a live one the call ends here, with no comments:
\* a step that changes nothing.
StartRead(d) ==
    /\ At(d, "idle")
    /\ reader' = [reader EXCEPT ![d] =
          [pc |-> "count", thread |-> NoParent,
           shown |-> TopLevel(comment) # {}, late |-> tried]]
    /\ Stays /\ UNCHANGED <<marker, tried>>

\* Mutant of CountTop: the marker is asked first.
CountTopAfterMarker(d) ==
    /\ At(d, "count")
    /\ ReaderGoes(d, IF marker THEN "empty"
                     ELSE IF TopLevel(comment) # {} THEN "list" ELSE "marker")
    /\ Stays /\ UNCHANGED <<marker, tried>>

CountTop(d) ==
    /\ At(d, "count")
    /\ ReaderGoes(d, IF TopLevel(comment) # {} THEN "list" ELSE "marker")
    /\ Stays /\ UNCHANGED <<marker, tried>>

AskMarker(d) ==
    /\ At(d, "marker")
    /\ ReaderGoes(d, IF marker THEN "empty" ELSE "crawl")
    /\ Stays /\ UNCHANGED <<marker, tried>>

\* crawler.getComments.
CrawlAnswers(d) ==
    /\ At(d, "crawl")
    /\ ReaderGoes(d, "save")
    /\ Stays /\ UNCHANGED <<marker, tried>>

(* _saveComments: a thread's first comment, then its replies. *)
SaveTop(d) ==
    /\ At(d, "save")
    /\ \E i \in CrawledIds, likes \in Count, replies \in Count :
          /\ CrawlTop(i, likes, replies)
          /\ reader' = Watched([reader EXCEPT ![d].thread = i])
    /\ UNCHANGED <<marker, tried>>

SaveReply(d) ==
    /\ At(d, "save")
    /\ reader[d].thread # NoParent
    /\ \E i \in CrawledIds, likes \in Count :
          CrawlReply(i, reader[d].thread, likes, FALSE)
    /\ reader' = Watched(reader)
    /\ UNCHANGED <<marker, tried>>

SaveEnds(d) ==
    /\ At(d, "save")
    /\ ReaderGoes(d, "mark")
    /\ Stays /\ UNCHANGED <<marker, tried>>

\* Mutant of TryThrows: the marker is left only by a crawl that went well.
ThrowsUnmarked(d) ==
    /\ At(d, "crawl") \/ At(d, "save") \/ At(d, "mark")
    /\ tried' = TRUE
    /\ ReaderGoes(d, "empty")
    /\ Stays /\ UNCHANGED marker

\* The crawl fails, an upsert is refused (its video, or the comment replied to,
\* is gone), or Redis does not answer.
TryThrows(d) ==
    /\ At(d, "crawl") \/ At(d, "save") \/ At(d, "mark")
    /\ ReaderGoes(d, "markEmpty")
    /\ Stays /\ UNCHANGED <<marker, tried>>

\* Either way the marker is set, for 600 s from now.
Mark(d) ==
    /\ At(d, "mark") \/ At(d, "markEmpty")
    /\ marker' = TRUE
    /\ tried' = TRUE
    /\ ReaderGoes(d, IF At(d, "mark") THEN "list" ELSE "empty")
    /\ Stays

\* The answer: what the table has now.
List(d) ==
    /\ At(d, "list")
    /\ IF TopLevel(comment) = {} THEN ReaderGoes(d, "empty") ELSE ReaderEnds(d)
    /\ Stays /\ UNCHANGED <<marker, tried>>

AnswerEmpty(d) ==
    /\ At(d, "empty")
    /\ ReaderEnds(d)
    /\ Stays /\ UNCHANGED <<marker, tried>>

\* A statement throws that no try encloses, or the process dies.
ReadDies(d) ==
    /\ ~ At(d, "idle")
    /\ ReaderEnds(d)
    /\ Stays /\ UNCHANGED <<marker, tried>>

ReadStep(d) ==
    \/ StartRead(d) \/ CountTop(d) \/ AskMarker(d) \/ CrawlAnswers(d)
    \/ SaveTop(d) \/ SaveReply(d) \/ SaveEnds(d) \/ TryThrows(d)
    \/ Mark(d) \/ List(d) \/ AnswerEmpty(d) \/ ReadDies(d)

-----------------------------------------------------------------------------
\* The marker's TTL is over.
Expire ==
    /\ marker
    /\ marker' = FALSE
    /\ tried' = FALSE
    /\ reader' = [d \in Readers |-> [reader[d] EXCEPT !.late = FALSE]]
    /\ Stays

TableStep ==
    /\ Next
    /\ reader' = Watched(reader)
    /\ UNCHANGED <<marker, tried>>

ReadNext ==
    \/ TableStep
    \/ \E d \in Readers : ReadStep(d)
    \/ Expire

ReadSpec == ReadInit /\ [][ReadNext]_readVars

-----------------------------------------------------------------------------
\* While a video has a top-level comment at every moment of a call, whoever
\* writes or removes it, and whatever the marker says, the call shows one.
ShownWhenThere == \A d \in Readers : At(d, "empty") => ~ reader[d].shown

\* Once a reader's crawl has ended, well or not, no call that begins before the
\* marker expires crawls again: only those that were under way do.
CrawlsAreSpaced == \A d \in Readers : At(d, "crawl") => ~ reader[d].late
=============================================================================
