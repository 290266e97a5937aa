---------------------------- MODULE CrawlPromise -----------------------------
(***************************************************************************)
(* What the crawl pipeline promises about each video, in three words: it   *)
(* is unknown, listed (a row without a detail), or detailed.  A detail     *)
(* comes from a crawl that is under way, it is never lost, and a video is  *)
(* only dropped while it is bare and nobody is crawling it.                *)
(*                                                                         *)
(* CrawlPipeline implements this for a crawler that keeps to the protocol  *)
(* and a queue that drains in time: CrawlPipeline!KeepsPromise.            *)
(***************************************************************************)
CONSTANT Videos

VARIABLES
    status,   \* status[v]: "unknown", "listed" or "detailed"
    crawling  \* the videos with a detail crawl queued or under way

vars == <<status, crawling>>

Init ==
    /\ status = [v \in Videos |-> "unknown"]
    /\ crawling = {}

List(v) ==
    /\ status[v] = "unknown"
    /\ status' = [status EXCEPT ![v] = "listed"]
    /\ UNCHANGED crawling

StartCrawl(v) ==
    /\ status[v] # "unknown"
    /\ crawling' = crawling \cup {v}
    /\ UNCHANGED status

Detail(v) ==
    /\ v \in crawling
    /\ status[v] = "listed"
    /\ status' = [status EXCEPT ![v] = "detailed"]
    /\ UNCHANGED crawling

EndCrawl(v) ==
    /\ crawling' = crawling \ {v}
    /\ UNCHANGED status

Drop(vs) ==
    /\ \A v \in vs : status[v] = "listed" /\ v \notin crawling
    /\ status' = [v \in Videos |-> IF v \in vs THEN "unknown" ELSE status[v]]
    /\ UNCHANGED crawling

Next ==
    \/ \E v \in Videos : List(v) \/ StartCrawl(v) \/ Detail(v) \/ EndCrawl(v)
    \/ \E vs \in SUBSET Videos : Drop(vs)

Spec == Init /\ [][Next]_vars
=============================================================================
