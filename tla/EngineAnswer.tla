---------------------------- MODULE EngineAnswer ----------------------------
(***************************************************************************)
(* One query in the search engine from the database's segments to its own  *)
(* (search-engine/main.go, from DatabaseResponseHandler to                 *)
(* PublishScoreRanking): the webpages arrive in segments, are joined,      *)
(* parsed, rated and cut into segments for the express server.             *)
(***************************************************************************)
EXTENDS Segments, Ranking

answerVars == <<segVars, rankVars>>

Init ==
    /\ \E n \in Lengths : Buffered("database", n)
    /\ RankIdle

Transfer == ranking = "idle" /\ SegStep /\ UNCHANGED rankVars

\* ParseWebpages, then CalculateBMRatings.  json.Unmarshal grows the slice, so
\* that it may have room for more webpages than it holds.
Parse ==
    /\ maker = "database" /\ receiver = "complete"
    /\ ranking = "idle"
    /\ \E s \in Searches, room \in 0..Slack :
          CalculateBMRatings(s.query, s.webpages, s.webpages + room)
    /\ Begin("database", 0)

Rating == RankStep /\ UNCHANGED segVars

\* RankBM25Ratings, then CreateSegments.
Answer ==
    /\ ranking = "rated"
    /\ \E n \in Lengths : Begin("engine", n)
    /\ RankReset

Next == Transfer \/ Parse \/ Rating \/ Answer

Spec == Init /\ [][Next]_answerVars

\* Every goroutine goes on: none waits for another in an order of its own.
FairSpec ==
    /\ Spec
    /\ WF_answerVars(Transfer) /\ WF_answerVars(Parse)
    /\ WF_answerVars(Rating) /\ WF_answerVars(Answer)

----------------------------------------------------------------------------
(* Properties *)

\* A query is ranked, unless it has more tokens than the channel of the IDFs
\* has room for: nobody reads that channel until all are sent (score.go:36).
RankingEnds ==
    ranking = "waiting" ~>
       ranking \in {"rated", "panicked"} \/ Len(Tokenizer(query)) > MaxTokenCount
=============================================================================
