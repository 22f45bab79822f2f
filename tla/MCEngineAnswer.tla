--------------------------- MODULE MCEngineAnswer ---------------------------
(***************************************************************************)
(* Chunks of two webpages and segments of two bytes: an empty database,    *)
(* one chunk, and for a query of one token a full chunk and one beyond it; *)
(* two tokens whose chunks race; letters of two bytes before and behind a  *)
(* space; more tokens than IDFs can be buffered.                           *)
(***************************************************************************)
EXTENDS EngineAnswer

MCSearches ==
    [query : {<<"letter">>}, webpages : 0..3]
    \cup [query : {<<"head", "tail", "space">>}, webpages : {1}]
    \cup [query : {<<"letter", "space", "letter">>,
                   <<"letter", "space", "head", "tail">>}, webpages : {1}]
    \cup [query : {<<"space", "letter", "space">>}, webpages : {1}]
=============================================================================
