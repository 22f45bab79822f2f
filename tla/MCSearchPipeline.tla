-------------------------- MODULE MCSearchPipeline --------------------------
(***************************************************************************)
(* Two searches, with answers of three and two segments, and a buffer of   *)
(* three slots, round which the answer to r1 wraps when it comes second.   *)
(***************************************************************************)
EXTENDS SearchPipeline

CONSTANTS r1, r2

MCRequests == {r1, r2}
MCSegs     == [r \in MCRequests |-> IF r = r1 THEN 3 ELSE 2]
=============================================================================
