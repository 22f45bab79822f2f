-------------------------- MODULE MCCrawlAdmission --------------------------
(***************************************************************************)
(* Three requests: one site; another and one that is indexed; the first    *)
(* site again.                                                             *)
(***************************************************************************)
EXTENDS CrawlAdmission

CONSTANTS r1, r2, r3, a, b, c

MCDocs == [r \in Requests |-> CASE r = r1 -> <<a>>
                                [] r = r2 -> <<b, c>>
                                [] r = r3 -> <<a>>]
=============================================================================
