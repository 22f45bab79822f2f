--------------------------- MODULE MCCrawlSystem ---------------------------
(***************************************************************************)
(* Instances of CrawlSystem.  `Site` is a small site in which every page   *)
(* has a link of its own host, with a cycle, a page linked twice and a     *)
(* link to another host; in `SiteWithLeaf` the page a3 has none.  Whether  *)
(* pages fail to load and scripts fail to run is the choice of each cfg.   *)
(***************************************************************************)
EXTENDS CrawlSystem, TLC

CONSTANTS a, b, a1, a2, a3, b1, c1, c2, j1, j2, s1, s2, p1, p2

AUrls == {a1, a2, a3, b1}
Site  == [u \in AUrls |-> CASE u = a1 -> {a2, a3, b1}
                            [] u = a2 -> {a1, a3}
                            [] u = a3 -> {a3}
                            [] u = b1 -> {b1}]
SiteWithLeaf == [Site EXCEPT ![a1] = {a2, a3}, ![a2] = {a1}, ![a3] = {b1}]

AHosts    == {a, b}
AHostOf   == [u \in AUrls |-> IF u = b1 THEN b ELSE a]

One       == {c1}
OneSeed   == [c \in One |-> a1]
OneJob    == [c \in One |-> j1]

\* Two sites in one crawl request, whose crawlers share the reply queue and the
\* Selenium session; the pages of a are a1 and a2 only.
BUrls     == {a1, a2, b1}
BHostOf   == [u \in BUrls |-> IF u = b1 THEN b ELSE a]
TwoSites  == [u \in BUrls |-> CASE u = a1 -> {a2} [] u = a2 -> {a1}
                                [] u = b1 -> {b1}]
Two       == {c1, c2}
TwoSeeds  == [c \in Two |-> IF c = c1 THEN a1 ELSE b1]
TwoJob    == [c \in Two |-> j1]
MCJobs    == {j1}

\* Two crawl requests for one site, from different entry points: each has a
\* CrawlerManager and a Selenium session of its own.
SameUrls   == {a1, a2}
SameHosts  == {a}
SameHostOf == [u \in SameUrls |-> a]
SameSite   == [u \in SameUrls |-> SameUrls \ {u}]
SameSeeds  == [c \in Two |-> IF c = c1 THEN a1 ELSE a2]
TwoJobs    == {j1, j2}
OwnJob     == [c \in Two |-> IF c = c1 THEN j1 ELSE j2]

\* Exchanging the two crawlers exchanges their jobs and entry points.
Exchange ==
    (c1 :> c2) @@ (c2 :> c1) @@ (j1 :> j2) @@ (j2 :> j1)
    @@ (a1 :> a2) @@ (a2 :> a1)
MCSlots     == {s1, s2}
MCSaveSlots == {p1, p2}
SameSymmetry ==
    Permutations(MCSlots) \cup Permutations(MCSaveSlots) \cup {Exchange}
=============================================================================
