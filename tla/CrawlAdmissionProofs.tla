------------------------ MODULE CrawlAdmissionProofs ------------------------
(***************************************************************************)
(* However many requests there are and however their replies are mixed up, *)
(* no site is crawled that was indexed when its list was submitted, and no *)
(* list is started twice or lost unaccounted.                              *)
(***************************************************************************)
EXTENDS CrawlAdmission, TLAPS

LOCAL INSTANCE SequencesExt

\* The lists of requests that were posted, without a site indexed before.
CleanLists ==
    {l \in Lists : /\ request[l.of] # "idle"
                   /\ \A i \in 1..Len(l.unindexed) :
                         l.unindexed[i] \notin before[l.of]}

\* A site that is indexed stays so.
HistoryInv ==
    /\ request \in [Requests -> {"idle", "waiting", "refused", "admitted", "sent"}]
    /\ before \in [Requests -> SUBSET indexed_sites]
    /\ indexed_sites \subseteq Sites

\* What checkIndexedWebpage has gathered so far is clean, and so is every list
\* on its way.
CheckInv ==
    /\ check_queue \in Seq({r \in Requests : request[r] # "idle"})
    /\ check \in [Requests -> {<<>>} \cup [todo : Seq(Sites), tmp : Seq(Sites)]]
    /\ \A r \in Requests : check[r] # <<>> =>
          [unindexed |-> check[r].tmp, of |-> r] \in CleanLists
    /\ check_cbq \in Seq(CleanLists)

ListsInv ==
    /\ \A r \in Requests : request[r] \in {"refused", "admitted", "sent"} =>
          verdict[r] \in CleanLists
    /\ verdict \in [Requests -> {<<>>} \cup CleanLists]
    /\ request_queue \in Seq(CleanLists)
    /\ inbox \in Seq(CleanLists)
    /\ crawls \subseteq CleanLists

AdmissionInv == HistoryInv /\ CheckInv /\ ListsInv

----------------------------------------------------------------------------

LEMMA SeqOfMore ==
    ASSUME NEW S, NEW T, S \subseteq T, NEW s \in Seq(S)
    PROVE  s \in Seq(T)
<1>1. Len(s) \in Nat /\ s \in [1..Len(s) -> T]  OBVIOUS
<1> QED BY <1>1

LEMMA HeadTail ==
    ASSUME NEW S, NEW s \in Seq(S), s # <<>>
    PROVE  Head(s) \in S /\ Tail(s) \in Seq(S)
  OBVIOUS

\* A list stays clean: no request becomes idle, and the history of one that is
\* not does not change.
LEMMA CleanGrows ==
    ASSUME \A r \in Requests : request[r] # "idle" =>
              request'[r] # "idle" /\ before'[r] = before[r]
    PROVE  CleanLists \subseteq CleanLists'
  BY DEF CleanLists, Lists

\* An action that leaves the requests, their checks and the history alone, and
\* puts no other lists anywhere than those of before.
LEMMA ListsOnly ==
    ASSUME AdmissionInv, UNCHANGED <<request, before, indexed_sites, verdict, checkVars>>,
           request_queue' \in Seq(CleanLists), inbox' \in Seq(CleanLists),
           crawls' \subseteq CleanLists
    PROVE  AdmissionInv'
<1>1. CleanLists' = CleanLists  BY DEF CleanLists
<1> QED BY <1>1 DEF AdmissionInv, HistoryInv, CheckInv, ListsInv, checkVars

\* What the invariant says of the lists survives every step after which they are
\* what they were, the requests have not become idle and no history has changed
\* but that of a request that was.
LEMMA Survives ==
    ASSUME AdmissionInv,
           \A r \in Requests : request[r] # "idle" =>
              request'[r] # "idle" /\ before'[r] = before[r]
    PROVE  /\ CleanLists \subseteq CleanLists'
           /\ check_cbq \in Seq(CleanLists')
           /\ request_queue \in Seq(CleanLists')
           /\ inbox \in Seq(CleanLists')
           /\ crawls \subseteq CleanLists'
           /\ verdict \in [Requests -> {<<>>} \cup CleanLists']
           /\ check_queue \in Seq({r \in Requests : request'[r] # "idle"})
<1> DEFINE posted == {r \in Requests : request[r] # "idle"}
           posted2 == {r \in Requests : request'[r] # "idle"}
<1>1. CleanLists \subseteq CleanLists'  BY CleanGrows
<1>2. posted \subseteq posted2  OBVIOUS
<1>3. /\ check_cbq \in Seq(CleanLists) /\ request_queue \in Seq(CleanLists)
      /\ inbox \in Seq(CleanLists) /\ crawls \subseteq CleanLists
      /\ verdict \in [Requests -> {<<>>} \cup CleanLists]
      /\ check_queue \in Seq(posted)
  BY DEF AdmissionInv, CheckInv, ListsInv
<1> HIDE DEF posted, posted2
<1>4. check_queue \in Seq(posted2)  BY <1>2, <1>3, SeqOfMore
<1>5. /\ check_cbq \in Seq(CleanLists') /\ request_queue \in Seq(CleanLists')
      /\ inbox \in Seq(CleanLists')
  BY <1>1, <1>3, SeqOfMore
<1> QED BY <1>1, <1>3, <1>4, <1>5 DEF posted2

----------------------------------------------------------------------------

LEMMA InitAdmission == Init => AdmissionInv
<1> SUFFICES ASSUME Init PROVE AdmissionInv  OBVIOUS
<1> USE AdmissionAssumption DEF Init
<1>1. HistoryInv  BY DEF HistoryInv
<1>2. CheckInv  BY DEF CheckInv
<1>3. ListsInv  BY DEF ListsInv
<1> QED BY <1>1, <1>2, <1>3 DEF AdmissionInv

LEMMA PostStep ==
    ASSUME AdmissionInv, NEW r \in Requests, Post(r)
    PROVE  AdmissionInv'
<1> USE DEF Post, crawlerVars
<1>1. \A q \in Requests : request[q] # "idle" =>
         request'[q] # "idle" /\ before'[q] = before[q]
  BY DEF AdmissionInv, HistoryInv
<1>2. HistoryInv'  BY DEF AdmissionInv, HistoryInv
<1>3. request'[r] # "idle"  BY DEF AdmissionInv, HistoryInv
<1>4. CheckInv'
  <2>1. check_queue' \in Seq({q \in Requests : request'[q] # "idle"})
    BY <1>1, <1>3, Survives
  <2>2. ASSUME NEW q \in Requests, check'[q] # <<>>
        PROVE  [unindexed |-> check'[q].tmp, of |-> q] \in CleanLists'
    <3>1. [unindexed |-> check[q].tmp, of |-> q] \in CleanLists
      BY <2>2 DEF AdmissionInv, CheckInv
    <3> QED BY <3>1, <1>1, Survives
  <2>3. check_cbq' \in Seq(CleanLists')  BY <1>1, Survives
  <2>4. check' \in [Requests -> {<<>>} \cup [todo : Seq(Sites), tmp : Seq(Sites)]]
    BY DEF AdmissionInv, CheckInv
  <2> QED BY <2>1, <2>2, <2>3, <2>4 DEF CheckInv
<1>5. ListsInv'
  <2>1. \A q \in Requests : request'[q] \in {"refused", "admitted", "sent"} =>
           verdict'[q] \in CleanLists'
    BY <1>1, CleanGrows DEF AdmissionInv, HistoryInv, ListsInv
  <2>2. /\ request_queue' \in Seq(CleanLists') /\ inbox' \in Seq(CleanLists')
        /\ crawls' \subseteq CleanLists'
        /\ verdict' \in [Requests -> {<<>>} \cup CleanLists']
    BY <1>1, Survives
  <2> QED BY <2>1, <2>2 DEF ListsInv
<1> QED BY <1>2, <1>4, <1>5 DEF AdmissionInv

LEMMA ConsumeStep == ASSUME AdmissionInv, Consume PROVE AdmissionInv'
<1>1. UNCHANGED <<request, before, indexed_sites, verdict, checkVars, request_queue,
                  inbox, crawls>>
  BY DEF Consume, checkVars, crawlerVars
<1> QED BY <1>1, ListsOnly DEF AdmissionInv, ListsInv

\* The reply may be that to another request: it is as clean for the one it
\* answers as it is for its own.
LEMMA VerdictStep ==
    ASSUME AdmissionInv, NEW r \in Requests, Verdict(r)
    PROVE  AdmissionInv'
<1> USE DEF Verdict, crawlerVars
<1> DEFINE reply == Head(check_cbq)
<1>1. reply \in CleanLists /\ check_cbq' \in Seq(CleanLists)
  BY HeadTail DEF AdmissionInv, CheckInv
<1>2. /\ request' \in [Requests -> {"idle", "waiting", "refused", "admitted", "sent"}]
      /\ \A q \in Requests : (request'[q] = "idle") = (request[q] = "idle")
  BY DEF AdmissionInv, HistoryInv
<1>3. CleanLists' = CleanLists  BY <1>2 DEF CleanLists, Lists
<1>4. HistoryInv'  BY <1>2 DEF AdmissionInv, HistoryInv
<1>5. CheckInv'
  <2>1. {q \in Requests : request'[q] # "idle"} = {q \in Requests : request[q] # "idle"}
    BY <1>2
  <2> QED BY <1>1, <1>3, <2>1 DEF AdmissionInv, CheckInv
<1>6. ListsInv'
  <2>1. /\ verdict' \in [Requests -> {<<>>} \cup CleanLists]
        /\ \A q \in Requests : request'[q] \in {"refused", "admitted", "sent"} =>
              verdict'[q] \in CleanLists
    <3>1. CASE request[r] = "waiting"
      BY <3>1, <1>1 DEF AdmissionInv, HistoryInv, ListsInv
    <3>2. CASE request[r] # "waiting"
      BY <3>2 DEF AdmissionInv, HistoryInv, ListsInv
    <3> QED BY <3>1, <3>2
  <2> QED BY <1>3, <2>1 DEF AdmissionInv, ListsInv
<1> QED BY <1>4, <1>5, <1>6 DEF AdmissionInv

LEMMA SendStep ==
    ASSUME AdmissionInv, NEW r \in Requests, SendCrawlList(r)
    PROVE  AdmissionInv'
<1> USE DEF SendCrawlList, checkVars, crawlerVars
<1>1. /\ request' \in [Requests -> {"idle", "waiting", "refused", "admitted", "sent"}]
      /\ \A q \in Requests : (request'[q] = "idle") = (request[q] = "idle")
  BY DEF AdmissionInv, HistoryInv
<1>2. CleanLists' = CleanLists  BY <1>1 DEF CleanLists, Lists
<1>3. verdict[r] \in CleanLists  BY DEF AdmissionInv, ListsInv
<1>4. HistoryInv'  BY <1>1 DEF AdmissionInv, HistoryInv
<1>5. CheckInv'
  <2>1. {q \in Requests : request'[q] # "idle"} = {q \in Requests : request[q] # "idle"}
    BY <1>1
  <2> QED BY <1>2, <2>1 DEF AdmissionInv, CheckInv
<1>6. ListsInv'
  <2>1. request_queue' \in Seq(CleanLists)
    BY <1>3 DEF AdmissionInv, ListsInv
  <2>2. \A q \in Requests : request'[q] \in {"refused", "admitted", "sent"} =>
           verdict'[q] \in CleanLists
    BY <1>3 DEF AdmissionInv, HistoryInv, ListsInv
  <2> QED BY <1>2, <2>1, <2>2 DEF AdmissionInv, ListsInv
<1> QED BY <1>4, <1>5, <1>6 DEF AdmissionInv

----------------------------------------------------------------------------
(* The database service: nothing but the checks and the replies changes *)

LEMMA ChecksOnly ==
    ASSUME AdmissionInv,
           UNCHANGED <<request, before, indexed_sites, verdict, request_queue,
                       inbox, crawls>>,
           CheckInv'
    PROVE  AdmissionInv'
<1>1. CleanLists' = CleanLists  BY DEF CleanLists
<1> QED BY <1>1 DEF AdmissionInv, HistoryInv, ListsInv

LEMMA DBCheckStep == ASSUME AdmissionInv, DBCheck PROVE AdmissionInv'
<1> USE DEF DBCheck, expressVars, crawlerVars
<1> DEFINE posted == {q \in Requests : request[q] # "idle"}
           r == Head(check_queue)
<1>1. r \in posted /\ check_queue' \in Seq(posted)
  <2>1. check_queue \in Seq(posted)  BY DEF AdmissionInv, CheckInv
  <2> HIDE DEF posted
  <2> QED BY <2>1, HeadTail
<1>2. Docs[r] \in Seq(Sites)  BY <1>1, AdmissionAssumption
<1>3. CleanLists' = CleanLists  BY DEF CleanLists
<1>4. [unindexed |-> <<>>, of |-> r] \in CleanLists
  BY <1>1 DEF CleanLists, Lists
<1>5. check' \in [Requests -> {<<>>} \cup [todo : Seq(Sites), tmp : Seq(Sites)]]
  BY <1>1, <1>2 DEF AdmissionInv, CheckInv
<1>6. ASSUME NEW q \in Requests, check'[q] # <<>>
      PROVE  [unindexed |-> check'[q].tmp, of |-> q] \in CleanLists
  <2>1. CASE q = r
    <3>1. check'[q].tmp = <<>>  BY <2>1 DEF AdmissionInv, CheckInv
    <3> QED BY <2>1, <3>1, <1>4
  <2>2. CASE q # r
    <3>1. check'[q] = check[q]  BY <2>2 DEF AdmissionInv, CheckInv
    <3> QED BY <3>1, <1>6 DEF AdmissionInv, CheckInv
  <2> QED BY <2>1, <2>2
<1>7. CheckInv'  BY <1>1, <1>3, <1>5, <1>6 DEF AdmissionInv, CheckInv
<1> QED BY <1>7, ChecksOnly

\* A site that is not indexed now was not when the list was submitted.
LEMMA CheckSiteStep ==
    ASSUME AdmissionInv, NEW r \in Requests, CheckSite(r)
    PROVE  AdmissionInv'
<1> USE DEF CheckSite, expressVars, crawlerVars
<1> DEFINE h == Head(check[r].todo)
           old == check[r].tmp
<1>1. check[r] \in [todo : Seq(Sites), tmp : Seq(Sites)]
  BY DEF AdmissionInv, CheckInv
<1>2. h \in Sites /\ Tail(check[r].todo) \in Seq(Sites) /\ old \in Seq(Sites)
  <2>1. check[r].todo \in Seq(Sites) /\ check[r].todo # <<>> /\ old \in Seq(Sites)
    BY <1>1
  <2> QED BY <2>1, HeadTail
<1>3. [unindexed |-> old, of |-> r] \in CleanLists
  BY DEF AdmissionInv, CheckInv
<1>4. CleanLists' = CleanLists  BY DEF CleanLists
<1>5. check'[r] = [todo |-> Tail(check[r].todo),
                   tmp |-> IF h \in indexed_sites THEN old ELSE Append(old, h)]
  BY DEF AdmissionInv, CheckInv
<1>6. [unindexed |-> check'[r].tmp, of |-> r] \in CleanLists
  <2>1. CASE h \in indexed_sites  BY <2>1, <1>3, <1>5
  <2>2. CASE h \notin indexed_sites
    <3>1. h \notin before[r]  BY <2>2 DEF AdmissionInv, HistoryInv
    <3>2. request[r] # "idle"
          /\ \A i \in 1..Len(old) : old[i] \notin before[r]
      BY <1>3 DEF CleanLists
    <3> DEFINE new == Append(old, h)
    <3>3. new \in Seq(Sites) /\ Len(new) = Len(old) + 1 /\ Len(old) \in Nat
          /\ new[Len(old) + 1] = h
          /\ \A i \in 1..Len(old) : new[i] = old[i]
      BY <1>2
    <3> HIDE DEF new
    <3>4. \A i \in 1..Len(new) : new[i] \notin before[r]
      BY <3>1, <3>2, <3>3
    <3>5. check'[r].tmp = new  BY <2>2, <1>5 DEF new
    <3> QED BY <3>2, <3>3, <3>4, <3>5 DEF CleanLists, Lists
  <2> QED BY <2>1, <2>2
<1>7. check' \in [Requests -> {<<>>} \cup [todo : Seq(Sites), tmp : Seq(Sites)]]
  BY <1>2 DEF AdmissionInv, CheckInv
<1>8. ASSUME NEW q \in Requests, check'[q] # <<>>
      PROVE  [unindexed |-> check'[q].tmp, of |-> q] \in CleanLists
  <2>1. CASE q = r  BY <2>1, <1>6
  <2>2. CASE q # r  BY <2>2, <1>8 DEF AdmissionInv, CheckInv
  <2> QED BY <2>1, <2>2
<1>9. CheckInv'  BY <1>4, <1>7, <1>8 DEF AdmissionInv, CheckInv
<1> QED BY <1>9, ChecksOnly

\* The check of request r is over, and its list or none is sent.
LEMMA CheckEnds ==
    ASSUME AdmissionInv, NEW r \in Requests,
           check' = [check EXCEPT ![r] = <<>>],
           check_cbq' \in Seq(CleanLists),
           UNCHANGED <<request, before, indexed_sites, verdict, check_queue,
                       request_queue, inbox, crawls>>
    PROVE  AdmissionInv'
<1>1. CleanLists' = CleanLists  BY DEF CleanLists
<1>2. CheckInv'  BY <1>1 DEF AdmissionInv, CheckInv
<1> QED BY <1>2, ChecksOnly

LEMMA ReplyStep ==
    ASSUME AdmissionInv, NEW r \in Requests, Reply(r) \/ CheckFails(r)
    PROVE  AdmissionInv'
<1>1. ASSUME Reply(r) PROVE AdmissionInv'
  <2>1. [unindexed |-> check[r].tmp, of |-> r] \in CleanLists
    BY <1>1 DEF AdmissionInv, CheckInv, Reply
  <2>2. check_cbq' \in Seq(CleanLists)
    BY <1>1, <2>1 DEF AdmissionInv, CheckInv, Reply
  <2> QED BY <1>1, <2>2, CheckEnds DEF Reply, expressVars, crawlerVars
<1>2. ASSUME CheckFails(r) PROVE AdmissionInv'
  <2>1. check_cbq' \in Seq(CleanLists)
    BY <1>2 DEF AdmissionInv, CheckInv, CheckFails
  <2> QED BY <1>2, <2>1, CheckEnds DEF CheckFails, expressVars, crawlerVars
<1> QED BY <1>1, <1>2

LEMMA SiteIndexedStep ==
    ASSUME AdmissionInv, NEW h \in Sites, SiteIndexed(h)
    PROVE  AdmissionInv'
<1> USE DEF SiteIndexed, expressVars, checkVars, crawlerVars
<1>1. CleanLists' = CleanLists  BY DEF CleanLists
<1>2. HistoryInv'  BY DEF AdmissionInv, HistoryInv
<1>3. CheckInv' /\ ListsInv'  BY <1>1 DEF AdmissionInv, CheckInv, ListsInv
<1> QED BY <1>2, <1>3 DEF AdmissionInv

----------------------------------------------------------------------------
(* The loop of the crawler *)

LEMMA CrawlerStep ==
    ASSUME AdmissionInv, ConsumeRequests \/ DeliverRequest \/ StartCrawl
    PROVE  AdmissionInv'
<1>1. ASSUME ConsumeRequests PROVE AdmissionInv'
  <2>1. UNCHANGED <<request, before, indexed_sites, verdict, checkVars, request_queue,
                    inbox, crawls>>
    BY <1>1 DEF ConsumeRequests, expressVars
  <2> QED BY <2>1, ListsOnly DEF AdmissionInv, ListsInv
<1>2. ASSUME DeliverRequest PROVE AdmissionInv'
  <2>1. UNCHANGED <<request, before, indexed_sites, verdict, checkVars, crawls>>
    BY <1>2 DEF DeliverRequest, expressVars
  <2>2. Head(request_queue) \in CleanLists /\ request_queue' \in Seq(CleanLists)
    BY <1>2, HeadTail DEF DeliverRequest, AdmissionInv, ListsInv
  <2>3. inbox' = Append(inbox, Head(request_queue)) \/ inbox' = inbox
    BY <1>2 DEF DeliverRequest
  <2>4. inbox \in Seq(CleanLists)  BY DEF AdmissionInv, ListsInv
  <2>5. inbox' \in Seq(CleanLists)
    <3>1. Append(inbox, Head(request_queue)) \in Seq(CleanLists)
      BY <2>2, <2>4
    <3> QED BY <2>3, <2>4, <3>1
  <2> QED BY <2>1, <2>2, <2>5, ListsOnly DEF AdmissionInv, ListsInv
<1>3. ASSUME StartCrawl PROVE AdmissionInv'
  <2>1. UNCHANGED <<request, before, indexed_sites, verdict, checkVars, request_queue>>
    BY <1>3 DEF StartCrawl, expressVars
  <2>2. Head(inbox) \in CleanLists /\ inbox' \in Seq(CleanLists)
    BY <1>3, HeadTail DEF StartCrawl, AdmissionInv, ListsInv
  <2>3. crawls' \subseteq CleanLists
    BY <1>3, <2>2 DEF StartCrawl, AdmissionInv, ListsInv
  <2> QED BY <2>1, <2>2, <2>3, ListsOnly DEF AdmissionInv, ListsInv
<1> QED BY <1>1, <1>2, <1>3

LEMMA NextAdmission == AdmissionInv /\ [Next]_vars => AdmissionInv'
<1> SUFFICES ASSUME AdmissionInv, [Next]_vars PROVE AdmissionInv'  OBVIOUS
<1>1. CASE Consume  BY <1>1, ConsumeStep
<1>2. CASE DBCheck  BY <1>2, DBCheckStep
<1>3. CASE ConsumeRequests \/ DeliverRequest \/ StartCrawl
  BY <1>3, CrawlerStep
<1>4. ASSUME NEW r \in Requests, Verdict(r) PROVE AdmissionInv'
  BY <1>4, VerdictStep
<1>5. ASSUME NEW r \in Requests, SendCrawlList(r) PROVE AdmissionInv'
  BY <1>5, SendStep
<1>6. ASSUME NEW r \in Requests, CheckSite(r) PROVE AdmissionInv'
  BY <1>6, CheckSiteStep
<1>7. ASSUME NEW r \in Requests, Reply(r) \/ CheckFails(r) PROVE AdmissionInv'
  BY <1>7, ReplyStep
<1>8. ASSUME NEW r \in Requests, Post(r) PROVE AdmissionInv'
  BY <1>8, PostStep
<1>9. ASSUME NEW h \in Sites, SiteIndexed(h) PROVE AdmissionInv'
  BY <1>9, SiteIndexedStep
<1>10. CASE UNCHANGED vars
  BY <1>10, ListsOnly DEF vars, expressVars, crawlerVars, AdmissionInv, ListsInv
<1> QED
  BY <1>1, <1>2, <1>3, <1>4, <1>5, <1>6, <1>7, <1>8, <1>9, <1>10
  DEF Next, ServerStep

\* No crawl is ever started for a site that was indexed when its list was
\* submitted: for all requests and sites, and whichever reply resolves whichever
\* promise (app/index.ts:95, rabbitmq/index.ts:289).
THEOREM IndexedSitesStayOut == Spec => []NoIndexedSiteCrawled
<1>1. AdmissionInv => NoIndexedSiteCrawled
  BY DEF AdmissionInv, ListsInv, CleanLists, NoIndexedSiteCrawled
<1> QED BY <1>1, InitAdmission, NextAdmission, PTL DEF Spec

----------------------------------------------------------------------------
(* Where the lists are.  A list is told apart by the request it was        *)
(* checked for, and that request is in one place at a time: its message    *)
(* waits to be checked, or it is being checked, or its reply is on its     *)
(* way, or the reply has resolved one promise.                             *)

Answered == {r \in Requests : request[r] \in {"refused", "admitted", "sent"}}

UniqueInv ==
    /\ IsInjective(check_queue) /\ IsInjective(check_cbq)
    /\ \A r \in ToSet(check_queue) : check[r] = <<>>
    /\ \A l \in ToSet(check_cbq) :
          /\ l.of \notin ToSet(check_queue) /\ check[l.of] = <<>>
          /\ \A m \in ToSet(check_cbq) : l.of = m.of => l = m
    /\ \A r \in Answered :
          /\ verdict[r].of \notin ToSet(check_queue) /\ check[verdict[r].of] = <<>>
          /\ \A l \in ToSet(check_cbq) : l.of # verdict[r].of
          /\ \A q \in Answered : verdict[q].of = verdict[r].of => q = r

Sent == {verdict[r] : r \in {q \in Requests : request[q] = "sent"}}

\* The crawler's queue and its inbox hold a list once, and not the same one.
PlacedInv ==
    /\ IsInjective(request_queue) /\ IsInjective(inbox)
    /\ ToSet(request_queue) \cap ToSet(inbox) = {}
    /\ ListsAccounted

AccountInv == AdmissionInv /\ UniqueInv /\ PlacedInv

----------------------------------------------------------------------------

LEMMA AppendSet ==
    ASSUME NEW S, NEW s \in Seq(S), NEW x \in S
    PROVE  /\ ToSet(Append(s, x)) = ToSet(s) \cup {x}
           /\ IsInjective(s) /\ x \notin ToSet(s) => IsInjective(Append(s, x))
<1> DEFINE t == Append(s, x)
<1>1. /\ Len(s) \in Nat /\ DOMAIN s = 1..Len(s)
      /\ DOMAIN t = 1..(Len(s) + 1)
      /\ \A i \in 1..Len(s) : t[i] = s[i]
      /\ t[Len(s) + 1] = x
  OBVIOUS
<1> HIDE DEF t
<1>2. \A i : i \in 1..(Len(s) + 1) <=> i \in 1..Len(s) \/ i = Len(s) + 1
  BY <1>1
<1>3. ToSet(t) = ToSet(s) \cup {x}
  BY <1>1, <1>2 DEF ToSet
<1>4. ASSUME IsInjective(s), x \notin ToSet(s)
      PROVE  IsInjective(t)
  <2>1. \A i \in 1..Len(s) : s[i] # x  BY <1>1, <1>4 DEF ToSet
  <2>2. ASSUME NEW i \in DOMAIN t, NEW j \in DOMAIN t, t[i] = t[j]
        PROVE  i = j
    <3>1. CASE i \in 1..Len(s) /\ j \in 1..Len(s)
      BY <3>1, <2>2, <1>1, <1>4 DEF IsInjective
    <3>2. CASE i = Len(s) + 1 \/ j = Len(s) + 1
      BY <3>2, <2>1, <2>2, <1>1, <1>2
    <3> QED BY <3>1, <3>2, <1>1, <1>2
  <2> QED BY <2>2 DEF IsInjective
<1> QED BY <1>3, <1>4 DEF t

LEMMA TailSet ==
    ASSUME NEW S, NEW s \in Seq(S), s # <<>>
    PROVE  /\ Head(s) \in ToSet(s) /\ Head(s) \in S
           /\ Tail(s) \in Seq(S) /\ ToSet(s) \subseteq S
           /\ ToSet(s) = {Head(s)} \cup ToSet(Tail(s))
           /\ IsInjective(s) => IsInjective(Tail(s)) /\ Head(s) \notin ToSet(Tail(s))
<1> DEFINE t == Tail(s)
           n == Len(s)
<1>1. /\ n \in Nat /\ n > 0 /\ DOMAIN s = 1..n /\ DOMAIN t = 1..(n - 1)
      /\ \A i \in 1..(n - 1) : t[i] = s[i + 1]
      /\ Head(s) = s[1] /\ t \in Seq(S) /\ \A i \in 1..n : s[i] \in S
  OBVIOUS
<1> HIDE DEF t, n
<1>2. /\ \A i \in 1..n : i # 1 => i - 1 \in 1..(n - 1) /\ s[i] = t[i - 1]
      /\ \A i \in 1..(n - 1) : i + 1 \in 1..n /\ i + 1 # 1
      /\ 1 \in 1..n
  BY <1>1
<1>3. ToSet(s) = {Head(s)} \cup ToSet(t)
  <2>1. ASSUME NEW i \in 1..n PROVE s[i] \in {Head(s)} \cup ToSet(t)
    BY <1>1, <1>2 DEF ToSet
  <2>2. ASSUME NEW i \in 1..(n - 1) PROVE t[i] \in ToSet(s)
    BY <1>1, <1>2 DEF ToSet
  <2>3. ToSet(s) = {s[i] : i \in 1..n} /\ ToSet(t) = {t[i] : i \in 1..(n - 1)}
    BY <1>1 DEF ToSet
  <2>4. Head(s) \in ToSet(s)  BY <1>1, <1>2, <2>3
  <2>5. ToSet(s) \subseteq {Head(s)} \cup ToSet(t)  BY <2>1, <2>3
  <2>6. ToSet(t) \subseteq ToSet(s)  BY <2>2, <2>3
  <2> QED BY <2>4, <2>5, <2>6
<1>4. ASSUME IsInjective(s)
      PROVE  IsInjective(t) /\ Head(s) \notin ToSet(t)
  <2>1. ASSUME NEW i \in 1..(n - 1), NEW j \in 1..(n - 1), t[i] = t[j]
        PROVE  i = j
    <3>1. s[i + 1] = s[j + 1] /\ i + 1 \in 1..n /\ j + 1 \in 1..n
      BY <1>1, <1>2, <2>1
    <3>2. i + 1 = j + 1  BY <3>1, <1>1, <1>4 DEF IsInjective
    <3> QED BY <3>2
  <2>2. \A i \in 1..(n - 1) : t[i] # Head(s)
    BY <1>1, <1>2, <1>4 DEF IsInjective
  <2> QED BY <1>1, <2>1, <2>2 DEF IsInjective, ToSet
<1>5. ToSet(s) \subseteq S  BY <1>1 DEF ToSet
<1>6. Head(s) \in S  BY <1>1
<1> QED BY <1>1, <1>3, <1>4, <1>5, <1>6 DEF t

LEMMA AccountTypes ==
    ASSUME AdmissionInv
    PROVE  /\ check_queue \in Seq(Requests) /\ ToSet(check_queue) \subseteq Requests
           /\ check_cbq \in Seq(CleanLists) /\ ToSet(check_cbq) \subseteq CleanLists
           /\ request_queue \in Seq(CleanLists) /\ inbox \in Seq(CleanLists)
           /\ \A l \in CleanLists : l.of \in Requests /\ request[l.of] # "idle"
           /\ \A r \in Answered : r \in Requests /\ verdict[r] \in CleanLists
           /\ check \in [Requests -> {<<>>} \cup [todo : Seq(Sites), tmp : Seq(Sites)]]
           /\ verdict \in [Requests -> {<<>>} \cup CleanLists]
           /\ request \in [Requests -> {"idle", "waiting", "refused", "admitted", "sent"}]
<1>1. /\ check_queue \in Seq({r \in Requests : request[r] # "idle"})
      /\ {r \in Requests : request[r] # "idle"} \subseteq Requests
  BY DEF AdmissionInv, CheckInv
<1>2. check_queue \in Seq(Requests)  BY <1>1, SeqOfMore
<1>3. ToSet(check_queue) \subseteq Requests  BY <1>2 DEF ToSet
<1>4. check_cbq \in Seq(CleanLists)  BY DEF AdmissionInv, CheckInv
<1>5. ToSet(check_cbq) \subseteq CleanLists  BY <1>4 DEF ToSet
<1>6. \A l \in CleanLists : l.of \in Requests /\ request[l.of] # "idle"
  BY DEF CleanLists, Lists
<1>7. request_queue \in Seq(CleanLists) /\ inbox \in Seq(CleanLists)
  BY DEF AdmissionInv, ListsInv
<1>8. \A r \in Answered : r \in Requests /\ verdict[r] \in CleanLists
  BY DEF AdmissionInv, ListsInv, Answered
<1> QED BY <1>2, <1>3, <1>4, <1>5, <1>6, <1>7, <1>8
        DEF AdmissionInv, HistoryInv, CheckInv, ListsInv

\* Nothing is known of a request that was not posted.
LEMMA NotPosted ==
    ASSUME AdmissionInv, NEW r \in Requests, request[r] = "idle"
    PROVE  /\ r \notin ToSet(check_queue) /\ check[r] = <<>>
           /\ \A l \in ToSet(check_cbq) : l.of # r
           /\ \A q \in Answered : verdict[q].of # r
<1>1. \A i \in DOMAIN check_queue : request[check_queue[i]] # "idle"
  BY DEF AdmissionInv, CheckInv
<1>2. check[r] # <<>> => [unindexed |-> check[r].tmp, of |-> r] \in CleanLists
  BY DEF AdmissionInv, CheckInv
<1>3. \A l \in CleanLists : request[l.of] # "idle"  BY AccountTypes
<1>4. r \notin ToSet(check_queue)  BY <1>1 DEF ToSet
<1>5. check[r] = <<>>
  <2>1. [unindexed |-> check[r].tmp, of |-> r].of = r  OBVIOUS
  <2> QED BY <1>2, <1>3, <2>1
<1> QED BY <1>3, <1>4, <1>5, AccountTypes

\* A step that changes no check, reply or answered promise.
LEMMA UniqueFrame ==
    ASSUME UniqueInv, UNCHANGED <<check_queue, check, check_cbq>>, Answered' = Answered,
           \A r \in Answered : verdict'[r] = verdict[r]
    PROVE  UniqueInv'
<1>1. ToSet(check_queue)' = ToSet(check_queue) /\ ToSet(check_cbq)' = ToSet(check_cbq)
  OBVIOUS
<1> QED BY <1>1 DEF UniqueInv

\* A step that sends no list to the crawler, and moves none.
LEMMA PlacedFrame ==
    ASSUME PlacedInv, UNCHANGED <<request_queue, inbox, crawls, abandoned>>, Sent' = Sent
    PROVE  PlacedInv'
<1>1. ToSet(request_queue)' = ToSet(request_queue) /\ ToSet(inbox)' = ToSet(inbox)
  OBVIOUS
<1> QED BY <1>1 DEF PlacedInv, ListsAccounted, Sent

LEMMA PostUnique ==
    ASSUME AdmissionInv, UniqueInv, NEW r \in Requests, Post(r)
    PROVE  UniqueInv' /\ Sent' = Sent
<1> USE DEF Post
<1>1. /\ r \notin ToSet(check_queue) /\ check[r] = <<>>
      /\ \A l \in ToSet(check_cbq) : l.of # r
      /\ \A q \in Answered : verdict[q].of # r
  BY NotPosted
<1>2. /\ ToSet(check_queue') = ToSet(check_queue) \cup {r}
      /\ IsInjective(check_queue')
  BY <1>1, AccountTypes, AppendSet DEF UniqueInv
<1>3. Answered' = Answered
  <2>1. \A q \in Requests : request'[q] \in {"refused", "admitted", "sent"}
                               <=> request[q] \in {"refused", "admitted", "sent"}
    BY AccountTypes
  <2> QED BY <2>1 DEF Answered
<1>4. UNCHANGED <<check, check_cbq, verdict>>  OBVIOUS
<1>5. UniqueInv'
  BY <1>1, <1>2, <1>3, <1>4 DEF UniqueInv
<1>6. Sent' = Sent
  <2>1. \A q \in Requests : request'[q] = "sent" <=> request[q] = "sent"
    BY AccountTypes
  <2> QED BY <1>4, <2>1 DEF Sent
<1> QED BY <1>5, <1>6

LEMMA DBCheckUnique ==
    ASSUME AdmissionInv, UniqueInv, DBCheck
    PROVE  UniqueInv'
<1> USE DEF DBCheck, expressVars
<1> DEFINE r == Head(check_queue)
<1>1. /\ r \in ToSet(check_queue) /\ r \in Requests
      /\ ToSet(check_queue') = ToSet(check_queue) \ {r}
      /\ IsInjective(check_queue')
  BY AccountTypes, TailSet DEF UniqueInv
<1> HIDE DEF r
<1>2. \A q \in Requests : q # r => check'[q] = check[q]
  BY AccountTypes DEF r
<1>3. UNCHANGED <<check_cbq, verdict>> /\ Answered' = Answered
  BY DEF Answered
<1>4. \A q \in ToSet(check_queue') : check'[q] = <<>>
  BY <1>1, <1>2, AccountTypes DEF UniqueInv
<1>5. ASSUME NEW l \in ToSet(check_cbq)
      PROVE  l.of \in Requests /\ l.of # r
  BY <1>1, AccountTypes DEF UniqueInv
<1>6. ASSUME NEW q \in Answered
      PROVE  verdict[q].of \in Requests /\ verdict[q].of # r
  BY <1>1, AccountTypes DEF UniqueInv
<1> QED BY <1>1, <1>2, <1>3, <1>4, <1>5, <1>6 DEF UniqueInv

LEMMA CheckSiteUnique ==
    ASSUME AdmissionInv, UniqueInv, NEW r \in Requests, CheckSite(r)
    PROVE  UniqueInv'
<1> USE DEF CheckSite, expressVars
<1>1. \A q \in Requests : check[q] = <<>> => check'[q] = <<>>
  BY AccountTypes
<1>2. UNCHANGED <<check_queue, check_cbq, verdict>> /\ Answered' = Answered
  BY DEF Answered
<1>3. /\ \A q \in ToSet(check_queue) : q \in Requests
      /\ \A l \in ToSet(check_cbq) : l.of \in Requests
      /\ \A q \in Answered : verdict[q].of \in Requests
  BY AccountTypes
<1> QED BY <1>1, <1>2, <1>3 DEF UniqueInv

LEMMA ReplyUnique ==
    ASSUME AdmissionInv, UniqueInv, NEW r \in Requests, Reply(r)
    PROVE  UniqueInv'
<1> USE DEF Reply, expressVars
<1> DEFINE list == [unindexed |-> check[r].tmp, of |-> r]
<1>1. list \in CleanLists /\ list.of = r
  BY DEF AdmissionInv, CheckInv
<1>2. check_cbq' = Append(check_cbq, list)  OBVIOUS
<1> HIDE DEF list
<1>3. check[r] # <<>> /\ check'[r] = <<>>
      /\ \A q \in Requests : check[q] = <<>> => check'[q] = <<>>
  BY AccountTypes
<1>4. /\ r \notin ToSet(check_queue)
      /\ \A l \in ToSet(check_cbq) : l.of # r
      /\ \A q \in Answered : verdict[q].of # r
  BY <1>3 DEF UniqueInv
<1>5. /\ ToSet(check_cbq') = ToSet(check_cbq) \cup {list}
      /\ IsInjective(check_cbq')
  BY <1>1, <1>2, <1>4, AccountTypes, AppendSet DEF UniqueInv
<1>6. UNCHANGED <<check_queue, verdict>> /\ Answered' = Answered
  BY DEF Answered
<1>7. /\ \A q \in ToSet(check_queue) : q \in Requests
      /\ \A l \in ToSet(check_cbq) : l.of \in Requests
      /\ \A q \in Answered : verdict[q].of \in Requests
  BY AccountTypes
<1>8. ASSUME NEW l \in ToSet(check_cbq')
      PROVE  /\ l.of \notin ToSet(check_queue) /\ check'[l.of] = <<>>
             /\ \A m \in ToSet(check_cbq') : l.of = m.of => l = m
             /\ \A q \in Answered : verdict[q].of # l.of
  <2>1. CASE l = list  BY <2>1, <1>1, <1>3, <1>4, <1>5
  <2>2. CASE l \in ToSet(check_cbq)
    BY <2>2, <1>1, <1>3, <1>4, <1>5, <1>7 DEF UniqueInv
  <2> QED BY <2>1, <2>2, <1>5
<1> QED BY <1>3, <1>5, <1>6, <1>7, <1>8 DEF UniqueInv

LEMMA CheckFailsUnique ==
    ASSUME AdmissionInv, UniqueInv, NEW r \in Requests, CheckFails(r)
    PROVE  UniqueInv'
<1> USE DEF CheckFails, expressVars
<1>1. \A q \in Requests : check[q] = <<>> => check'[q] = <<>>
  BY AccountTypes
<1>2. UNCHANGED <<check_queue, check_cbq, verdict>> /\ Answered' = Answered
  BY DEF Answered
<1>3. /\ \A q \in ToSet(check_queue) : q \in Requests
      /\ \A l \in ToSet(check_cbq) : l.of \in Requests
      /\ \A q \in Answered : verdict[q].of \in Requests
  BY AccountTypes
<1> QED BY <1>1, <1>2, <1>3 DEF UniqueInv

\* The promise of r is resolved by a reply that nobody else gets; r need not be
\* the request it was made for.
LEMMA VerdictUnique ==
    ASSUME AdmissionInv, UniqueInv, NEW r \in Requests, Verdict(r)
    PROVE  UniqueInv' /\ Sent' = Sent
<1> USE DEF Verdict
<1> DEFINE reply == Head(check_cbq)
<1>1. /\ reply \in ToSet(check_cbq)
      /\ ToSet(check_cbq') = ToSet(check_cbq) \ {reply}
      /\ IsInjective(check_cbq')
  BY AccountTypes, TailSet DEF UniqueInv
<1>2. UNCHANGED <<check_queue, check>>  OBVIOUS
<1>3. CASE request[r] # "waiting"
  <2>1. UNCHANGED <<verdict, request>>  BY <1>3
  <2>2. Answered' = Answered /\ Sent' = Sent  BY <2>1 DEF Answered, Sent
  <2> QED BY <1>1, <1>2, <2>1, <2>2 DEF UniqueInv
<1>4. CASE request[r] = "waiting"
  <2>1. /\ verdict' = [verdict EXCEPT ![r] = reply]
        /\ \A q \in Requests : q # r => request'[q] = request[q]
        /\ request'[r] \in {"admitted", "refused"}
    BY <1>4, AccountTypes
  <2> HIDE DEF reply
  <2>2. /\ verdict'[r] = reply
        /\ \A q \in Requests : q # r => verdict'[q] = verdict[q]
    BY <2>1, AccountTypes
  <2>3. Answered' = Answered \cup {r} /\ r \notin Answered
    BY <1>4, <2>1 DEF Answered
  <2>4. Sent' = Sent
    BY <1>4, <2>1, <2>2 DEF Sent
  <2>5. ASSUME NEW q \in Answered'
        PROVE  /\ verdict'[q].of \notin ToSet(check_queue)
               /\ check[verdict'[q].of] = <<>>
               /\ \A l \in ToSet(check_cbq') : l.of # verdict'[q].of
    <3>1. CASE q = r  BY <3>1, <1>1, <2>2 DEF UniqueInv
    <3>2. CASE q # r
      BY <3>2, <1>1, <2>2, <2>3, AccountTypes DEF UniqueInv
    <3> QED BY <3>1, <3>2
  <2>6. ASSUME NEW q \in Answered', NEW p \in Answered', verdict'[p].of = verdict'[q].of
        PROVE  p = q
    <3>1. CASE q = r /\ p # r
      BY <3>1, <1>1, <2>2, <2>3, <2>6, AccountTypes DEF UniqueInv
    <3>2. CASE q # r /\ p = r
      BY <3>2, <1>1, <2>2, <2>3, <2>6, AccountTypes DEF UniqueInv
    <3>3. CASE q # r /\ p # r
      BY <3>3, <2>2, <2>3, <2>6, AccountTypes DEF UniqueInv
    <3> QED BY <3>1, <3>2, <3>3
  <2> QED BY <1>1, <1>2, <2>4, <2>5, <2>6 DEF UniqueInv
<1> QED BY <1>3, <1>4

\* No other promise was resolved by the list that r sends, so that it was not
\* sent before.
LEMMA SendPlaced ==
    ASSUME AdmissionInv, UniqueInv, PlacedInv, NEW r \in Requests, SendCrawlList(r)
    PROVE  UniqueInv' /\ PlacedInv'
<1> USE DEF SendCrawlList, checkVars, crawlerVars
<1>1. /\ UNCHANGED <<check_queue, check, check_cbq, verdict, inbox, crawls, abandoned>>
      /\ request[r] = "admitted" /\ request'[r] = "sent"
      /\ \A q \in Requests : q # r => request'[q] = request[q]
  BY AccountTypes
<1>2. Answered' = Answered /\ r \in Answered  BY <1>1 DEF Answered
<1>3. UniqueInv'  BY <1>1, <1>2, UniqueFrame
<1>4. Sent' = Sent \cup {verdict[r]}  BY <1>1 DEF Sent
<1>5. verdict[r] \notin Sent
  <2>1. \A q \in Requests : request[q] = "sent" => q \in Answered /\ q # r
    BY <1>1 DEF Answered
  <2> QED BY <1>2, <2>1 DEF Sent, UniqueInv
<1>6. verdict[r] \notin ToSet(request_queue) \cup ToSet(inbox) \cup crawls \cup abandoned
  BY <1>5 DEF PlacedInv, ListsAccounted, Sent
<1>7. /\ ToSet(request_queue') = ToSet(request_queue) \cup {verdict[r]}
      /\ IsInjective(request_queue')
  BY <1>2, <1>6, AccountTypes, AppendSet DEF PlacedInv
<1>8. PlacedInv'
  <2>1. ListsAccounted'
    BY <1>1, <1>4, <1>6, <1>7 DEF PlacedInv, ListsAccounted, Sent
  <2> QED BY <1>1, <1>6, <1>7, <2>1 DEF PlacedInv
<1> QED BY <1>3, <1>8

LEMMA DeliverPlaced ==
    ASSUME AdmissionInv, PlacedInv, DeliverRequest
    PROVE  PlacedInv'
<1> USE DEF DeliverRequest, expressVars
<1> DEFINE list == Head(request_queue)
<1>1. /\ list \in ToSet(request_queue) /\ list \in CleanLists
      /\ ToSet(request_queue') = ToSet(request_queue) \ {list}
      /\ IsInjective(request_queue')
  BY AccountTypes, TailSet DEF PlacedInv
<1>2. crawls' = crawls /\ Sent' = Sent  BY DEF Sent
<1>3. list \notin ToSet(inbox) \cup crawls \cup abandoned
  BY <1>1 DEF PlacedInv, ListsAccounted
<1>4. CASE inbox' = Append(inbox, list) /\ UNCHANGED abandoned
  <2> HIDE DEF list
  <2>1. ToSet(inbox') = ToSet(inbox) \cup {list} /\ IsInjective(inbox')
    BY <1>1, <1>3, <1>4, AccountTypes, AppendSet DEF PlacedInv
  <2>2. ListsAccounted'
    BY <1>1, <1>2, <1>3, <1>4, <2>1 DEF PlacedInv, ListsAccounted, Sent
  <2> QED BY <1>1, <2>1, <2>2 DEF PlacedInv
<1>5. CASE abandoned' = abandoned \cup {list} /\ UNCHANGED inbox
  <2> HIDE DEF list
  <2>1. ListsAccounted'
    BY <1>1, <1>2, <1>3, <1>5 DEF PlacedInv, ListsAccounted, Sent
  <2> QED BY <1>1, <1>5, <2>1 DEF PlacedInv
<1> QED BY <1>4, <1>5

LEMMA StartCrawlPlaced ==
    ASSUME AdmissionInv, PlacedInv, StartCrawl
    PROVE  PlacedInv'
<1> USE DEF StartCrawl, expressVars
<1> DEFINE list == Head(inbox)
           rest == ToSet(Tail(inbox))
<1>1. ToSet(inbox) = {list} \cup rest /\ list \notin rest
  BY AccountTypes, TailSet DEF PlacedInv
<1>2. /\ crawls' = crawls \cup {list} /\ abandoned' = abandoned \cup rest
      /\ request_queue' = request_queue /\ Sent' = Sent
  BY DEF Sent
<1> HIDE DEF list, rest
<1>3. ToSet(inbox') = {} /\ IsInjective(inbox')
  BY DEF ToSet, IsInjective
<1>4. ListsAccounted'
  BY <1>1, <1>2, <1>3 DEF PlacedInv, ListsAccounted, Sent
<1> QED BY <1>2, <1>3, <1>4 DEF PlacedInv

LEMMA InitAccount == Init => AccountInv
<1> SUFFICES ASSUME Init PROVE AccountInv  OBVIOUS
<1> USE DEF Init
<1>1. ToSet(<<>>) = {} /\ IsInjective(<<>>)  BY DEF ToSet, IsInjective
<1>2. Answered = {} /\ Sent = {}  BY DEF Answered, Sent
<1>3. UniqueInv  BY <1>1, <1>2 DEF UniqueInv
<1>4. PlacedInv  BY <1>1, <1>2 DEF PlacedInv, ListsAccounted, Sent
<1> QED BY <1>3, <1>4, InitAdmission DEF AccountInv

LEMMA EveryStepKept ==
    ASSUME AccountInv, [Next]_vars
    PROVE  UniqueInv' /\ PlacedInv'
<1> USE DEF AccountInv
<1> DEFINE Kept == UniqueInv' /\ PlacedInv'
<1> HIDE DEF Kept
<1> SUFFICES Kept  BY DEF Kept
<1>1. CASE UNCHANGED <<request, verdict, check_queue, check, check_cbq, request_queue,
                       inbox, crawls, abandoned>>
  <2>1. Answered' = Answered /\ Sent' = Sent  BY <1>1 DEF Answered, Sent
  <2> QED BY <1>1, <2>1, UniqueFrame, PlacedFrame DEF Kept
<1>2. CASE UNCHANGED <<request, verdict, request_queue, inbox, crawls, abandoned>>
           /\ UniqueInv'
  <2>1. Sent' = Sent  BY <1>2 DEF Sent
  <2> QED BY <1>2, <2>1, PlacedFrame DEF Kept
<1>3. CASE UNCHANGED <<request, verdict, check_queue, check, check_cbq>> /\ PlacedInv'
  <2>1. Answered' = Answered  BY <1>3 DEF Answered
  <2> QED BY <1>3, <2>1, UniqueFrame DEF Kept
<1>4. CASE Consume \/ ConsumeRequests
  BY <1>1, <1>4 DEF Consume, ConsumeRequests, expressVars, checkVars, crawlerVars
<1>5. CASE DBCheck
  BY <1>2, <1>5, DBCheckUnique DEF DBCheck, expressVars, crawlerVars
<1>6. CASE DeliverRequest
  BY <1>3, <1>6, DeliverPlaced DEF DeliverRequest, expressVars, checkVars
<1>7. CASE StartCrawl
  BY <1>3, <1>7, StartCrawlPlaced DEF StartCrawl, expressVars, checkVars
<1>8. ASSUME NEW r \in Requests, Verdict(r) PROVE Kept
  BY <1>8, VerdictUnique, PlacedFrame DEF Kept, Verdict, crawlerVars
<1>9. ASSUME NEW r \in Requests, SendCrawlList(r) PROVE Kept
  BY <1>9, SendPlaced DEF Kept
<1>10. ASSUME NEW r \in Requests, CheckSite(r) \/ Reply(r) \/ CheckFails(r) PROVE Kept
  <2>1. UniqueInv'
    BY <1>10, CheckSiteUnique, ReplyUnique, CheckFailsUnique
  <2> QED BY <1>2, <1>10, <2>1
          DEF CheckSite, Reply, CheckFails, expressVars, crawlerVars
<1>11. ASSUME NEW r \in Requests, Post(r) PROVE Kept
  BY <1>11, PostUnique, PlacedFrame DEF Kept, Post, crawlerVars
<1>12. ASSUME NEW h \in Sites, SiteIndexed(h) PROVE Kept
  BY <1>1, <1>12 DEF SiteIndexed, expressVars, checkVars, crawlerVars
<1>13. CASE UNCHANGED vars
  BY <1>1, <1>13 DEF vars, expressVars, checkVars, crawlerVars
<1> QED
  BY <1>4, <1>5, <1>6, <1>7, <1>8, <1>9, <1>10, <1>11, <1>12, <1>13
  DEF Next, ServerStep

LEMMA NextAccount == AccountInv /\ [Next]_vars => AccountInv'
  BY EveryStepKept, NextAdmission DEF AccountInv

\* For all requests, replies and consumers: the lists sent to the crawler are its
\* crawls, what was delivered to consumers that nobody reads, and what waits; no
\* list is in two of these, so that none is started twice (crawler main.go:85).
THEOREM EveryListAccounted == Spec => []ListsAccounted
<1>1. AccountInv => ListsAccounted  BY DEF AccountInv, PlacedInv
<1> QED BY <1>1, InitAccount, NextAccount, PTL DEF Spec
=============================================================================
