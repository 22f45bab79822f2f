--------------------------- MODULE CrawlAdmission ---------------------------
(***************************************************************************)
(* From the list a user submits to the crawl that starts: POST /crawl and  *)
(* DBCheckHandler of the express server, the check of the database service *)
(* against indexed_sites, the browser that sends the admitted list back    *)
(* over its websocket, and the loop of the crawler's main.go.              *)
(*                                                                         *)
(* Two queues are consumed anew for every use and no consumer is ever      *)
(* cancelled.  The broker gives each message to the consumer at the front  *)
(* of a ring and moves that one to the back; a new consumer joins there.   *)
(***************************************************************************)
EXTENDS Integers, Sequences, FiniteSets

LOCAL INSTANCE SequencesExt

CONSTANTS
    Requests,     \* the POST /crawl requests
    Sites,        \* host names
    Docs,         \* Docs[r]: the list in the body of request r
    Indexed,      \* sites in indexed_sites at the start
    MaxFailures   \* bound on the checks that throw

ASSUME AdmissionAssumption ==
    /\ Docs \in [Requests -> Seq(Sites) \ {<<>>}]
    /\ Indexed \subseteq Sites
    /\ MaxFailures \in Nat

VARIABLES
    request,        \* request[r]: the handler of POST /crawl, then the browser
    verdict,        \* verdict[r]: the reply that resolved its promise, or <<>>
    consuming,      \* basic.consume frames on their way to es_db_check_cbq
    check_queue,    \* es_db_check_queue: requests whose list is to be checked
    check,          \* check[r]: checkIndexedWebpage, [todo, tmp], or <<>>
    check_cbq,      \* es_db_check_cbq: the replies
    check_ring,     \* its consumers: the requests that consumed it
    lost_verdicts,  \* replies that resolved a promise for the second time
    request_queue,  \* es_cr_request_queue: the lists to crawl
    crawl_ring,     \* its consumers, numbered
    consumer,       \* the consumer the crawler's loop reads
    reading,        \* whether it waits for a list, or is about to consume anew
    inbox,          \* lists delivered to that consumer
    abandoned,      \* lists delivered to a consumer nobody reads
    crawls,         \* lists whose crawl was started
    indexed_sites,
    before,         \* history: before[r]: the sites indexed when r was posted
    failures        \* number of checks that threw

expressVars == <<request, verdict, consuming, check_ring, lost_verdicts>>
checkVars   == <<check_queue, check, check_cbq, failures>>
crawlerVars == <<crawl_ring, consumer, reading, inbox, abandoned, crawls>>
vars == <<expressVars, checkVars, request_queue, crawlerVars, indexed_sites, before>>

Init ==
    /\ request = [r \in Requests |-> "idle"]
    /\ verdict = [r \in Requests |-> <<>>]
    /\ consuming = <<>> /\ check_queue = <<>>
    /\ check = [r \in Requests |-> <<>>]
    /\ check_cbq = <<>> /\ check_ring = <<>> /\ lost_verdicts = {}
    /\ request_queue = <<>> /\ crawl_ring = <<>>
    /\ consumer = 0 /\ reading = FALSE
    /\ inbox = <<>> /\ abandoned = {} /\ crawls = {}
    /\ indexed_sites = Indexed
    /\ before = [r \in Requests |-> {}]
    /\ failures = 0

\* A consumer that was served goes to the back.
Rotate(ring) == Append(Tail(ring), Head(ring))

----------------------------------------------------------------------------
(* The express server *)

\* POST /crawl publishes the list on one channel and consumes the queue of the
\* replies on another.
Post(r) ==
    /\ request[r] = "idle"
    /\ request' = [request EXCEPT ![r] = "waiting"]
    /\ check_queue' = Append(check_queue, r)
    /\ consuming' = Append(consuming, r)
    /\ before' = [before EXCEPT ![r] = indexed_sites]
    /\ UNCHANGED <<verdict, check_ring, lost_verdicts, check, check_cbq, failures,
                   request_queue, crawlerVars, indexed_sites>>

Consume ==
    /\ consuming # <<>>
    /\ consuming' = Tail(consuming)
    /\ check_ring' = Append(check_ring, Head(consuming))
    /\ UNCHANGED <<request, verdict, lost_verdicts, checkVars, request_queue,
                   crawlerVars, indexed_sites, before>>

\* A list is refused if a site of it is indexed; only its length is compared.
Admits(r, unindexed) == unindexed # <<>> /\ Len(unindexed) = Len(Docs[r])

\* A reply reaches the consumer of request r, acknowledged whatever it finds: a
\* promise is resolved only once.
Verdict(r) ==
    LET reply == Head(check_cbq) IN
    /\ check_cbq # <<>> /\ check_ring # <<>>
    /\ r = Head(check_ring)
    /\ check_cbq' = Tail(check_cbq)
    /\ check_ring' = Rotate(check_ring)
    /\ IF request[r] = "waiting"
         THEN /\ verdict' = [verdict EXCEPT ![r] = reply]
              /\ request' = [request EXCEPT ![r] =
                    IF Admits(r, reply.unindexed) THEN "admitted" ELSE "refused"]
              /\ UNCHANGED lost_verdicts
         ELSE /\ lost_verdicts' = lost_verdicts \cup {reply.of}
              /\ UNCHANGED <<verdict, request>>
    /\ UNCHANGED <<consuming, check_queue, check, failures, request_queue,
                   crawlerVars, indexed_sites, before>>

\* The browser sends the list it got back over its websocket, and the message
\* handler publishes it to the crawler (Crawl).
SendCrawlList(r) ==
    /\ request[r] = "admitted"
    /\ request' = [request EXCEPT ![r] = "sent"]
    /\ request_queue' = Append(request_queue, verdict[r])
    /\ UNCHANGED <<verdict, consuming, check_ring, lost_verdicts, checkVars, crawlerVars,
                   indexed_sites, before>>

----------------------------------------------------------------------------
(* The database service: DBCheckHandler and checkIndexedWebpage, one await *)
(* per site.  Handlers of several requests interleave.                     *)

DBCheck ==
    LET r == Head(check_queue) IN
    /\ check_queue # <<>>
    /\ check_queue' = Tail(check_queue)
    /\ check' = [check EXCEPT ![r] = [todo |-> Docs[r], tmp |-> <<>>]]
    /\ UNCHANGED <<expressVars, check_cbq, failures, request_queue, crawlerVars,
                   indexed_sites, before>>

\* Mutated form of CheckSite: the answer is taken the wrong way round.
CheckSiteInverted(r) ==
    /\ check[r] # <<>> /\ check[r].todo # <<>>
    /\ check' = [check EXCEPT ![r] =
          [todo |-> Tail(@.todo),
           tmp  |-> IF Head(@.todo) \in indexed_sites
                      THEN Append(@.tmp, Head(@.todo)) ELSE @.tmp]]
    /\ UNCHANGED <<expressVars, check_queue, check_cbq, failures, request_queue,
                   crawlerVars, indexed_sites, before>>

CheckSite(r) ==
    /\ check[r] # <<>> /\ check[r].todo # <<>>
    /\ check' = [check EXCEPT ![r] =
          [todo |-> Tail(@.todo),
           tmp  |-> IF Head(@.todo) \in indexed_sites
                      THEN @.tmp ELSE Append(@.tmp, Head(@.todo))]]
    /\ UNCHANGED <<expressVars, check_queue, check_cbq, failures, request_queue,
                   crawlerVars, indexed_sites, before>>

\* Mutated form of Reply: the message is acknowledged and nothing sent.
ReplyAcknowledgedOnly(r) ==
    /\ check[r] # <<>> /\ check[r].todo = <<>>
    /\ check' = [check EXCEPT ![r] = <<>>]
    /\ UNCHANGED <<expressVars, check_queue, check_cbq, failures, request_queue,
                   crawlerVars, indexed_sites, before>>

Reply(r) ==
    /\ check[r] # <<>> /\ check[r].todo = <<>>
    /\ check' = [check EXCEPT ![r] = <<>>]
    /\ check_cbq' = Append(check_cbq, [unindexed |-> check[r].tmp, of |-> r])
    /\ UNCHANGED <<expressVars, check_queue, failures, request_queue, crawlerVars,
                   indexed_sites, before>>

\* A statement fails, or an entry of the list is not a URL: the message is
\* rejected, and no reply is sent.
CheckFails(r) ==
    /\ check[r] # <<>> /\ check[r].todo # <<>>
    /\ failures < MaxFailures
    /\ failures' = failures + 1
    /\ check' = [check EXCEPT ![r] = <<>>]
    /\ UNCHANGED <<expressVars, check_queue, check_cbq, request_queue, crawlerVars,
                   indexed_sites, before>>

\* saveWebpage records the first page of a site that is being crawled.
SiteIndexed(h) ==
    /\ \E l \in crawls : \E i \in 1..Len(l.unindexed) : l.unindexed[i] = h
    /\ indexed_sites' = indexed_sites \cup {h}
    /\ UNCHANGED <<expressVars, checkVars, request_queue, crawlerVars, before>>

----------------------------------------------------------------------------
(* The loop of the crawler's main.go *)

\* Mutated form of ConsumeRequests: the loop does not wait for a list.
ConsumeRequestsPolling ==
    /\ consumer < Cardinality(Requests)
    /\ consumer' = consumer + 1
    /\ crawl_ring' = Append(crawl_ring, consumer + 1)
    /\ reading' = TRUE
    /\ UNCHANGED <<expressVars, checkVars, request_queue, inbox, abandoned, crawls,
                   indexed_sites, before>>

ConsumeRequests ==
    /\ ~reading
    /\ consumer' = consumer + 1
    /\ crawl_ring' = Append(crawl_ring, consumer + 1)
    /\ reading' = TRUE
    /\ UNCHANGED <<expressVars, checkVars, request_queue, inbox, abandoned, crawls,
                   indexed_sites, before>>

DeliverRequest ==
    LET list == Head(request_queue) IN
    /\ request_queue # <<>> /\ crawl_ring # <<>>
    /\ request_queue' = Tail(request_queue)
    /\ crawl_ring' = Rotate(crawl_ring)
    /\ IF reading /\ Head(crawl_ring) = consumer
         THEN inbox' = Append(inbox, list) /\ UNCHANGED abandoned
         ELSE abandoned' = abandoned \cup {list} /\ UNCHANGED inbox
    /\ UNCHANGED <<expressVars, checkVars, consumer, reading, crawls, indexed_sites,
                   before>>

\* Mutated form of StartCrawl: the loop goes on with the same consumer.
StartCrawlAgain ==
    /\ reading /\ inbox # <<>>
    /\ crawls' = crawls \cup {Head(inbox)}
    /\ UNCHANGED <<expressVars, checkVars, request_queue, crawl_ring, consumer,
                   reading, inbox, abandoned, indexed_sites, before>>

\* The first list is acknowledged and its crawl started in a goroutine; what
\* else the consumer was given is never read.
StartCrawl ==
    /\ reading /\ inbox # <<>>
    /\ crawls' = crawls \cup {Head(inbox)}
    /\ abandoned' = abandoned \cup ToSet(Tail(inbox))
    /\ inbox' = <<>>
    /\ reading' = FALSE
    /\ UNCHANGED <<expressVars, checkVars, request_queue, crawl_ring, consumer,
                   indexed_sites, before>>

----------------------------------------------------------------------------

ServerStep ==
    \/ Consume \/ DBCheck \/ ConsumeRequests \/ DeliverRequest \/ StartCrawl
    \/ \E r \in Requests :
          \/ Verdict(r) \/ SendCrawlList(r)
          \/ CheckSite(r) \/ Reply(r) \/ CheckFails(r)

Next ==
    \/ ServerStep
    \/ \E r \in Requests : Post(r)
    \/ \E h \in Sites : SiteIndexed(h)

Spec == Init /\ [][Next]_vars

\* What was sent is delivered and handled; users need not submit a list, and a
\* crawl need not store a page.
FairSpec == Spec /\ WF_vars(ServerStep)

----------------------------------------------------------------------------
(* Properties *)

Lists == [unindexed : Seq(Sites), of : Requests]

\* No crawl is started for a site that was already indexed when its list was
\* submitted, however the replies are mixed up (database.ts:107, app/index.ts:95).
\* A site that is indexed after the check is crawled again.
NoIndexedSiteCrawled ==
    \A l \in crawls : \A i \in 1..Len(l.unindexed) :
       l.unindexed[i] \notin before[l.of]

\* A list is started at most once, and none that was abandoned or waits: the
\* lists sent to the crawler, each the verdict of one request, are somewhere.
ListsAccounted ==
    LET waiting == ToSet(request_queue) \cup ToSet(inbox) IN
    /\ crawls \cap abandoned = {}
    /\ (crawls \cup abandoned) \cap waiting = {}
    /\ crawls \cup abandoned \cup waiting
          = {verdict[r] : r \in {q \in Requests : request[q] = "sent"}}

\* The request whose consumer is the first to join the ring is answered, unless
\* a check fails (rabbitmq/index.ts:288).
FirstConsumerAnswered ==
    \A r \in Requests :
       check_ring = <<r>> /\ request[r] = "waiting" ~>
          request[r] # "waiting" \/ failures > 0

\* If a list is sent to the crawler, some crawl starts: the consumer that the
\* loop reads first is the first in the ring (main.go:85).
SomeCrawlStarts ==
    (\E r \in Requests : request[r] = "sent") ~> crawls # {}

\* "Check the users' crawl list if any of the items in that list exists on the
\* database if so then return only the ones that are not indexed."
\* (app/index.ts:95): the list that a browser sends to be crawled holds sites
\* of its user's own list only.
OwnVerdict ==
    \A r \in Requests : request[r] = "sent" =>
       ToSet(verdict[r].unindexed) \subseteq ToSet(Docs[r])
=============================================================================
