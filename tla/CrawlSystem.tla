----------------------------- MODULE CrawlSystem -----------------------------
(***************************************************************************)
(* The crawler service (src/crawler) driving the database service          *)
(* (FrontierService, PageIndexing) through the broker.  Each crawler of a  *)
(* CrawlerManager is two goroutines: the loop of CrawlerManager.Crawl and  *)
(* the listener Queue.ListenDequeuedUrl, joined by a channel of capacity   *)
(* 1.  All crawlers consume the same reply queues, to which the broker     *)
(* delivers round robin, and none ever cancels its consumers.  The         *)
(* crawlers of one manager drive one Selenium session.                     *)
(***************************************************************************)
EXTENDS PageIndexing

CONSTANTS
    Crawlers,
    Seed,        \* Seed[c]: the entry point of crawler c
    Jobs, Job,   \* Job[c]: the crawl request, hence CrawlerManager, of c
    Links,       \* Links[u]: the urls page u links to
    NavMayFail,    \* may a page fail to load MAX_RETRIES times?
    ScriptMayFail  \* may the script that gathers the links of a page fail?

ASSUME CrawlAssumption ==
    /\ Seed \in [Crawlers -> Urls]
    /\ Job \in [Crawlers -> Jobs]
    /\ Links \in [Urls -> SUBSET Urls]
    /\ NavMayFail \in BOOLEAN
    /\ ScriptMayFail \in BOOLEAN

VARIABLES
    cr,         \* cr[c]: the loop of crawler c
    out,        \* out[c]: links its Enqueue goroutine is about to publish
    dlv,        \* dlv[c]: replies delivered to its listener
    chan,       \* chan[c]: the buffer of its QueueChann
    ring,       \* consumers of cr_db_dequeue_cbq, next to be served first
    len_ring,   \* consumers of cr_db_getlen_cbq
    wd,         \* wd[j]: the page the Selenium session of job j shows
    verdict,    \* verdict[j]: what POST /crawl answers to request j
    sent,       \* history: urls published to cr_db_indexing_queue
    mute        \* mute[c]: history: its last page has enqueued nothing

frontier == vars
crawling == <<cr, out, dlv, chan, ring, len_ring, wd, verdict, sent, mute>>
sysvars  == <<frontier, indexing, crawling>>

Root(c) == HostOf[Seed[c]]

\* The channel is closed exactly when the loop has ended on an End reply;
\* "past": it did so before the system was stopped.
Closed(c)  == cr[c].pc = "done"
Refused(c) == cr[c].pc = "new" /\ verdict[Job[c]] = "refused"
Over(c)    == cr[c].pc \in {"done", "stopped", "past"} \/ Refused(c)

\* What processes and broker hold when they start, after `ended` finished.
Volatile(ended) ==
    [cr  |-> [c \in Crawlers |-> [pc |-> IF c \in ended THEN "past" ELSE "new",
                                  url |-> Seed[c]]],
     out |-> [c \in Crawlers |-> {}],
     seq |-> [c \in Crawlers |-> <<>>],
     wd  |-> [j \in Jobs |-> NoPage],
     verdict |-> [j \in Jobs |-> "none"],
     mute    |-> [c \in Crawlers |-> FALSE]]

CrawlInit ==
    LET v == Volatile({}) IN
    /\ cr = v.cr /\ out = v.out /\ dlv = v.seq /\ chan = v.seq /\ wd = v.wd
    /\ ring = <<>> /\ len_ring = <<>>
    /\ verdict = v.verdict /\ mute = v.mute
    /\ sent = {}

SystemInit == Init /\ IndexingInit /\ CrawlInit

----------------------------------------------------------------------------
(* When one process ends the orchestrator stops all: what the processes    *)
(* and the broker hold is lost.  A user may ask again for what was not     *)
(* finished.                                                               *)

LoseVolatile ==
    LET v == Volatile({c \in Crawlers : cr[c].pc \in {"done", "past"}}) IN
    /\ cr' = v.cr /\ out' = v.out /\ dlv' = v.seq /\ chan' = v.seq
    /\ wd' = v.wd /\ verdict' = v.verdict /\ mute' = v.mute
    /\ ring' = <<>> /\ len_ring' = <<>>
    /\ sav' = [p \in SaveSlots |-> NotSaving]
    /\ UNCHANGED <<sent, sites, webpages>>

SystemCrash == Crash /\ LoseVolatile
SystemRestart == Restart /\ UNCHANGED <<indexing, crawling>>

\* A step of a frontier handler, which may throw.
DatabaseStep(s) ==
    /\ HandlerStep(s)
    /\ IF svc' = "up" THEN UNCHANGED <<indexing, crawling>>
                      ELSE LoseVolatile

IndexingStep(p) ==
    \/ SaveStep(p) /\ UNCHANGED <<frontier, crawling>>
    \/ FailsToSave(p) /\ Throw /\ LoseVolatile

----------------------------------------------------------------------------
(* The broker hands a reply to the next consumer of its queue *)

Rotate(r) == Append(Tail(r), Head(r))

DeliverReply ==
    /\ ring # <<>>
    /\ TakeReply
    /\ dlv' = [dlv EXCEPT ![Head(ring)] = Append(@, Head(cbq))]
    /\ ring' = Rotate(ring)
    /\ UNCHANGED <<indexing, cr, out, chan, len_ring, wd, verdict, sent, mute>>

\* Only a loop that waits in Queue.Len reads its consumer; with another one
\* the reply is lost.
DeliverLen ==
    LET c == Head(len_ring) IN
    /\ len_ring # <<>>
    /\ TakeLen
    /\ cr' = IF cr[c].pc # "await_len" THEN cr
             ELSE IF Head(len_cbq).empty
                    THEN [cr EXCEPT ![c] = [pc |-> "navigate",
                                            url |-> Seed[c]]]
                    ELSE [cr EXCEPT ![c].pc = "force_dequeue"]
    /\ len_ring' = Rotate(len_ring)
    /\ UNCHANGED <<indexing, out, dlv, chan, ring, wd, verdict, sent, mute>>

----------------------------------------------------------------------------
(* The listener: ListenDequeuedUrl *)

Listen(c) ==
    /\ cr[c].pc \notin {"new", "past"}
    /\ \A i \in 1..Len(ring) : ring[i] # c
    /\ ring' = Append(ring, c)
    /\ UNCHANGED <<frontier, indexing, cr, out, dlv, chan, len_ring, wd,
                   verdict, sent, mute>>

Forward(c) ==
    /\ dlv[c] # <<>>
    /\ ~Closed(c)
    /\ chan[c] = <<>>
    /\ chan' = [chan EXCEPT ![c] = <<Head(dlv[c])>>]
    /\ dlv' = [dlv EXCEPT ![c] = Tail(@)]
    /\ UNCHANGED <<frontier, indexing, cr, out, ring, len_ring, wd, verdict,
                   sent, mute>>

\* A send on a closed channel ends the process.
Panic(c) ==
    /\ dlv[c] # <<>>
    /\ Closed(c)
    /\ Throw
    /\ LoseVolatile

----------------------------------------------------------------------------
(* The loop: Crawl, crawl, ProcessUrl, SendIndexedWebpage *)

\* POST /crawl: the list is refused if checkIndexedWebpage finds a site of it,
\* that is if a page of it was saved; a request that crashed is posted again.
Admit(j) ==
    LET posted == {c \in Crawlers : Job[c] = j /\ cr[c].pc = "new"} IN
    /\ svc = "up"
    /\ verdict[j] = "none"
    /\ posted # {}
    /\ verdict' = [verdict EXCEPT ![j] =
                     IF \A c \in posted : Root(c) \notin sites
                       THEN "admitted" ELSE "refused"]
    /\ UNCHANGED <<frontier, indexing, cr, out, dlv, chan, ring, len_ring, wd,
                   sent, mute>>

Start(c) ==
    /\ cr[c].pc = "new"
    /\ verdict[Job[c]] = "admitted"
    /\ \E s \in Slots : GetLen(s, Root(c))
    /\ cr' = [cr EXCEPT ![c].pc = "consume_len"]
    /\ UNCHANGED <<indexing, out, dlv, chan, ring, len_ring, wd, verdict,
                   sent, mute>>

ConsumeLen(c) ==
    /\ cr[c].pc = "consume_len"
    /\ cr' = [cr EXCEPT ![c].pc = "await_len"]
    /\ len_ring' = Append(len_ring, c)
    /\ UNCHANGED <<frontier, indexing, out, dlv, chan, ring, wd, verdict,
                   sent, mute>>

ForceDequeue(c) ==
    /\ cr[c].pc = "force_dequeue"
    /\ \E s \in Slots : Dequeue(s, Root(c))
    /\ cr' = [cr EXCEPT ![c].pc = "receive"]
    /\ UNCHANGED <<indexing, out, dlv, chan, ring, len_ring, wd, verdict,
                   sent, mute>>

Receive(c) ==
    /\ cr[c].pc = "receive"
    /\ chan[c] # <<>>
    /\ LET u == Head(chan[c]).url IN
       cr' = IF u = End THEN [cr EXCEPT ![c].pc = "done"]
                        ELSE [cr EXCEPT ![c] = [pc |-> "navigate", url |-> u]]
    /\ chan' = [chan EXCEPT ![c] = <<>>]
    /\ UNCHANGED <<frontier, indexing, out, dlv, ring, len_ring, wd, verdict,
                   sent, mute>>

Navigate(c) ==
    /\ cr[c].pc = "navigate"
    /\ cr' = [cr EXCEPT ![c].pc = "extract"]
    /\ wd' = [wd EXCEPT ![Job[c]] = cr[c].url]
    /\ UNCHANGED <<frontier, indexing, out, dlv, chan, ring, len_ring,
                   verdict, sent, mute>>

\* After MAX_RETRIES the crawler gives up, without a word to the database.
NavigateFails(c) ==
    /\ NavMayFail
    /\ cr[c].pc = "navigate"
    /\ cr' = [cr EXCEPT ![c].pc = "stopped"]
    /\ UNCHANGED <<frontier, indexing, out, dlv, chan, ring, len_ring, wd,
                   verdict, sent, mute>>

\* The five seconds between loading a page and reading it outlast every
\* handler that was running for the host.
Settled(c) == /\ Active(Root(c)) = {}
              /\ Saving(Root(c)) = {}
              /\ out[c] = {}

\* The links that the page shown names on its own host; if the script that
\* gathers them fails, there are none.
Found(c) == {Links[wd[Job[c]]] \cap UrlsOf(Root(c))}
                \cup (IF ScriptMayFail THEN {{}} ELSE {})

\* Mutated form of ExtractLinks: the loop over the links ends after the first.
ExtractLink(c) ==
    /\ cr[c].pc = "extract"
    /\ Settled(c)
    /\ \E found \in Found(c) :
          /\ out' = [out EXCEPT ![c] = IF found = {} THEN {}
                                       ELSE {CHOOSE u \in found : TRUE}]
          /\ mute' = [mute EXCEPT ![c] = found = {}]
    /\ cr' = [cr EXCEPT ![c].pc = "index"]
    /\ UNCHANGED <<frontier, indexing, dlv, chan, ring, len_ring, wd, verdict,
                   sent>>

\* Without a link the page asks for nothing.
ExtractLinks(c) ==
    /\ cr[c].pc = "extract"
    /\ Settled(c)
    /\ \E found \in Found(c) :
          /\ out' = [out EXCEPT ![c] = found]
          /\ mute' = [mute EXCEPT ![c] = found = {}]
    /\ cr' = [cr EXCEPT ![c].pc = "index"]
    /\ UNCHANGED <<frontier, indexing, dlv, chan, ring, len_ring, wd, verdict,
                   sent>>

\* The goroutine that runs Queue.Enqueue.
PublishLinks(c) ==
    /\ out[c] # {}
    /\ \E s \in Slots : Enqueue(s, Root(c), out[c])
    /\ out' = [out EXCEPT ![c] = {}]
    /\ UNCHANGED <<indexing, cr, dlv, chan, ring, len_ring, wd, verdict, sent,
                   mute>>

\* Mutated form of IndexPage: the crawler asks for the next url itself,
\* although enqueuing already makes the service send one.
IndexPageAndAsk(c) ==
    /\ cr[c].pc = "index"
    /\ svc = "up"
    /\ \E p \in SaveSlots : Save(p, [seed |-> Root(c), url |-> cr[c].url,
                                     from |-> wd[Job[c]]])
    /\ cr' = [cr EXCEPT ![c].pc = "force_dequeue"]
    /\ sent' = sent \cup {cr[c].url}
    /\ UNCHANGED <<frontier, out, dlv, chan, ring, len_ring, wd, verdict, mute>>

\* Index reads whatever page the session shows by now.
IndexPage(c) ==
    /\ cr[c].pc = "index"
    /\ svc = "up"
    /\ \E p \in SaveSlots : Save(p, [seed |-> Root(c), url |-> cr[c].url,
                                     from |-> wd[Job[c]]])
    /\ cr' = [cr EXCEPT ![c].pc = "receive"]
    /\ sent' = sent \cup {cr[c].url}
    /\ UNCHANGED <<frontier, out, dlv, chan, ring, len_ring, wd, verdict, mute>>

LoopStep(c) ==
    \/ ConsumeLen(c) \/ ForceDequeue(c) \/ Receive(c) \/ Navigate(c)
    \/ ExtractLinks(c) \/ IndexPage(c)

CrawlerStep(c) == LoopStep(c) \/ Listen(c) \/ Forward(c) \/ PublishLinks(c)

----------------------------------------------------------------------------

\* The three ways in which a crawl comes to rest with urls in its queue: it
\* gave up over a page, it waits for a url after a page that enqueued nothing,
\* or a page was saved before it was stopped, and the request is refused.
Stranded(c) == \/ cr[c].pc = "stopped"
               \/ cr[c].pc = "receive" /\ mute[c]
               \/ Refused(c)

\* The system rests, or has been stopped more often than the model counts.
Finished ==
    /\ \/ svc = "up" /\ \A c \in Crawlers : Over(c) \/ Stranded(c)
       \/ svc # "up" /\ restarts = MaxRestarts
    /\ UNCHANGED sysvars

SystemNext ==
    \/ \E s \in Slots : DatabaseStep(s)
    \/ \E p \in SaveSlots : IndexingStep(p)
    \/ DeliverReply \/ DeliverLen
    \/ \E c \in Crawlers : Start(c) \/ CrawlerStep(c) \/ NavigateFails(c)
                           \/ Panic(c)
    \/ \E j \in Jobs : Admit(j)
    \/ SystemCrash \/ SystemRestart
    \/ Finished

SystemSpec == SystemInit /\ [][SystemNext]_sysvars

\* Processes and broker make progress, a stopped system is started again and
\* users ask for their crawls.  Nothing has to fail.
FairSystemSpec ==
    /\ SystemSpec
    /\ \A s \in Slots : WF_sysvars(DatabaseStep(s))
    /\ \A p \in SaveSlots : WF_sysvars(IndexingStep(p))
    /\ WF_sysvars(DeliverReply) /\ WF_sysvars(DeliverLen)
    /\ WF_sysvars(SystemRestart)
    /\ \A j \in Jobs : WF_sysvars(Admit(j))
    /\ \A c \in Crawlers :
         /\ WF_sysvars(Start(c)) /\ WF_sysvars(LoopStep(c))
         /\ WF_sysvars(Listen(c)) /\ WF_sysvars(Forward(c))
         /\ WF_sysvars(PublishLinks(c))

----------------------------------------------------------------------------
(* Properties *)

\* One crawler drives the service as the serial client its correctness rests
\* on: it never asks for a host while an answer for it is under way.
CrawlerAsksSerially == SerialSpec

\* The tokens of a crawl: wherever the right to ask for the next url is.
Tokens(c) ==
    Cardinality(Asking(Root(c))) + Cardinality(Answers(Root(c)))
    + Len(dlv[c]) + Len(chan[c])
    + (IF out[c] # {} THEN 1 ELSE 0)
    + (IF cr[c].pc \in {"force_dequeue", "navigate", "extract"} THEN 1 ELSE 0)

\* A crawl never has two requests, replies or pages in progress at once: the
\* unbuffered second reply would block the listener, two pages would race.
OneToken == \A c \in Crawlers : Tokens(c) <= 1

InSave(u) == \E p \in SaveSlots : sav[p].pc # "idle" /\ sav[p].msg.url = u

\* The page u is fetched, or the reply that names it is still under way.
UnderWay(u) ==
    \/ \E i \in 1..Len(cbq) : cbq[i].url = u
    \/ \E c \in Crawlers :
          \/ \E i \in 1..Len(dlv[c]) : dlv[c][i].url = u
          \/ \E i \in 1..Len(chan[c]) : chan[c][i].url = u
          \/ cr[c].url = u /\ cr[c].pc \in {"navigate", "extract", "index"}
    \/ InSave(u)

\* A crawler has ended over the page u, which did not load.
GivenUp(u) == \E c \in Crawlers : cr[c].url = u /\ cr[c].pc = "stopped"

\* Nothing has stopped the system yet.
Undisturbed == svc = "up" /\ restarts = 0

\* The service records a url as visited before the page is even loaded, and
\* never hands it out again: until the page is stored somebody must hold it
\* (also in a reply that waits with a crawler that has ended), or have ended
\* over it, as long as nothing stops the system; however two crawls of one
\* site collide.
VisitedPageNotLost ==
    Undisturbed =>
       \A u \in visited_nodes : Stored(u) \/ UnderWay(u) \/ GivenUp(u)

\* How often the system has been stopped, and what that may cost: a page that
\* is being indexed and the url just handed out, or given up.  As neither is in
\* the queue any more, nobody loads the page when the crawl is resumed.
Stops == restarts + (IF svc = "up" THEN 0 ELSE 1)

LostPages ==
    {u \in visited_nodes : ~Stored(u) /\ ~UnderWay(u) /\ ~GivenUp(u)}

EachStopLosesTwo == Cardinality(LostPages) <= 2 * Stops

\* Pages whose text reached the database service and was thrown away.
Dropped == {u \in sent : ~Stored(u) /\ ~InSave(u) /\ ~UnderWay(u)}

\* saveWebpage drops a page of a known site without a queue, and the queue is
\* removed while the last page is on its way: until something stops the system
\* no other page may be lost.
OnlyLastPageDropped ==
    Undisturbed => \A h \in Hosts : LET D == Dropped \cap UrlsOf(h) IN
       Cardinality(D) <= 1 /\ (D # {} => ~queues[h].live)

\* "Dequeues the url in the current queue, the domain corresponds to the
\* crawler's current running job" (frontier_queue.go:11).
DequeuedUrlBelongsToJob ==
    \A c \in Crawlers : \A i \in 1..Len(chan[c]) :
       chan[c][i].for = Root(c)

\* Sessions are "placed into separate threads for handling multiple websites"
\* (webdriver/client.go:14): the text stored with a url is that page's text.
PageStoredUnderItsOwnUrl == \A u \in Urls : Stored(u) => webpages[u] = u

\* The pages of the host that can be reached from the seed.
Reachable(c) ==
    {u \in UrlsOf(Root(c)) :
       \A S \in SUBSET UrlsOf(Root(c)) :
          /\ Seed[c] \in S
          /\ \A v \in S : Links[v] \cap UrlsOf(Root(c)) \subseteq S
          => u \in S}

\* As long as the system runs a crawl ends, and the first time has by then sent
\* every page of the site for indexing; it falls short only over a page that
\* does not load or gives no link.
CrawlCompletes ==
    \A c \in Crawlers :
       svc = "up" ~>
          \/ Over(c) /\ (Undisturbed => Reachable(c) \subseteq sent)
          \/ Stranded(c)
          \/ svc # "up"

\* What was enqueued is handed out in the end, and the queue resumed each time
\* the system is started again, unless the crawl of its host is stranded.  (A
\* url that is still queued when the system is started must be taken anew.)
QueuedUrlsAreTaken ==
    \A u \in Urls :
       nodes[u].status = "pending" ~>
          \/ nodes[u].status = "in_progress"
          \/ \E c \in Crawlers : Root(c) = HostOf[u] /\ Stranded(c)
          \/ svc # "up"

\* "ProcessUrl is called for every dequeued URL" and "enqueues" the links of
\* the page (page_navigator.go:88), by which the next url is asked for: while
\* pages load, what is queued is dequeued.
EveryQueuedUrlProcessed ==
    \A u \in Urls :
       nodes[u].status = "pending" ~> nodes[u].status = "in_progress"

\* Whatever a crawl asks for reaches it, through handler, broker and listener,
\* unless the system is stopped on the way: the loop blocks on the answer
\* without a timeout.
EveryRequestAnswered ==
    \A c \in Crawlers :
       /\ Asking(Root(c)) # {} ~> chan[c] # <<>> \/ svc # "up"
       /\ cr[c].pc \in {"consume_len", "await_len"} ~>
             cr[c].pc \in {"navigate", "force_dequeue"} \/ svc # "up"

\* A row that a crash between the INSERT and the DELETE of setNodeToVisited has
\* left both recorded and leased.
SplitLeft(u) ==
    /\ u \in visited_nodes /\ nodes[u].status = "in_progress"
    /\ \A s \in Slots : hnd[s].pc # "delete_node"

\* Crawls that were started since the system was.
Started == {c \in Crawlers : cr[c].pc \notin {"new", "past"}}

\* The system ends itself only where two crawls are run, whose handlers collide
\* on a site, a queue or a node and whose replies are sent on a closed channel,
\* or over a row that is handed out once more and cannot be recorded again.
ThrowsOnlyOnCollision ==
    [][svc = "up" /\ svc' = "threw" =>
          \/ Cardinality(Started) > 1
          \/ \E u \in Urls : SplitLeft(u)]_sysvars
=============================================================================
