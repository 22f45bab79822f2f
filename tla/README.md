# Verification of zensearch

zensearch crawls web sites on request, stores the text of their pages and
answers search queries over them.  It is four services joined by a RabbitMQ
broker and a MySQL database.  This directory holds TLA+ models of the parts
whose correctness depends on interleavings, crashes and protocols, the TLC
configurations that check them on small instances, and TLAPS proofs of the
main results for every instance.

Everything is read from the code.  Where a comment of the code says something
else than the code does, a run shows the difference (section 6).

## 1. The system

| Component | Source | State | Operations |
|---|---|---|---|
| Frontier queue | `database/src/rabbitmq/index.ts` (CrawlerHandler), `database/src/database.ts`, `db.init.sql` | tables `queues`, `nodes`, `visited_nodes`; one handler activation per request | `enqueueUrls`, `dequeueURL`, `setNodeToVisited`, `removeQueue`, `getQueueLen` |
| Page indexing | `saveWebpage` in `database.ts` | tables `indexed_sites`, `webpages` | save a page, or drop it |
| Crawler | `crawler/internal/crawler`, `crawler/internal/rabbitmq`, `crawler/internal/webdriver` | per crawler: loop, listener goroutine, channel of capacity 1, Selenium session; consumers of two reply queues | `Crawl`, `ListenDequeuedUrl`, `Len`, `Dequeue`, `Enqueue`, `ProcessUrl`, `Index`, `SendIndexedWebpage` |
| Admission | `POST /crawl` in `express-server/src/app/index.ts`, both `DBCheckHandler`s, `checkIndexedWebpage`, `websocket/index.ts`, the loop of `crawler/main.go` | a consumer per request and per crawl, none ever cancelled | check the sites, start a crawl |
| Search pipeline | `GET /search`, `search-engine/main.go`, the webpage query of the database service | one segment generator in express, one query at a time in the engine | query, segmented answers |
| Segments | the three `segment_serializer` files, `circular_buffer.ts` | sequence numbers, buffer indices | split, join, buffer |
| BM25 ranking | `search-engine/internal/bm25` | chunk bounds under a mutex, an IDF channel | score chunks in goroutines |
| Notification | `express-server/src/websocket` | clients, unacknowledged messages, timers | send crawl results to the user |
| Orchestrator | `main.go`, `services.go`, `docker.go` | running processes and containers | start and stop all |
| Front end, command tree, scripts | `express-server/src/public`, `utils/tree`, `database/scripts` | none that the services use | |

How a crawl works.  The user posts a list of sites.  express asks the database
service which of them are indexed already; if none is, the browser sends the list
back over its websocket and express passes it to the crawler, which runs one
`Crawler` per site.  A crawler asks for the length of the site's
queue; it starts on the entry point if the queue is empty and otherwise asks for
a url.  For every page it loads, it sleeps, extracts the links of its own host,
enqueues them in one goroutine and sends the page's text to be saved in another.
The database service answers **every enqueue with the next url**: nothing else
keeps a crawl going.  Having published the reply, the service records the url as
visited, or removes the queue when it had no url to give.  The crawler ends when
it receives the empty url.

What is hard here.

* The database service consumes without a prefetch limit, so handlers of
  different requests interleave at every `await`; each reads the tables in one
  statement and acts on the answer in a later one.
* The reply is published before the url is recorded, the url is recorded before
  its page is loaded, and the page is saved by a message that races the one that
  removes the queue.
* Replies carry no correlation id and all crawlers consume the same queue.
* A handler that throws ends the Node process, and the orchestrator then stops
  everything: messages, which are transient, and goroutines are lost, tables stay.
* Errors of SQL statements are swallowed in one place and fatal in another.
* Express and the crawler consume a reply queue anew for every use and never
  cancel a consumer; the broker serves all of them in turn.
* The engine rates chunks of webpages in goroutines that read shared bounds
  outside the mutex under which they are written.
* The orchestrator shares containers, found by name, between the generations that
  successive "start" commands open, and keeps one cancel function for all.

What makes each part correct.

* Frontier: a url is handed out at most once per crawl, at most one is leased
  per host, no row is lost by a crash, a queue goes away only when it is drained,
  no constraint of the schema is ever violated, and every request is answered.
* Indexing: the text of every visited page is stored, once, under its own url.
* Crawler: it never has two requests or pages in progress, the urls it receives
  are of its own site, and the crawl ends with every reachable page visited.
* Admission, search, notification: every user request gets its own answer.
* Segments and buffer: what is joined is what was split; nothing unread is lost.
* Ranking: every document is scored exactly once and no goroutine blocks.
* Orchestrator: services start when their containers are up, what was cancelled
  comes down, and the program does not end by itself.

The list of everything in the code that is hard to test, with its lines and the
properties that cover it, is `hazards` in `PROJECT.json`.

## 2. Modules

| Module | Models | Extends |
|---|---|---|
| `FrontierStore` | the three tables and one operator per SQL statement | |
| `FrontierService` | the handlers over them, clients, crashes, the properties | `FrontierStore` |
| `FrontierInvariant` | the inductive invariant of the service | `FrontierService` |
| `Frontier` | the abstract work list the service promises | |
| `PageIndexing` | `saveWebpage` and its handler | `FrontierService` |
| `CrawlSystem` | the crawlers, the broker, and all of the above together | `PageIndexing` |
| `CircularBuffer` | the ring of segments in express, as operators | |
| `SearchPipeline` | a search through express, engine and database and back | `CircularBuffer` |
| `CrawlAdmission` | from the user's list to the crawl that starts, with the consumers nobody cancels | |
| `Segments` | `createSegments` of both senders and the receiving loops, over byte positions | |
| `Ranking` | `Tokenizer`, the IDF channel, the chunk goroutines of `CalculateBMRatings` | |
| `EngineAnswer` | one query in the engine: the database's segments joined, rated, cut again | `Segments`, `Ranking` |
| `Orchestrator` | commands, signal, containers and processes over several generations | |
| `MCFrontierService`, `MCCrawlSystem`, `MCSearchPipeline`, `MCCrawlAdmission`, `MCEngineAnswer`, `MCOrchestrator` | instances for TLC | |
| `FrontierProofs` | types, foreign keys and recorded rows, for any clients and faults | `FrontierService`, `TLAPS` |
| `FrontierSerialProofs` | the inductive invariant for serial clients and its consequences | `FrontierInvariant`, `FrontierProofs` |
| `FrontierWorkProofs` | the service implements the work list of `Frontier` | `FrontierSerialProofs` |
| `CrawlSystemProofs` | the composed system: what any crawlers do, and what one crawler is to the service | `CrawlSystem`, `FrontierWorkProofs` |
| `SearchProofs` | the engine's exchange with the database, and searches that do not overlap | `SearchPipeline`, `TLAPS` |
| `EngineAnswerProofs` | what is joined is what was cut; what the chunks' races leave of a ranking | `EngineAnswer`, `TLAPS` |
| `CrawlAdmissionProofs` | no indexed site is crawled and every list is accounted for, for any requests | `CrawlAdmission`, `TLAPS` |
| `OrchestratorProofs` | what can end the program, that containers are up, what is left running | `Orchestrator`, `TLAPS` |

How the state corresponds to the code.

* `queues`, `nodes`, `visited_nodes` are the rows, kept per root and per url.
  `id` is the last primary key given to that root or url, so that a handler which
  read an older row holds an id that no longer exists.  This representation needs
  that nodes of a host belong to the queue of that host: `ProcessUrl` keeps only
  links whose hostname is the root, and both foreign keys cascade.
* `hnd[s]` is one activation of a handler, from the publication of the request:
  `pc` is the `await` it is about to run, the other fields are its local
  variables.  There is one action per `await`.  The code between two of them is
  atomic, as Node runs it.
* `cbq`, `len_cbq` are the reply queues.  The field `for` of a reply is not in the
  message; only properties and the client assumption read it.
* `svc` is "up", "crashed" (stopped from outside) or "threw" (an unhandled
  rejection or a Go panic).  `Stop` empties everything but the tables.
* `sav[p]` is one activation of the indexing handler.  `webpages[u]` holds the
  page whose *text* was stored with url `u`, which may differ from `u`.
* `cr[c]` is the loop of a crawler, `dlv` and `chan` are the deliveries of its
  listener and its channel, `out` is the goroutine that enqueues, `ring` and
  `len_ring` are the consumers of the two reply queues in the order in which the
  broker serves them.  `wd[j]` is the page that the Selenium session of a crawl
  request shows, to all its crawlers; `verdict[j]` is what `POST /crawl` has
  answered to the request.  `sent` and `mute[c]`, whether the last page of a crawler
  has enqueued nothing, are history.

* In `SearchPipeline`, `req[r]` is one handler of `GET /search` with the segments
  it has read; `turn` says which of them the event loop is running.  Between two
  reads of a non-empty buffer there are only microtasks, so a search that has
  the turn keeps it until it ends or the buffer is empty.  `unacked` are the
  deliveries of `searchIngressChannel`, which `ackAll` and `nackAll` treat alike
  whichever search they are for.  `engine` is the loop of `main` with its
  `DatabaseResponseHandler`; `published[r]` is a goroutine of
  `PublishScoreRanking`.  `overlapped` is history.

* In `CrawlAdmission`, `check_ring` and `crawl_ring` are the consumers of
  `es_db_check_cbq` and `es_cr_request_queue` in the order in which the broker
  serves them.  A consumer of the first is the request whose promise it resolves:
  one that was resolved already loses the reply (`lost_verdicts`).  A consumer of
  the second is read only while it is the one the loop made last; a list
  delivered to an older one is `abandoned`.  `check[r]` is one activation of
  `checkIndexedWebpage`, whose `await`s are the steps `CheckSite`.
* In `Segments`, a payload is the range of the buffer it was cut from, so that to
  be joined means to be adjacent.  `maker` says whose `createSegments` runs: the
  engine clips its second position, the database service leaves that to `slice`.
* In `Ranking`, `bounds[t]` are the variables `start` and `end` that the chunk
  goroutines of a token share.  `ReadStart` and `ReadEnd` read them without, and
  `MoveStart` and `MoveEnd` write them with the mutex `mux`; `Load` and `Store` are
  the two halves of adding to a rating that goroutines of all tokens share.
* In `Orchestrator`, a generation is what one "start" has made: its context, Docker
  manager, launch and cleanup goroutines and processes.  `box` is what the engine
  holds, by name, for all of them; `current` is the generation that the variable
  `contextCancel` belongs to.

What is abstracted.

* `ORDER BY date_created` orders rows by the second in which they were inserted,
  so any pending row may come first.
* `RemainingInQueue` is left out: the crawler ends on the empty url alone.
* A url is a model value; its hostname is `HostOf[u]`, its links are `Links[u]`.
* The script that gathers the links of a page may fail (`ScriptMayFail`), at which
  `ProcessUrl` goes on with none (`page_navigator.go:118`); its outcome is the set
  `Found(c)`.  `Index` never returns an error.
* In `CrawlSystem` the check of a request is one step, `Admit`: it reads
  `indexed_sites` for every site of the request.  Its own interleavings and the
  consumers its replies may reach are what `CrawlAdmission` is about.
* A failing statement is modelled where the code catches it (`dequeueURL`,
  `SqlError`); elsewhere it throws, which is like a crash at that point.
* `PoolSplits` lets the statements of `setNodeToVisited`'s transaction run on
  several connections of the pool, so that INSERT and DELETE are two steps.  What
  it does not model is another handler's statement joining a transaction that
  was left open on a connection.
* A segment is its number, the total and, for the properties only, the query it
  answers.  How `createSegments` cuts the bytes is in `Segments`.
* In `SearchPipeline` a search begins with at least one page stored; `Ranking` has
  the engine that dereferences nil when there is none (`search-engine/main.go:155`).
* A rating is the number of times each token was counted in it.  A query is a
  sequence of bytes: letters, spaces, and letters of two bytes.
* A second reply to a promise does nothing, as in Node; a list is told apart from
  others by the request it was checked for, which is history.
* A Docker or system call that fails is `Refused`, at most `MaxRefusals` times.  A
  service may end at any time, which covers one that loses the broker.
* The crawler sleeps five seconds between loading a page and reading it
  (`page_navigator.go:105`).  `Settled` in `CrawlSystem` and `Quiet` in
  `FrontierService` state what this means: by the time a crawler asks again, the
  handlers that were running for its host have finished.  This is an assumption
  about time, not something the code enforces.
* `src/crawler/main.go:104` calls `SpawnCrawlers` with two arguments while
  `crawler.go:110` declares one, and does not call `Crawl`.  The model follows
  `CrawlerManager.Crawl` and its callees, as the crawler's tests use them.

## 3. Runs

| Run | Configuration | What it shows |
|---|---|---|
| `serial` | `MCFrontierSerial` | With one client per host the service keeps `SerialInv`, hence each named safety property, and implements `Frontier`. |
| `free` | `MCFrontierFree` | What is left with several clients on a host, failing statements and split transactions: foreign keys still order the handlers, and what leaves the queue was recorded. |
| `crawl` | `MCCrawl` | One crawler over two crashes at any points, with pages that may not load, scripts that may fail and transactions that the pool may split; the crawl is posted again, and checked again, after each crash.  It is a serial client with one request or page in progress, every request is answered, every crawl ends, with all pages that can be reached if it was not disturbed, and every queued url is taken, unless it is stranded in one of the three ways of `Stranded`.  What the crashes may cost. |
| `two_jobs` | `MCTwoJobs` | Two crawls of one site: dequeues and saves that collide, replies sent on closed channels, pages that do not load, handlers that throw.  Until something stops the system no recorded page is lost. |
| `search` | `MCSearch` | Searches that do not overlap get their own answer, all of it, and leave nothing behind; however they overlap, the engine never confuses two answers of the database and ranks every query. |
| `ranking` | `MCEngineAnswer` | One query through the engine: what it joins is what the database cut, it panics only where chunks race or nothing is stored, the first chunk is rated whatever races, and it ends unless the query has too many tokens. |
| `admission` | `MCAdmission` | Three overlapping requests: no site that was indexed is crawled, no list is started twice or lost unaccounted, the first consumer of each queue is served. |
| `orchestrator` | `MCOrchestrator` | Two starts, stop, exit and signals in any order, one refusal, services that end: when the program may panic, that containers are up for the services, and that what is cancelled comes down. |
| `leaf`, `two_sites`, `session`, `own_verdict` | `MCLeaf`, `MCTwoSites`, `MCSession`, `MCOwnVerdict` | The disagreements of section 6. |

Bounds, and why they are enough.

* `serial`: hosts `a` (two urls) and `b` (one), two handlers, two queues per root,
  two rows per url, two replies, one crash and restart.  Two handlers are what
  one-client-per-host allows for two hosts.  A second queue and row per key is
  where an old id could be confused with a new one.  Two urls on a host are what
  `OneLeasePerHost` needs, and a url of another host shares the reply queue.
* `free`: one host, two urls, two handlers that collide in every way, with
  `SqlFaults` and `PoolSplits`.
* `crawl`: the site `a1` -> `a2`, `a3`, `b1`; `a2` -> `a1`, `a3`; `a3` -> `a3`: a
  cycle, a page linked twice, a link to another host.  It has two handlers of each
  kind, so that messages can overtake each other; two are never exceeded because the
  crawler is serial (`CrawlerAsksSerially`).  It has two restarts, so that a resumed
  crawl is interrupted again.  A url is recorded as visited before its page is
  loaded, so that a crash in between loses the page for good.  `VisitedPageNotLost`
  and `OnlyLastPageDropped` therefore speak of the time until something stops the
  system (`Undisturbed`), and `EachStopLosesTwo` of what a stop may cost: the url
  that was handed out or given up, and the page that was being saved.  One per stop
  would not do: the next page is loaded while the one before is still being saved.
  As the site has three urls of its own, the bound can be exceeded only before the
  second stop; beyond it rests on the proof.
* `two_jobs`: two crawlers, one site of two pages, two handlers of each kind; two
  queues and two rows of each url, so that a queue that one crawl removes is made
  anew by the other.
* `search`: two searches with answers of three and two segments, an answer of the
  database of two, a buffer of three slots: the second answer wraps round it, and
  both together overflow it.  At most five deliveries may be unacknowledged, so
  that nothing is held back; `Fits` states that every answer fits.
* `ranking`: segments of two bytes and buffers of 0 to 5, so that every length falls
  on, before and after a multiple; chunks of two webpages and databases of 0 to 3,
  so that there is no chunk, one, a full one and a webpage beyond it; two tokens
  for the races, three for the channel of two IDFs.  With more webpages than one
  chunk only a query of one token is considered.
* `admission`: three requests, because with two the ring of consumers has no second
  round; two of them ask for the same site and one for a site that is indexed.
  One check may throw (`MaxFailures`).
* `orchestrator`: two generations, two containers, so that one may be refused and
  the other be left, one service, one refusal.  `SleepSuffices` says that the three
  seconds of `main.go:68` are enough for what was cancelled; `NoContainerLeft`
  names it.
* The counters `MaxQueues`, `MaxRows`, `MaxReplies` and `MaxRestarts` bound
  guards of actions of the environment, with room for every handler that is
  under way (`Room`), so that no handler is stuck at a bound.
* `SlotSymmetry` exchanges handler slots; `SameSymmetry` also exchanges the two
  crawlers together with their jobs and entry points.  No run with a temporal
  property under fairness uses symmetry.

`CHECK_DEADLOCK FALSE` stands in `free` because a service that threw with no
restart left stays stopped, in `leaf`, `two_jobs`, `two_sites` and `session` because
crawls can hang there, which is what some of these runs are about, in `admission` and
`own_verdict` because requests hang there whose reply went to another, in
`ranking` because a query with too many tokens blocks and a panic ends the engine,
in `orchestrator` because the program ends, and in `search` because the system
rests when every search has ended.  In `serial` and `crawl` TLC does check for
deadlock: in `crawl` the system may rest only when every crawl is over or stranded, or
when it was stopped more often than the model counts (`Finished`).

Fairness.  `FairSystemSpec` is fair to each handler, as the event loop runs every
started handler on, to the broker's deliveries, to the steps of each goroutine,
to the restart of a stopped system and to the user who posts a crawl, again
after it was interrupted.  There is none for crashes, pages that fail to load,
or panics, none for one handler over another, and none for a script that finds the
links rather than fails.  `FairSpec` of `SearchPipeline`
is fair to the event loop of express for each search that waits, to the broker,
to the engine, to each publishing goroutine and to the database service, which
may fail instead of answering; nobody has to search.  In `CrawlAdmission`,
`EngineAnswer` and `Orchestrator` fairness is weak and of many of the program's
steps together (`ServerStep`, `ProgramStep`, `Rating`): each of them can be taken
only a bounded number of times, so that one that stays enabled is taken in the end.
Nobody has to post a request or type a command, and no service has to end.

Every property has a mutant in `PROJECT.json`: a definition of the model with a
plausible bug, under which TLC finds the property violated in the same run.

## 4. The abstract specification

`Frontier` is a work list per host: add a url that is not known, lease one when
none is leased, give it, record it after it was given, declare the end only when
nothing is left.  A crash loses the question or the answer but never the list.
`FrontierService` implements it with the refinement mapping `Work`: pending rows
are `todo`, rows in progress that are not recorded are `leased`, `visited_nodes` is
`done`, and a host's request is what its handlers and the reply queue say.  The run `serial`
checks `ImplementsWorkList` with the crash included.

## 5. Proofs

Every theorem is proved for all values of the constants that the modules' ASSUMEs
admit; what else a theorem assumes stands in its statement.  Each inductive
invariant was first checked by TLC on the instance of the component's run.

| Component | Theorems (the property each states) | Assumed |
|---|---|---|
| Frontier service, any clients | `TypeCorrect` (`TypeOK`), `NoRowIsOrphaned` (`NoOrphanRows`), `NoRowIsLost` (`LeavesRecorded`) | nothing |
| Frontier service, serial clients | `SerialSafe`, `NoUrlTwice`, `OneLease`, `NeverEndsItself`, `PublishedIsKept`, `RemovesDrainedOnly`, `ServiceIsWorkList` (`ImplementsWorkList`) | `~SqlFaults`, `~PoolSplits` |
| | `SplitsNeverThrow` (`NeverThrows`), `SplitsKeepLeases` (`OneLeasePerHost`), `SplitsRemoveDrainedOnly` (`RemovedOnlyWhenDrained`), `SplitsKeepWorkList` (`ImplementsWorkList`) | `~SqlFaults`, no crash inside a split transaction (`[][~CrashSplits]_vars`) |
| Whole system, any crawlers | `SystemTypeCorrect`, `NoOrphansAnyCrawlers` (`NoOrphanRows`) | nothing |
| Whole system, one crawler | `OneTokenAtATime` (`OneToken`) | nothing else |
| | `OneCrawlerAsksSerially` (`CrawlerAsksSerially`) | room in the store |
| | `CrawlRequeuesNothing` (`VisitedNeverRequeued`), `CrawlViolatesNothing` (`NeverThrows`, `ThrowsOnlyOnCollision`), `CrawlIsServedFromWorkList` (`ImplementsWorkList`) | room, `~SqlFaults`, `~PoolSplits` |
| | `SplitCrawlIsServed` (`ImplementsWorkList`, `NeverThrows`) | room, `~SqlFaults`, no crash inside a split transaction |
| | `StopsLoseTwoEach` (`EachStopLosesTwo`) | nothing else |
| | `NoVisitedPageLost` (`VisitedPageNotLost`), `NoPageDroppedEarly` (`OnlyLastPageDropped`), both until something stops the system | nothing else |
| | `NothingStops`: the system is undisturbed, so that the same two hold always | room, `~SqlFaults`, no restarts |
| Search | `EngineKeepsGoing` (`EngineNeverPanics`), `SearchGetsItsOwnAnswer` (`OwnAnswer`), `SearchLeavesNothing` (`NothingLeftOver`), `WritesOnlyOverNull` (`OnlyNullOverwritten`) | nothing |
| Engine | `AnswerJoinedIsCut`, `AnswerSegmentsInOrder`, `RankingPanicsOnlyBeyondOneChunk`, `SmallRankingIsExact`, `FirstChunkIsRated`, `TokensMakeTheQuery` (`TokensAreTheQuery`) | nothing |
| Admission | `IndexedSitesStayOut` (`NoIndexedSiteCrawled`), `EveryListAccounted` (`ListsAccounted`) | nothing |
| Orchestrator | `PanicsOnlyThen`, `NothingLeftRunning` (`NoContainerLeft`), `ContainersAreUp` (`ServicesFindTheirContainers`) | nothing |

**Frontier service, any clients** (`FrontierProofs`).  `TypeOK` alone is not
inductive: an action at `insert_node`, `dq_update`, `set_visited` or `delete_node`
updates the row of the url that its handler holds.  The strengthening `HoldsUrl`
says that handlers at these steps do hold one.  `FreeInv` adds what is left of the
truth when handlers of one host interleave at will: the url a handler holds is of
its host (`OwnUrl`), the row it read is not *younger* than the one that is there now,
since a row is never given an id twice, and between the two statements of a split
transaction the row about to be deleted is recorded or gone (`RowRecorded`).  With
the ids, a DELETE that comes late deletes nothing that was inserted anew, which is
`NoRowIsLost`; the foreign keys make a late INSERT fail, which is `NoRowIsOrphaned`.

**Serial clients** (`FrontierSerialProofs`).  `SerialSafe`: for one client per host,
if no statement of `dequeueURL` fails (`~SqlFaults`) and the pool does not split the
transaction (`~PoolSplits`), `SerialInv` always holds, for any numbers of hosts,
urls, handlers, replies and restarts.  None of the three assumptions can be dropped.
A failing statement removes a queue that is not drained.  A crash between INSERT and
DELETE of a split transaction leaves a row both visited and in progress, and
resuming it makes the service throw.  That crash is all that is wrong with a split
transaction (`CrashSplits`): the theorems `Splits...` hold with `PoolSplits` as long
as it does not happen, since until the DELETE nobody asks for the host.  With two
clients of one host, a node that one handler found unvisited is inserted after another
has recorded it.  (To see these three, check each property alone: `RemovedOnlyWhenDrained` in `MCFrontierSerial.cfg`
with `SqlFaults = TRUE`, `NeverThrows` there with `PoolSplits = TRUE`, and
`VisitedNeverRequeued` in `MCFrontierFree.cfg` with `SqlFaults` and `PoolSplits`
`FALSE`.)  `SerialInv` has `VisitedIsGone`, that a recorded url has no row at all;
`VisitedNeverRequeued` is the part of it, no *pending* row, that survives the crash
inside a split transaction and is checked by the run `crawl`.

`SerialInv` (module `FrontierInvariant`) is the conjunction of the properties and
of what makes them inductive: `HandlerOK(s)` states for each step of a handler
that what it read earlier is still true, `OneHandlerPerHost` why (nobody else
writes), and `RepliesAreCurrent` relates a handler that has published with its
reply.  The proof regroups it by host (`Parts`), because an action of a handler
touches one host only: a frame lemma carries the other hosts over, a lemma per
kind of action treats its own, and `Assemble` puts them together.  `Parts` admits the
state between the two statements of a split transaction, where a row is both in
progress and recorded and its handler is at "delete_node"; `SerialInv` is `Parts`
without it, so one induction serves both groups of theorems.

**The refinement** (`FrontierWorkProofs`).  `ServiceIsWorkList` maps the service to
`Frontier` under `WorkInv`: `SerialInv` regrouped, one reply under way per host, and a
handler's kind told by its step.  A request maps to `Ask`, the INSERT of a row to `Add`, the
UPDATE to "in progress" to `Lease`, the publication to `Give` or `GiveEnd`, the
transaction of `setNodeToVisited` to `Record`, or its INSERT if it is split, whose
DELETE then stutters because a row that is recorded is no longer `leased`, the last
removal of a queue to `Forget`, taking a reply to `Take`, a crash and a restart to themselves; every other step of a
handler stutters.  The delicate part is `req`, which the mapping derives from handlers
and reply queue (`Asked`): the lemmas of `AskedOK` show which steps leave it alone.
`WorkAssumption` says that the marks "asked" and "idle" are not urls.

**The whole system** (`CrawlSystemProofs`).  For any number of crawlers, `PageInv`
says that a session that is read shows some page and a message carries the text of
one, which the types of what is stored need; whose page it is, nobody can say while
crawlers share a session (run `session`).  `OwnLinks` says that what a crawler enqueues
is of its own site, so that every crawler is a client as `FreeInv` allows and
`NoOrphansAnyCrawlers` follows.  Restarts, Go panics, failing pages and scripts and two
crawlers of one site are all included.

For one crawler the right to ask for a url is a token.  `TokenInv` says for each place
it can be in (a handler, a reply, a delivery, the channel, the goroutine that
enqueues, the loop itself) that it is in no other; `HostInv` that the urls on their
way are of the crawler's site; `SaveInv` that only one page is being saved and that
what its handler has read is still true.  With them every step of the system is a step
of `SerialNext`: this is `OneCrawlerAsksSerially`, which turns the theorems about serial
clients into theorems about the system, over any number of crashes and restarts.
`SerialSpec` has bounds in its guards (`Room`), so the proof also shows that one
crawler never meets them: at most one queue per start of the system and one row of
each url per queue (`CountInv`), hence the hypotheses `MaxRestarts + 1 < MaxQueues` and
`MaxRestarts + 1 < MaxRows`.  They say how large the model is, nothing about the code;
`MCCrawl` satisfies them.

`NoVisitedPageLost` and `NoPageDroppedEarly` are about the time until something stops
the system (`Undisturbed`): a crash forgets who held a url that was recorded already,
so both fail afterwards.  `KeptInv` follows a recorded url from reply to crawler to
message to table, or to the crawler that gave up over it; a handler that has published
has not yet recorded while its url is still in the mail, or its page is still being
loaded (`Held`), which is where the five seconds of `page_navigator.go:105` enter.
`DropInv` adds that the site is known to `saveWebpage`, when a page arrives, only after
its queue was created, and that a page is thrown away only when the crawl is at its end
(`LastDropped`).  `NothingStops` then shows that without crashes and failing
statements nothing does stop the system: the model has nothing but a crash that could
end it inside a split transaction, so `SplitCrawlIsServed` applies.

`StopsLoseTwoEach` is about the rest of the time, over any number of stops of either
kind.  `Held` is inductive over a stop, as a stop leaves no handler; what changes is
`Lost(c)`, the recorded urls that nobody holds.  While the system runs it does not grow
(`NothingLost`).  When it stops, all that was in hand and not stored becomes lost, and
that is two urls at most (`HeldByTwo`): by the token there is either a url in the mail
or a page the crawler is at, and by `SaveInv` one page that is being saved.

**Search** (`SearchProofs`).  `EngineInv`: the engine asks the database only once it
has the whole answer before, so that what is between the two (`Exchange`) is nothing,
one request, or a suffix of one answer.  It needs nothing of express, hence
`EngineKeepsGoing` holds however searches overlap.  `Calm` is the rest: as long as no
search overlaps another and its answer fits, there is nothing under way, or the one
search in progress and its answer, of which the first segments are read, the next are
in the ring between its two indices (`Holds`) and the others in the queue
(`Underway`).

**Segments** (`EngineAnswerProofs`).  The invariant `SegInv` has a reference for each
segment: the k-th ends at `Lesser(k * MSS, dataLength)`.  `CutInv` says that all that
were made are those and where the two positions stand, `ReceiveInv` that the receiver
has counted no more than were made.  The arithmetic is one lemma, `TotalCovers`:
`length / MSS + 1` segments reach beyond the end, and one less does not.

**Ranking** (`EngineAnswerProofs`).  `RankInv` has three ideas.  `MoverInv`: while no
chunk of a token has moved the bounds they are those of the first chunk, so whoever
moves them first has gone through it, however the others race.  `ChunkInv`: every
webpage that a chunk is past has a rating, because a store writes at least what the
chunk adds itself, whatever it overwrites.  `ExactInv`: with one token and one chunk
nobody stores between a load and its store.  `FirstChunkIsRated` is the first two
together, `SmallRankingIsExact` all three.

**Tokens** (`EngineAnswerProofs`).  `TokensMakeTheQuery` says of every query that its
tokens, joined again, are its first bytes, one for each of its characters
(`LookedAt`): all of it if they have one byte, and one byte less at the end for each
letter of two.  Joining is a fold, so the theorem
needs two inductions, which `UpFromZero` provides for a *set* of numbers: a number that
is missing from it contradicts the pigeonhole principle.  `NthPosition` and `UpToGrows`
use it on the positions of the spaces, hence the cuts are in order and at every space.
The joined prefixes are then a witness of what the fold defines, and by the same
induction the only one.

**Admission** (`CrawlAdmissionProofs`).  `IndexedSitesStayOut` follows a list through
every place it can be in: a check in progress has gathered only clean sites
(`CheckInv`), hence so are the replies, the verdicts, the lists in the crawler's
queue and in its inbox, and the crawls (`ListsInv`).  `HistoryInv` says that
`indexed_sites` only grows, which is why a list once clean stays so.
`EveryListAccounted` needs that no list is in two of these places.  A list is told
apart by the request it was checked for: `UniqueInv` says that such a request waits to
be checked, or is being checked, or has one reply under way, or has resolved one
promise, whoever's, and `PlacedInv` that the crawler's queue and inbox hold different
lists.

**Orchestrator** (`OrchestratorProofs`).  `PanicsOnlyThen`: the program does not crash
unless something was refused, "exit" or a signal came before any "start", a container
was still starting, or a read of stderr filled the buffer.  `LaunchInv` is what makes
it inductive: a container that was launched has an ID, so that cutting the ID is
safe, and only what was refused is missing.  `StageInv` adds what a launch, the context
and the cleanup goroutine of a generation say of each other; `BoxInv`, that whoever
launched a container that runs, it or a *later* generation has a goroutine waiting to
stop it, which is what sharing containers by name needs for `NothingLeftRunning`;
`AloneInv`, that while a generation that began alone is launched, nothing of an earlier
one acts.

Only model-checked: liveness (`EveryRequestAnswered`, `QueuedUrlsAreTaken`,
`CrawlCompletes`, `SearchEnds`, `EveryQueryRanked`, `RankingEnds`,
`FirstConsumerAnswered`, `SomeCrawlStarts`, `CancelledGenerationEnds`,
`ServiceCrashStopsContainers`), since the prover does not handle fairness and ENABLED.
Every invariant and every action property that a passing run checks is stated by a
theorem, for all values of the constants that its assumptions admit, with two
exceptions.  `CrawlViolatesNothing` states `ThrowsOnlyOnCollision` for whole
transactions only; that a crash inside a split one is the only other cause is
checked by `crawl`.  And `NoVisitedPageLost` is about one crawler, while the run
`two_jobs` checks `VisitedPageNotLost` for two.

## 6. Where comments and code disagree

Four runs end in a violation.

| Run | The code says | The run shows |
|---|---|---|
| `leaf` (`EveryQueuedUrlProcessed`) | "ProcessUrl is called for every dequeued URL" and enqueues its links (`page_navigator.go:88`) | A page without a link of its own host enqueues nothing, gets no next url, and the crawl hangs with urls in the queue. |
| `two_sites` | the dequeued url "corresponds to the crawler's current running job" (`frontier_queue.go:11`) | With two sites the broker gives a crawler a url of the other's. |
| `session` | sessions are "placed into separate threads for handling multiple websites" (`webdriver/client.go:14`) | The crawlers of one request share one (`crawler.go:85`): a crawler navigates away between the other's extracting links and reading the text, which is then stored under the url of another site. |
| `own_verdict` | "check the users' crawl list ... return only the ones that are not indexed" (`app/index.ts:95`) | The consumer of an older request takes the reply to a newer one: a list as long as his own but of another user reaches the handler of the first, is admitted, and is sent to be crawled. |

These follow from the models as well; most are seen by changing a constant.

* The lookup of rows in progress is for resuming "if the database fails"
  (`database.ts:253`), yet one failing statement is answered like an empty queue,
  and the queue is removed with all its rows (`SqlFaults = TRUE` in
  `MCFrontierSerial.cfg`, `RemovedOnlyWhenDrained`).
* A queue is said to be created before `saveWebpage` is called (`database.ts:38`),
  yet it is removed while the last page is on its way, and that page is dropped:
  this is why `OnlyLastPageDropped` allows one.
* "kickstart the resumption of existing nodes" (`rabbitmq/index.ts:338`) never
  happens to a site of which one page was saved: the admission check refuses the
  crawl when it is posted again.  `Stranded` names it as `Refused`; without that
  disjunct the run `crawl` violates `QueuedUrlsAreTaken`, by a crash after the first
  page was saved.
* A webpage need not be rated at all when there is more than one chunk
  (`score.go:66`): the chunks may all read the bounds before any moves them.  With a
  full chunk or more a chunk can also read a start behind its end, which panics.
* "exit" is said to quit (`services.go:263`), but only the command loop returns, and
  `main` waits for a signal that `exit` does not send.
* A cleanup goroutine of a generation that was stopped stops a container by its
  name, and so that of the next "start" if it runs late.
* `buf[n]` at `services.go:168` is out of range when a read fills the buffer.

## 7. What is left

Not modelled, and why.

* The acknowledgement timer of `express-server/src/websocket`: nothing publishes to
  the queue it serves, the call of `SendCrawlMessageStatus` being commented out.
* Statements of one handler that join a transaction another has left open on a
  connection of the pool, the write buffer of amqplib, and the broker's
  acknowledgement timeout of thirty minutes: each needs a model of a library
  beneath the code.
* The values of IDF, TF and BM25, which are floating point, and the order of the
  results; html parsing, the text of pages, robots and language filters.
* `Start`, `RemoveContainer` and `listenContainerState` of the Docker manager, which
  nothing calls.
* The browser front end but for the list it sends back, the command tree and the
  setup scripts, on whose state no service depends.

Worth doing next: the search properties for searches that overlap but whose
answers fit the buffer together; a proof that crawls of one site that collide lose no
page before something stops the system, which `two_jobs` checks; one transaction state
per connection of the pool, to see what a statement that joins another handler's
transaction can undo.
