---------------------------- MODULE PageIndexing ----------------------------
(***************************************************************************)
(* The indexing half of the database service: the handler of               *)
(* cr_db_indexing_queue (src/database/src/rabbitmq/index.ts) and           *)
(* saveWebpage (database.ts) over indexed_sites and webpages.  Like the    *)
(* frontier handlers, several may be running; one action per await.  An    *)
(* action that makes the handler throw is guarded by Fails*, and the       *)
(* module that composes the services decides what stops with it.           *)
(***************************************************************************)
EXTENDS FrontierService

CONSTANTS
    SaveSlots,   \* bound: indexing messages being handled at once
    NoPage       \* webpages[u] = NoPage: no row with this url

ASSUME SaveAssumption == NoPage \notin Urls

VARIABLES
    sav,        \* sav[p]: the handler in slot p
    sites,      \* indexed_sites.hostname
    webpages    \* webpages[u]: the page whose text is stored with url u

indexing == <<sav, sites, webpages>>

\* pc is the await that comes next, msg the IndexedResult: URLSeed, Header.URL
\* and the page that the text was read from; known is whether the site is.
NotSaving == [pc |-> "idle", known |-> FALSE,
              msg |-> [seed |-> CHOOSE h \in Hosts : TRUE,
                       url |-> NoPage, from |-> NoPage]]

IndexingInit ==
    /\ sav = [p \in SaveSlots |-> NotSaving]
    /\ sites = {}
    /\ webpages = [u \in Urls |-> NoPage]

Saving(h) == {p \in SaveSlots : sav[p].pc # "idle" /\ sav[p].msg.seed = h}

Stored(u) == webpages[u] # NoPage

----------------------------------------------------------------------------

\* The message is acknowledged on arrival: only the handler holds it.
Save(p, m) ==
    /\ sav[p].pc = "idle"
    /\ sav' = [sav EXCEPT ![p] = [pc |-> "select_site", known |-> FALSE,
                                  msg |-> m]]
    /\ UNCHANGED <<sites, webpages>>

SelectSite(p) ==
    /\ sav[p].pc = "select_site"
    /\ sav' = [sav EXCEPT ![p].known = sav[p].msg.seed \in sites,
                          ![p].pc = "select_queue"]
    /\ UNCHANGED <<sites, webpages>>

\* Mutated forms of SelectRoot: the test for the queue is inverted; a page of a
\* known site is dropped whether there is a queue or not.
SelectRootInverted(p) ==
    /\ sav[p].pc = "select_queue"
    /\ sav' = [sav EXCEPT ![p] =
                 IF ~sav[p].known THEN [@ EXCEPT !.pc = "insert_site"]
                 ELSE IF queues[sav[p].msg.seed].live
                        THEN NotSaving
                        ELSE [@ EXCEPT !.pc = "insert_page"]]
    /\ UNCHANGED <<sites, webpages>>

SelectRootNot(p) ==
    /\ sav[p].pc = "select_queue"
    /\ sav' = [sav EXCEPT ![p] =
                 IF ~sav[p].known THEN [@ EXCEPT !.pc = "insert_site"]
                 ELSE NotSaving]
    /\ UNCHANGED <<sites, webpages>>

\* An indexed site without a queue is "fully indexed": the page is dropped.
SelectRoot(p) ==
    /\ sav[p].pc = "select_queue"
    /\ sav' = [sav EXCEPT ![p] =
                 IF ~sav[p].known THEN [@ EXCEPT !.pc = "insert_site"]
                 ELSE IF queues[sav[p].msg.seed].live
                        THEN [@ EXCEPT !.pc = "insert_page"]
                        ELSE NotSaving]
    /\ UNCHANGED <<sites, webpages>>

Insert(p) ==
    LET m == sav[p].msg IN
    /\ webpages' = [webpages EXCEPT ![m.url] = m.from]
    /\ sav' = [sav EXCEPT ![p] = NotSaving]
    /\ UNCHANGED sites

\* A page of a known site; a duplicate url is skipped.
InsertPage(p) ==
    /\ sav[p].pc = "insert_page"
    /\ \/ ~Stored(sav[p].msg.url) /\ Insert(p)
       \/ /\ Stored(sav[p].msg.url)
          /\ sav' = [sav EXCEPT ![p] = NotSaving]
          /\ UNCHANGED <<sites, webpages>>

InsertSite(p) ==
    /\ sav[p].pc = "insert_site"
    /\ sav[p].msg.seed \notin sites
    /\ sites' = sites \cup {sav[p].msg.seed}
    /\ sav' = [sav EXCEPT ![p].pc = "insert_first"]
    /\ UNCHANGED webpages

InsertFirst(p) ==
    /\ sav[p].pc = "insert_first"
    /\ ~Stored(sav[p].msg.url)
    /\ Insert(p)

SaveStep(p) == \/ SelectSite(p) \/ SelectRoot(p) \/ InsertPage(p)
               \/ InsertSite(p) \/ InsertFirst(p)

\* UNIQUE(hostname) or UNIQUE(url) is violated where it is not caught.
FailsToSave(p) ==
    \/ sav[p].pc = "insert_site" /\ sav[p].msg.seed \in sites
    \/ sav[p].pc = "insert_first" /\ Stored(sav[p].msg.url)
=============================================================================
