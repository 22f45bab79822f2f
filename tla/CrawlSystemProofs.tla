------------------------- MODULE CrawlSystemProofs -------------------------
(***************************************************************************)
(* Theorems about CrawlSystem, for every set of sites, pages, links and    *)
(* handler slots and every value of the bounds: some for any number of     *)
(* crawlers, some for one.                                                 *)
(***************************************************************************)
EXTENDS CrawlSystem, FrontierWorkProofs, FiniteSetTheorems, SequenceTheorems

----------------------------------------------------------------------------
(* Type correctness, for any number of crawlers *)

CrawlPcs == {"new", "past", "consume_len", "await_len", "force_dequeue",
             "receive", "navigate", "extract", "index", "done", "stopped"}

CrawlTypeOK ==
    /\ cr \in [Crawlers -> [pc : CrawlPcs, url : Urls]]
    /\ out \in [Crawlers -> SUBSET Urls]
    /\ dlv \in [Crawlers -> Seq(Reply)]
    /\ chan \in [Crawlers -> Seq(Reply)]
    /\ ring \in Seq(Crawlers) /\ len_ring \in Seq(Crawlers)
    /\ wd \in [Jobs -> Urls \cup {NoPage}]
    /\ verdict \in [Jobs -> {"none", "admitted", "refused"}]
    /\ mute \in [Crawlers -> BOOLEAN]

Message == [seed : Hosts, url : Urls \cup {NoPage}, from : Urls \cup {NoPage}]

Saver == [pc    : {"idle", "select_site", "select_queue", "insert_page",
                   "insert_site", "insert_first"},
          known : BOOLEAN,
          msg   : Message]

SaveTypeOK ==
    /\ sav \in [SaveSlots -> Saver]
    /\ webpages \in [Urls -> Urls \cup {NoPage}]

SystemTypeOK == TypeOK /\ HoldsUrl /\ CrawlTypeOK /\ SaveTypeOK

LEMMA NotSavingType == NotSaving \in Saver
<1>1. (CHOOSE h \in Hosts : TRUE) \in Hosts
  BY ServiceAssumption
<1> QED
  BY <1>1 DEF NotSaving, Saver, Message

LEMMA VolatileType ==
    ASSUME NEW ended \in SUBSET Crawlers
    PROVE  LET v == Volatile(ended) IN
           /\ v.cr \in [Crawlers -> [pc : CrawlPcs, url : Urls]]
           /\ v.out \in [Crawlers -> SUBSET Urls]
           /\ v.seq \in [Crawlers -> Seq(Reply)]
           /\ v.wd \in [Jobs -> Urls \cup {NoPage}]
           /\ v.verdict \in [Jobs -> {"none", "admitted", "refused"}]
           /\ v.mute \in [Crawlers -> BOOLEAN]
BY CrawlAssumption DEF Volatile, CrawlPcs

LEMMA SystemInitType == SystemInit => SystemTypeOK
<1> SUFFICES ASSUME SystemInit PROVE SystemTypeOK
  OBVIOUS
<1>1. TypeOK /\ HoldsUrl
  BY InitType DEF SystemInit, Init, HoldsUrl, Idle, Handling
<1>2. CrawlTypeOK
  BY VolatileType DEF SystemInit, CrawlInit, CrawlTypeOK
<1>3. SaveTypeOK
  BY NotSavingType DEF SystemInit, IndexingInit, SaveTypeOK
<1> QED
  BY <1>1, <1>2, <1>3 DEF SystemTypeOK

\* What a step of the system does to the database service: a step of that, with
\* any client, or the end of the process.
LEMMA FrontierPart ==
    ASSUME SystemTypeOK, [SystemNext]_sysvars
    PROVE  [AnyNext]_vars \/ Throw
<1>0. ASSUME NEW c \in Crawlers
      PROVE  Root(c) \in Hosts /\ out[c] \in SUBSET Urls
  BY CrawlAssumption, StoreAssumption DEF Root, SystemTypeOK, CrawlTypeOK
<1>1. ASSUME NEW s \in Slots, DatabaseStep(s) PROVE AnyNext
  BY <1>1 DEF DatabaseStep, AnyNext, ServiceStep
<1>2. ASSUME NEW p \in SaveSlots, IndexingStep(p) PROVE UNCHANGED vars \/ Throw
  BY <1>2 DEF IndexingStep, frontier
<1>3. CASE DeliverReply \/ DeliverLen
  BY <1>3 DEF DeliverReply, DeliverLen, AnyNext
<1>4. ASSUME NEW c \in Crawlers,
             Start(c) \/ ForceDequeue(c) \/ PublishLinks(c)
      PROVE  AnyRequest
  <2>1. CASE Start(c)
    BY <1>0, <2>1 DEF Start, AnyRequest
  <2>2. CASE ForceDequeue(c)
    BY <1>0, <2>2 DEF ForceDequeue, AnyRequest
  <2>3. CASE PublishLinks(c)
    BY <1>0, <2>3 DEF PublishLinks, AnyRequest
  <2> QED
    BY <1>4, <2>1, <2>2, <2>3
<1>5. ASSUME NEW c \in Crawlers,
             \/ ConsumeLen(c) \/ Receive(c) \/ Navigate(c) \/ ExtractLinks(c)
             \/ IndexPage(c) \/ Listen(c) \/ Forward(c) \/ NavigateFails(c)
      PROVE  UNCHANGED vars
  BY <1>5 DEF ConsumeLen, Receive, Navigate, ExtractLinks, IndexPage, Listen,
              Forward, NavigateFails, frontier
<1>6. ASSUME NEW c \in Crawlers, Panic(c) PROVE Throw
  BY <1>6 DEF Panic
<1>7. CASE SystemCrash \/ SystemRestart
  BY <1>7 DEF SystemCrash, SystemRestart, AnyNext, ServiceStep
<1>8. CASE (\E j \in Jobs : Admit(j)) \/ Finished \/ UNCHANGED sysvars
  BY <1>8 DEF Admit, Finished, sysvars, frontier
<1> QED
  BY <1>1, <1>2, <1>3, <1>4, <1>5, <1>6, <1>7, <1>8
  DEF SystemNext, CrawlerStep, LoopStep, AnyNext

LEMMA FrontierTypes ==
    ASSUME SystemTypeOK, [SystemNext]_sysvars
    PROVE  TypeOK' /\ HoldsUrl'
<1>1. CASE [AnyNext]_vars
  BY <1>1, TypeStep, HoldsUrlStep DEF SystemTypeOK
<1>2. CASE Throw
  <2>1. TypeOK'
    BY <1>2, StopType DEF Throw, SystemTypeOK
  <2>2. HoldsUrl'
    BY <1>2 DEF Throw, Stop, HoldsUrl, Idle, Handling
  <2> QED
    BY <2>1, <2>2
<1> QED
  BY <1>1, <1>2, FrontierPart

LEMMA LoseTypes ==
    ASSUME SystemTypeOK, LoseVolatile
    PROVE  CrawlTypeOK' /\ SaveTypeOK'
<1>1. PICK ended \in SUBSET Crawlers :
         ended = {c \in Crawlers : cr[c].pc \in {"done", "past"}}
  OBVIOUS
<1>a. LET v == Volatile(ended) IN
      /\ cr' = v.cr /\ out' = v.out /\ dlv' = v.seq /\ chan' = v.seq
      /\ wd' = v.wd /\ verdict' = v.verdict /\ mute' = v.mute
      /\ ring' = <<>> /\ len_ring' = <<>>
  BY <1>1 DEF LoseVolatile
<1>2. CrawlTypeOK'
  BY <1>a, VolatileType DEF CrawlTypeOK
<1>3. SaveTypeOK'
  BY NotSavingType DEF LoseVolatile, SystemTypeOK, SaveTypeOK
<1> QED
  BY <1>2, <1>3

LEMMA SaveTypes ==
    ASSUME SystemTypeOK, NEW p \in SaveSlots, SaveStep(p)
    PROVE  SaveTypeOK'
<1>0. /\ sav \in [SaveSlots -> Saver] /\ sav[p] \in Saver
      /\ sav[p].msg \in Message
      /\ webpages \in [Urls -> Urls \cup {NoPage}]
  BY DEF SystemTypeOK, SaveTypeOK, Saver
<1>1. ASSUME NEW f \in Saver, sav' = [sav EXCEPT ![p] = f] PROVE sav' \in [SaveSlots -> Saver]
  BY <1>0, <1>1
<1>2. CASE SelectSite(p)
  <2>1. PICK k \in BOOLEAN : k = (sav[p].msg.seed \in sites)
    <3>1. (sav[p].msg.seed \in sites) \in BOOLEAN
      BY SMT
    <3> QED
      BY <3>1, Zenon
  <2>2. sav' = [sav EXCEPT ![p] = [sav[p] EXCEPT !.known = k, !.pc = "select_queue"]]
    BY <1>2, <2>1 DEF SelectSite
  <2>3. [sav[p] EXCEPT !.known = k, !.pc = "select_queue"] \in Saver
    BY <1>0 DEF Saver
  <2> QED
    BY <1>0, <1>1, <1>2, <2>2, <2>3 DEF SelectSite, SaveTypeOK
<1>3. CASE SelectRoot(p)
  <2>1. \E f \in {NotSaving} \cup {[sav[p] EXCEPT !.pc = pc] : pc \in {"insert_site", "insert_page"}} :
           sav' = [sav EXCEPT ![p] = f]
    BY <1>3 DEF SelectRoot
  <2>2. \A pc \in {"insert_site", "insert_page"} : [sav[p] EXCEPT !.pc = pc] \in Saver
    BY <1>0 DEF Saver
  <2> QED
    BY <1>0, <1>1, <1>3, <2>1, <2>2, NotSavingType DEF SelectRoot, SaveTypeOK
<1>4. CASE InsertPage(p) \/ InsertFirst(p)
  <2>1. sav' = [sav EXCEPT ![p] = NotSaving]
    BY <1>4 DEF InsertPage, InsertFirst, Insert
  <2>2. \/ webpages' = webpages
        \/ webpages' = [webpages EXCEPT ![sav[p].msg.url] = sav[p].msg.from]
    BY <1>4 DEF InsertPage, InsertFirst, Insert
  <2>3. webpages' \in [Urls -> Urls \cup {NoPage}]
    BY <1>0, <2>2 DEF Message
  <2> QED
    BY <1>1, <2>1, <2>3, NotSavingType DEF SaveTypeOK
<1>5. CASE InsertSite(p)
  <2>1. sav' = [sav EXCEPT ![p] = [sav[p] EXCEPT !.pc = "insert_first"]]
    BY <1>5 DEF InsertSite
  <2>2. [sav[p] EXCEPT !.pc = "insert_first"] \in Saver
    BY <1>0 DEF Saver
  <2> QED
    BY <1>0, <1>1, <1>5, <2>1, <2>2 DEF InsertSite, SaveTypeOK
<1> QED
  BY <1>2, <1>3, <1>4, <1>5 DEF SaveStep

\* The broker and the listeners.
LEMMA DeliverTypes ==
    ASSUME SystemTypeOK,
           \/ DeliverReply \/ DeliverLen
           \/ \E c \in Crawlers : Listen(c) \/ Forward(c)
    PROVE  CrawlTypeOK'
<1>0. CrawlTypeOK /\ cbq \in Seq(Reply)
  BY DEF SystemTypeOK, TypeOK
<1> USE DEF CrawlTypeOK
<1>1. CASE DeliverReply
  <2>1. /\ Head(ring) \in Crawlers /\ Tail(ring) \in Seq(Crawlers)
        /\ Head(cbq) \in Reply
    BY <1>0, <1>1, HeadTailProperties DEF DeliverReply, TakeReply
  <2>2. ring' \in Seq(Crawlers)
    <3>1. ring' = Append(Tail(ring), Head(ring))
      BY <1>1 DEF DeliverReply, Rotate
    <3> QED
      BY <2>1, <3>1, AppendProperties
  <2>3. dlv' \in [Crawlers -> Seq(Reply)]
    <3> DEFINE h == Head(ring)
               q == Append(dlv[h], Head(cbq))
    <3>1. dlv' = [dlv EXCEPT ![h] = q]
      BY <1>1 DEF DeliverReply
    <3>2. dlv \in [Crawlers -> Seq(Reply)] /\ h \in Crawlers
      BY <1>0, <2>1
    <3>3. dlv[h] \in Seq(Reply)
      BY <3>2
    <3>4. q \in Seq(Reply)
      BY <2>1, <3>3, AppendProperties
    <3> HIDE DEF h, q
    <3> QED
      BY <3>1, <3>2, <3>4
  <2>4. UNCHANGED <<cr, out, chan, len_ring, wd, verdict, mute>>
    BY <1>1 DEF DeliverReply
  <2> QED
    BY <1>0, <2>2, <2>3, <2>4
<1>2. CASE DeliverLen
  <2>1. Head(len_ring) \in Crawlers /\ Tail(len_ring) \in Seq(Crawlers)
    BY <1>0, <1>2, HeadTailProperties DEF DeliverLen
  <2>2. cr' \in [Crawlers -> [pc : CrawlPcs, url : Urls]]
    <3> DEFINE c == Head(len_ring)
    <3>1. cr \in [Crawlers -> [pc : CrawlPcs, url : Urls]] /\ c \in Crawlers
      BY <1>0, <2>1
    <3>2. Seed[c] \in Urls
      BY <3>1, CrawlAssumption
    <3>3. /\ [pc |-> "navigate", url |-> Seed[c]] \in [pc : CrawlPcs, url : Urls]
          /\ [cr[c] EXCEPT !.pc = "force_dequeue"] \in [pc : CrawlPcs, url : Urls]
      BY <3>1, <3>2 DEF CrawlPcs
    <3>4. \/ cr' = cr
          \/ cr' = [cr EXCEPT ![c] = [pc |-> "navigate", url |-> Seed[c]]]
          \/ cr' = [cr EXCEPT ![c] = [cr[c] EXCEPT !.pc = "force_dequeue"]]
      BY <1>2, <3>1 DEF DeliverLen
    <3> HIDE DEF c
    <3> QED
      BY <3>1, <3>3, <3>4
  <2>3. len_ring' \in Seq(Crawlers)
    <3>1. len_ring' = Append(Tail(len_ring), Head(len_ring))
      BY <1>2 DEF DeliverLen, Rotate
    <3> QED
      BY <2>1, <3>1, AppendProperties
  <2>4. UNCHANGED <<out, dlv, chan, ring, wd, verdict, mute>>
    BY <1>2 DEF DeliverLen
  <2> QED
    BY <1>0, <2>2, <2>3, <2>4
<1>3. ASSUME NEW c \in Crawlers, Listen(c) PROVE CrawlTypeOK'
  BY <1>0, <1>3 DEF Listen
<1>4. ASSUME NEW c \in Crawlers, Forward(c) PROVE CrawlTypeOK'
  <2>1. Head(dlv[c]) \in Reply /\ Tail(dlv[c]) \in Seq(Reply)
    BY <1>0, <1>4, HeadTailProperties DEF Forward
  <2> QED
    BY <1>0, <1>4, <2>1 DEF Forward
<1> QED
  BY <1>1, <1>2, <1>3, <1>4

\* A crawler finds links of its own site only.
LEMMA FoundIsOwn ==
    ASSUME NEW c \in Crawlers, NEW found \in Found(c)
    PROVE  found \subseteq UrlsOf(Root(c)) /\ found \in SUBSET Urls
BY DEF Found, UrlsOf

\* The answer to a crawl request.
LEMMA AdmitTypes ==
    ASSUME CrawlTypeOK, NEW j \in Jobs, Admit(j)
    PROVE  CrawlTypeOK'
<1>1. PICK v \in {"admitted", "refused"} : verdict' = [verdict EXCEPT ![j] = v]
  BY DEF Admit
<1>2. verdict' \in [Jobs -> {"none", "admitted", "refused"}]
  BY <1>1 DEF CrawlTypeOK
<1> QED
  BY <1>2 DEF Admit, CrawlTypeOK

\* The loop of a crawler.
LEMMA LoopTypes ==
    ASSUME SystemTypeOK, NEW c \in Crawlers,
           Start(c) \/ LoopStep(c) \/ PublishLinks(c) \/ NavigateFails(c)
    PROVE  CrawlTypeOK' /\ SaveTypeOK'
<1>0. /\ CrawlTypeOK /\ SaveTypeOK /\ Job[c] \in Jobs /\ Root(c) \in Hosts
      /\ cr[c] \in [pc : CrawlPcs, url : Urls] /\ chan[c] \in Seq(Reply)
      /\ wd[Job[c]] \in Urls \cup {NoPage}
  BY CrawlAssumption, StoreAssumption DEF SystemTypeOK, CrawlTypeOK, Root
<1>1. ASSUME NEW pc \in CrawlPcs, NEW u \in Urls,
             \/ cr' = [cr EXCEPT ![c].pc = pc]
             \/ cr' = [cr EXCEPT ![c] = [pc |-> pc, url |-> u]]
      PROVE  cr' \in [Crawlers -> [pc : CrawlPcs, url : Urls]]
  <2>1. cr \in [Crawlers -> [pc : CrawlPcs, url : Urls]]
    BY <1>0 DEF CrawlTypeOK
  <2>2. CASE cr' = [cr EXCEPT ![c].pc = pc]
    <3>1. cr' = [cr EXCEPT ![c] = [cr[c] EXCEPT !.pc = pc]]
      BY <2>2
    <3>2. [cr[c] EXCEPT !.pc = pc] \in [pc : CrawlPcs, url : Urls]
      BY <1>0
    <3> QED
      BY <2>1, <3>1, <3>2
  <2>3. CASE cr' = [cr EXCEPT ![c] = [pc |-> pc, url |-> u]]
    BY <2>1, <2>3
  <2> QED
    BY <1>1, <2>2, <2>3
<1>2. /\ \A pc \in {"consume_len", "await_len", "receive", "done", "extract",
                     "stopped", "index"} :
            cr' = [cr EXCEPT ![c].pc = pc]
               => cr' \in [Crawlers -> [pc : CrawlPcs, url : Urls]]
      /\ \A u \in Urls : cr' = [cr EXCEPT ![c] = [pc |-> "navigate", url |-> u]]
               => cr' \in [Crawlers -> [pc : CrawlPcs, url : Urls]]
  <2>1. cr[c].url \in Urls
    BY <1>0
  <2> QED
    BY <1>1, <2>1 DEF CrawlPcs
<1>3. CASE Start(c) \/ ConsumeLen(c) \/ ForceDequeue(c) \/ NavigateFails(c)
  <2>1. \E pc \in {"consume_len", "await_len", "receive", "stopped"} :
           cr' = [cr EXCEPT ![c].pc = pc]
    BY <1>3 DEF Start, ConsumeLen, ForceDequeue, NavigateFails
  <2>2. UNCHANGED <<out, dlv, chan, ring, wd, verdict, mute, sav, webpages>>
    BY <1>3 DEF Start, ConsumeLen, ForceDequeue, NavigateFails, indexing
  <2>3. len_ring' = len_ring \/ len_ring' = Append(len_ring, c)
    BY <1>3 DEF Start, ConsumeLen, ForceDequeue, NavigateFails
  <2>4. cr' \in [Crawlers -> [pc : CrawlPcs, url : Urls]]
    BY <1>2, <2>1
  <2>5. len_ring' \in Seq(Crawlers)
    <3>1. len_ring \in Seq(Crawlers)
      BY <1>0 DEF CrawlTypeOK
    <3>2. Append(len_ring, c) \in Seq(Crawlers)
      BY <3>1
    <3> QED
      BY <2>3, <3>1, <3>2
  <2> QED
    BY <1>0, <2>2, <2>4, <2>5 DEF CrawlTypeOK, SaveTypeOK
<1>4. CASE Receive(c)
  <2>a. Head(chan[c]) \in Reply
    BY <1>0, <1>4, HeadTailProperties DEF Receive
  <2>1. Head(chan[c]).url \in Urls \cup {End}
    BY <2>a DEF Reply
  <2>2. \/ cr' = [cr EXCEPT ![c].pc = "done"]
        \/ \E u \in Urls : cr' = [cr EXCEPT ![c] = [pc |-> "navigate", url |-> u]]
    BY <1>4, <2>1 DEF Receive
  <2> QED
    BY <1>0, <1>2, <1>4, <2>2, EmptySeq
    DEF Receive, CrawlTypeOK, SaveTypeOK, indexing
<1>5. CASE Navigate(c)
  BY <1>0, <1>2, <1>5 DEF Navigate, CrawlTypeOK, SaveTypeOK, indexing
<1>6. CASE ExtractLinks(c)
  <2>1. PICK found \in Found(c) :
           /\ out' = [out EXCEPT ![c] = found]
           /\ mute' = [mute EXCEPT ![c] = found = {}]
    BY <1>6 DEF ExtractLinks
  <2>2. out' \in [Crawlers -> SUBSET Urls]
    BY <1>0, <2>1, FoundIsOwn DEF CrawlTypeOK
  <2>3. mute' \in [Crawlers -> BOOLEAN]
    <3>1. PICK m \in BOOLEAN : m = (found = {})
      BY Zenon
    <3>2. mute' = [mute EXCEPT ![c] = m]
      BY <2>1, <3>1
    <3> QED
      BY <1>0, <3>2 DEF CrawlTypeOK
  <2> QED
    BY <1>0, <1>2, <1>6, <2>2, <2>3
    DEF ExtractLinks, CrawlTypeOK, SaveTypeOK, indexing
<1>7. CASE IndexPage(c)
  <2>1. CrawlTypeOK'
    BY <1>0, <1>2, <1>7 DEF IndexPage, CrawlTypeOK
  <2>2. PICK p \in SaveSlots :
           /\ webpages' = webpages
           /\ sav' = [sav EXCEPT ![p] =
                        [pc |-> "select_site", known |-> FALSE,
                         msg |-> [seed |-> Root(c), url |-> cr[c].url,
                                  from |-> wd[Job[c]]]]]
    BY <1>7 DEF IndexPage, Save
  <2>3. SaveTypeOK'
    BY <1>0, <2>2 DEF SaveTypeOK, Saver, Message
  <2> QED
    BY <2>1, <2>3
<1>8. CASE PublishLinks(c)
  BY <1>0, <1>8 DEF PublishLinks, CrawlTypeOK, SaveTypeOK, indexing
<1> QED
  BY <1>3, <1>4, <1>5, <1>6, <1>7, <1>8 DEF LoopStep

LEMMA SystemTypeStep == SystemTypeOK /\ [SystemNext]_sysvars => SystemTypeOK'
<1> SUFFICES ASSUME SystemTypeOK, [SystemNext]_sysvars PROVE SystemTypeOK'
  OBVIOUS
<1>0. TypeOK' /\ HoldsUrl'
  BY FrontierTypes
<1> SUFFICES CrawlTypeOK' /\ SaveTypeOK'
  BY <1>0 DEF SystemTypeOK
<1>1. CASE UNCHANGED <<indexing, crawling>>
  BY <1>1 DEF indexing, crawling, SystemTypeOK, CrawlTypeOK, SaveTypeOK
<1>2. CASE LoseVolatile
  BY <1>2, LoseTypes
<1>3. ASSUME NEW s \in Slots, DatabaseStep(s)
      PROVE  CrawlTypeOK' /\ SaveTypeOK'
  BY <1>1, <1>2, <1>3 DEF DatabaseStep
<1>4. ASSUME NEW p \in SaveSlots, IndexingStep(p)
      PROVE  CrawlTypeOK' /\ SaveTypeOK'
  <2>1. CASE SaveStep(p) /\ UNCHANGED <<frontier, crawling>>
    BY <2>1, SaveTypes DEF crawling, SystemTypeOK, CrawlTypeOK
  <2> QED
    BY <1>2, <1>4, <2>1 DEF IndexingStep
<1>5. CASE \/ DeliverReply \/ DeliverLen
           \/ \E c \in Crawlers : Listen(c) \/ Forward(c)
  <2>1. UNCHANGED indexing
    BY <1>5 DEF DeliverReply, DeliverLen, Listen, Forward
  <2> QED
    BY <1>5, <2>1, DeliverTypes DEF indexing, SystemTypeOK, SaveTypeOK
<1>6. ASSUME NEW c \in Crawlers,
             \/ Start(c) \/ CrawlerStep(c) \/ NavigateFails(c) \/ Panic(c)
      PROVE  CrawlTypeOK' /\ SaveTypeOK'
  BY <1>2, <1>5, <1>6, LoopTypes DEF CrawlerStep, Panic
<1>7. CASE SystemCrash \/ SystemRestart \/ Finished \/ UNCHANGED sysvars
  BY <1>1, <1>2, <1>7
  DEF SystemCrash, SystemRestart, Finished, sysvars
<1>8. ASSUME NEW j \in Jobs, Admit(j) PROVE CrawlTypeOK' /\ SaveTypeOK'
  <2>1. CrawlTypeOK'
    BY <1>8, AdmitTypes DEF SystemTypeOK
  <2> QED
    BY <1>8, <2>1 DEF Admit, indexing, SystemTypeOK, SaveTypeOK
<1> QED
  BY <1>3, <1>4, <1>5, <1>6, <1>7, <1>8 DEF SystemNext

\* Whatever fails and however many crawlers there are, every variable of the
\* system keeps its type.
THEOREM SystemTypeCorrect == SystemSpec => []SystemTypeOK
BY SystemInitType, SystemTypeStep, PTL DEF SystemSpec

----------------------------------------------------------------------------
(* What is stored is the text of some page, for any number of crawlers,    *)
(* whether or not they share a session.                                    *)

\* A session that is read shows a page, and a message holds the text of one.
PageInv ==
    /\ \A c \in Crawlers :
          cr[c].pc \in {"extract", "index"} => wd[Job[c]] # NoPage
    /\ \A p \in SaveSlots :
          sav[p].pc # "idle" => sav[p].msg.from # NoPage

LEMMA PageSaved ==
    ASSUME SystemTypeOK, PageInv, NEW p \in SaveSlots, SaveStep(p),
           UNCHANGED <<cr, wd>>
    PROVE  PageInv'
<1>0. /\ sav \in [SaveSlots -> Saver]
      /\ sav[p].pc # "idle" /\ sav[p].msg.from # NoPage
  BY DEF SystemTypeOK, SaveTypeOK, PageInv, SaveStep, SelectSite, SelectRoot,
         InsertPage, InsertSite, InsertFirst
<1>1. \/ sav' = [sav EXCEPT ![p] = NotSaving]
      \/ sav'[p].msg = sav[p].msg /\ \A q \in SaveSlots \ {p} : sav'[q] = sav[q]
  <2>1. CASE SelectRoot(p)
    <3>1. \/ sav' = [sav EXCEPT ![p] = NotSaving]
          \/ \E pc \in {"insert_site", "insert_page"} :
                sav' = [sav EXCEPT ![p] = [sav[p] EXCEPT !.pc = pc]]
      BY <2>1 DEF SelectRoot
    <3> QED
      BY <1>0, <3>1 DEF Saver
  <2>2. CASE SelectSite(p)
    <3>1. PICK k : sav' = [sav EXCEPT ![p] = [sav[p] EXCEPT !.known = k, !.pc = "select_queue"]]
      BY <2>2 DEF SelectSite
    <3> QED
      BY <1>0, <3>1 DEF Saver
  <2>3. CASE InsertSite(p)
    BY <1>0, <2>3 DEF InsertSite, Saver
  <2>4. CASE InsertPage(p) \/ InsertFirst(p)
    BY <2>4 DEF InsertPage, InsertFirst, Insert
  <2> QED
    BY <2>1, <2>2, <2>3, <2>4 DEF SaveStep
<1>2. \A q \in SaveSlots : sav'[q].pc # "idle" => sav'[q].msg.from # NoPage
  BY <1>0, <1>1 DEF PageInv, NotSaving
<1> QED
  BY <1>2 DEF PageInv

LEMMA PageLost ==
    ASSUME PageInv, LoseVolatile
    PROVE  PageInv'
<1>1. \A c \in Crawlers : cr'[c].pc \notin {"extract", "index"}
  BY DEF LoseVolatile, Volatile
<1>2. \A p \in SaveSlots : sav'[p].pc = "idle"
  BY DEF LoseVolatile, NotSaving
<1> QED
  BY <1>1, <1>2 DEF PageInv

LEMMA PageLoop ==
    ASSUME SystemTypeOK, PageInv, NEW c \in Crawlers,
           Start(c) \/ LoopStep(c) \/ PublishLinks(c) \/ NavigateFails(c)
    PROVE  PageInv'
<1>0. /\ cr \in [Crawlers -> [pc : CrawlPcs, url : Urls]]
      /\ wd \in [Jobs -> Urls \cup {NoPage}]
      /\ sav \in [SaveSlots -> Saver]
      /\ \A d \in Crawlers : Job[d] \in Jobs
      /\ NoPage \notin Urls
  BY CrawlAssumption, SaveAssumption
  DEF SystemTypeOK, CrawlTypeOK, SaveTypeOK
<1>2. CASE Navigate(c)
  <2>1. /\ cr' = [cr EXCEPT ![c] = [cr[c] EXCEPT !.pc = "extract"]]
        /\ wd' = [wd EXCEPT ![Job[c]] = cr[c].url]
        /\ sav' = sav
    BY <1>2 DEF Navigate, indexing
  <2>2. ASSUME NEW d \in Crawlers, cr'[d].pc \in {"extract", "index"}
        PROVE  wd'[Job[d]] # NoPage
    <3>1. CASE Job[d] = Job[c]
      BY <1>0, <2>1, <3>1
    <3>2. CASE Job[d] # Job[c]
      BY <1>0, <2>1, <2>2, <3>2 DEF PageInv
    <3> QED
      BY <3>1, <3>2
  <2> QED
    BY <2>1, <2>2 DEF PageInv
<1>3. CASE IndexPage(c)
  <2>1. /\ cr[c].pc = "index" /\ wd' = wd
        /\ cr' = [cr EXCEPT ![c] = [cr[c] EXCEPT !.pc = "receive"]]
    BY <1>3 DEF IndexPage
  <2>2. PICK p \in SaveSlots :
           sav' = [sav EXCEPT ![p] =
                     [pc |-> "select_site", known |-> FALSE,
                      msg |-> [seed |-> Root(c), url |-> cr[c].url,
                               from |-> wd[Job[c]]]]]
    BY <1>3 DEF IndexPage, Save
  <2>3. \A q \in SaveSlots : sav'[q].pc # "idle" => sav'[q].msg.from # NoPage
    BY <1>0, <2>1, <2>2 DEF PageInv
  <2>4. \A d \in Crawlers :
           cr'[d].pc \in {"extract", "index"} => wd'[Job[d]] # NoPage
    BY <1>0, <2>1 DEF PageInv
  <2> QED
    BY <2>3, <2>4 DEF PageInv
<1>4. CASE ~Navigate(c) /\ ~IndexPage(c)
  <2>1. wd' = wd /\ sav' = sav
    BY <1>4 DEF LoopStep, Start, ConsumeLen, ForceDequeue, Receive,
                ExtractLinks, PublishLinks, NavigateFails, indexing
  <2>2. \A d \in Crawlers : cr'[d].pc \in {"extract", "index"} =>
           \/ cr'[d] = cr[d]
           \/ cr[d].pc = "extract" /\ cr'[d].url = cr[d].url
    BY <1>0, <1>4
    DEF LoopStep, Start, ConsumeLen, ForceDequeue, Receive, ExtractLinks,
        PublishLinks, NavigateFails
  <2> QED
    BY <2>1, <2>2 DEF PageInv
<1> QED
  BY <1>2, <1>3, <1>4

LEMMA PageStep ==
    ASSUME SystemTypeOK, PageInv, [SystemNext]_sysvars
    PROVE  PageInv'
<1>1. CASE UNCHANGED <<cr, wd, sav>>
  BY <1>1 DEF PageInv
<1>2. CASE LoseVolatile
  BY <1>2, PageLost
<1>3. ASSUME NEW s \in Slots, DatabaseStep(s) PROVE PageInv'
  BY <1>1, <1>2, <1>3 DEF DatabaseStep, indexing, crawling
<1>4. ASSUME NEW p \in SaveSlots, IndexingStep(p) PROVE PageInv'
  BY <1>2, <1>4, PageSaved DEF IndexingStep, crawling
<1>5. CASE DeliverLen
  <2>1. /\ UNCHANGED <<wd, sav>>
        /\ \A d \in Crawlers :
              cr'[d] = cr[d] \/ cr'[d].pc \in {"navigate", "force_dequeue"}
    BY <1>5 DEF DeliverLen, SystemTypeOK, CrawlTypeOK, indexing
  <2> QED
    BY <2>1 DEF PageInv
<1>6. CASE DeliverReply \/ \E c \in Crawlers : Listen(c) \/ Forward(c)
  BY <1>1, <1>6 DEF DeliverReply, Listen, Forward, indexing
<1>7. ASSUME NEW c \in Crawlers,
             \/ Start(c) \/ CrawlerStep(c) \/ NavigateFails(c) \/ Panic(c)
      PROVE  PageInv'
  BY <1>2, <1>6, <1>7, PageLoop DEF CrawlerStep, Panic
<1>8. CASE SystemCrash \/ SystemRestart \/ (\E j \in Jobs : Admit(j))
           \/ Finished \/ UNCHANGED sysvars
  BY <1>1, <1>2, <1>8
  DEF SystemCrash, SystemRestart, Admit, Finished, sysvars, indexing, crawling
<1> QED
  BY <1>3, <1>4, <1>5, <1>6, <1>7, <1>8 DEF SystemNext

LEMMA PageAlways == SystemSpec => []PageInv
<1>1. SystemInit => PageInv
  BY DEF SystemInit, CrawlInit, IndexingInit, Volatile, NotSaving, PageInv
<1>2. SystemTypeOK /\ PageInv /\ [SystemNext]_sysvars => PageInv'
  BY PageStep
<1> QED
  BY <1>1, <1>2, SystemTypeCorrect, PTL DEF SystemSpec

----------------------------------------------------------------------------
(* The tables, for any number of crawlers: every one of them asks for urls *)
(* of its own site only, as FreeClient does.                               *)

OwnLinks == \A c \in Crawlers : out[c] \subseteq UrlsOf(Root(c))

LEMMA OwnFrontierPart ==
    ASSUME SystemTypeOK, OwnLinks, [SystemNext]_sysvars
    PROVE  [OwnNext]_vars \/ Throw
<1>0. ASSUME NEW c \in Crawlers PROVE Root(c) \in Hosts
  BY CrawlAssumption, StoreAssumption DEF Root
<1>1. ASSUME NEW s \in Slots, DatabaseStep(s) PROVE OwnNext
  BY <1>1 DEF DatabaseStep, OwnNext, ServiceStep
<1>2. ASSUME NEW p \in SaveSlots, IndexingStep(p) PROVE UNCHANGED vars \/ Throw
  BY <1>2 DEF IndexingStep, frontier
<1>3. CASE DeliverReply \/ DeliverLen
  BY <1>3 DEF DeliverReply, DeliverLen, OwnNext
<1>4. ASSUME NEW c \in Crawlers,
             Start(c) \/ ForceDequeue(c) \/ PublishLinks(c)
      PROVE  OwnRequest
  <2>1. {} \in SUBSET UrlsOf(Root(c)) /\ out[c] \in SUBSET UrlsOf(Root(c))
    BY DEF OwnLinks
  <2>2. CASE Start(c)
    BY <1>0, <2>1, <2>2 DEF Start, OwnRequest
  <2>3. CASE ForceDequeue(c)
    BY <1>0, <2>1, <2>3 DEF ForceDequeue, OwnRequest
  <2>4. CASE PublishLinks(c)
    BY <1>0, <2>1, <2>4 DEF PublishLinks, OwnRequest
  <2> QED
    BY <1>4, <2>2, <2>3, <2>4
<1>5. ASSUME NEW c \in Crawlers,
             \/ ConsumeLen(c) \/ Receive(c) \/ Navigate(c) \/ ExtractLinks(c)
             \/ IndexPage(c) \/ Listen(c) \/ Forward(c) \/ NavigateFails(c)
      PROVE  UNCHANGED vars
  BY <1>5 DEF ConsumeLen, Receive, Navigate, ExtractLinks, IndexPage, Listen,
              Forward, NavigateFails, frontier
<1>6. ASSUME NEW c \in Crawlers, Panic(c) PROVE Throw
  BY <1>6 DEF Panic
<1>7. CASE SystemCrash \/ SystemRestart
  BY <1>7 DEF SystemCrash, SystemRestart, OwnNext, ServiceStep
<1>8. CASE (\E j \in Jobs : Admit(j)) \/ Finished \/ UNCHANGED sysvars
  BY <1>8 DEF Admit, Finished, sysvars, frontier
<1> QED
  BY <1>1, <1>2, <1>3, <1>4, <1>5, <1>6, <1>7, <1>8
  DEF SystemNext, CrawlerStep, LoopStep, OwnNext

LEMMA OwnLinksStep ==
    ASSUME SystemTypeOK, OwnLinks, [SystemNext]_sysvars
    PROVE  OwnLinks'
<1>0. out \in [Crawlers -> SUBSET Urls]
  BY DEF SystemTypeOK, CrawlTypeOK
<1>1. CASE UNCHANGED out
  BY <1>1 DEF OwnLinks
<1>2. CASE LoseVolatile
  BY <1>2 DEF LoseVolatile, Volatile, OwnLinks
<1>3. ASSUME NEW c \in Crawlers, ExtractLinks(c) \/ PublishLinks(c)
      PROVE  OwnLinks'
  <2>1. \E S \in SUBSET UrlsOf(Root(c)) : out' = [out EXCEPT ![c] = S]
    BY <1>3, FoundIsOwn DEF ExtractLinks, PublishLinks
  <2> QED
    BY <1>0, <2>1 DEF OwnLinks
<1>4. ASSUME NEW s \in Slots, DatabaseStep(s) PROVE OwnLinks'
  BY <1>1, <1>2, <1>4 DEF DatabaseStep, crawling
<1>5. ASSUME NEW p \in SaveSlots, IndexingStep(p) PROVE OwnLinks'
  BY <1>1, <1>2, <1>5 DEF IndexingStep, crawling
<1>6. ASSUME NEW c \in Crawlers,
             \/ Start(c) \/ ConsumeLen(c) \/ ForceDequeue(c) \/ Receive(c)
             \/ Navigate(c) \/ IndexPage(c) \/ Listen(c) \/ Forward(c)
             \/ NavigateFails(c)
      PROVE  OwnLinks'
  BY <1>1, <1>6 DEF Start, ConsumeLen, ForceDequeue, Receive, Navigate,
                    IndexPage, Listen, Forward, NavigateFails
<1>7. CASE DeliverReply \/ DeliverLen \/ SystemRestart \/ Finished
           \/ (\E j \in Jobs : Admit(j)) \/ UNCHANGED sysvars
  BY <1>1, <1>7
  DEF DeliverReply, DeliverLen, SystemRestart, Finished, Admit, sysvars,
      crawling
<1>8. CASE SystemCrash \/ \E c \in Crawlers : Panic(c)
  BY <1>2, <1>8 DEF SystemCrash, Panic
<1> QED
  BY <1>3, <1>4, <1>5, <1>6, <1>7, <1>8 DEF SystemNext, CrawlerStep, LoopStep

LEMMA FreeAlways == SystemSpec => [](FreeInv /\ OwnLinks)
<1>1. SystemInit => FreeInv /\ OwnLinks
  BY FreeInvInit DEF SystemInit, CrawlInit, Volatile, OwnLinks
<1>2. SystemTypeOK /\ FreeInv /\ OwnLinks /\ [SystemNext]_sysvars
      => (FreeInv /\ OwnLinks)'
  BY OwnFrontierPart, OwnLinksStep, FreeStep
<1> QED
  BY <1>1, <1>2, SystemTypeCorrect, PTL DEF SystemSpec

\* However many crawlers drive the service, whichever replies they take from
\* one another and whatever stops the system, no row outlives its queue.
THEOREM NoOrphansAnyCrawlers == SystemSpec => []NoOrphanRows
<1>1. FreeInv => NoOrphanRows
  BY DEF FreeInv
<1> QED
  BY <1>1, FreeAlways, PTL

----------------------------------------------------------------------------
(* One crawler.  Its pc tells where the right to ask for a url can be.     *)

\* The reply was published, and what it handed out is being recorded.
Finishing(s) == hnd[s].pc \in {"set_visited", "delete_node", "remove_queue"}

NoMail(c) == cbq = <<>> /\ dlv[c] = <<>> /\ chan[c] = <<>>

\* A handler counts rows for a crawler that starts, owes a url to one that
\* has nothing else to come, or has answered.
HandlerPlace(c, s) ==
    hnd[s].pc # "idle" =>
       /\ hnd[s].root = Root(c) /\ svc = "up" /\ out[c] = {}
       /\ hnd[s].kind # "enqueue_empty"
       /\ hnd[s].kind = "getlen" <=> hnd[s].pc = "count_nodes"
       /\ hnd[s].pc = "count_nodes" =>
             cr[c].pc \in {"consume_len", "await_len"} /\ len_cbq = <<>>
       /\ hnd[s].pc \in OwingPcs \ {"count_nodes"} =>
             cr[c].pc \in {"index", "receive"} /\ NoMail(c)
       /\ Finishing(s) =>
             cr[c].pc \in {"index", "receive", "navigate", "extract", "done",
                           "stopped"}

OneHandler ==
    \A s, t \in Slots : hnd[s].pc # "idle" /\ hnd[t].pc # "idle" => s = t

TokenInv(c) ==
    /\ OneHandler /\ \A s \in Slots : HandlerPlace(c, s)
    /\ \A i \in 1..Len(cbq) : cbq[i].for = Root(c)
    /\ Len(cbq) + Len(dlv[c]) + Len(chan[c]) <= 1
    /\ ~NoMail(c) => cr[c].pc \in {"index", "receive"} /\ out[c] = {}
    /\ out[c] # {} => cr[c].pc \in {"index", "receive"}
    /\ \A i \in 1..Len(len_cbq) : len_cbq[i].for = Root(c)
    /\ Len(len_cbq) <= 1
    /\ len_cbq # <<>> => /\ \A s \in Slots : hnd[s].pc = "idle"
                         /\ cr[c].pc \in {"consume_len", "await_len"}
    /\ svc # "up" => cr[c].pc \in {"new", "past"}

\* The urls on their way to the crawler, and the one it is at.
OwnMail(c, mail) ==
    \A i \in 1..Len(mail) : mail[i].url \in UrlsOf(Root(c)) \cup {End}

HostInv(c) ==
    /\ OwnMail(c, cbq) /\ OwnMail(c, dlv[c]) /\ OwnMail(c, chan[c])
    /\ cr[c].url \in UrlsOf(Root(c))

\* What a handler of an indexed page has read is still so when it inserts.
SaverPlace(c, p) ==
    LET seed == sav[p].msg.seed
        At(pc) == sav[p].pc = pc
    IN
    ~At("idle") =>
       /\ seed = Root(c) /\ sav[p].msg.url \in UrlsOf(Root(c))
       /\ cr[c].pc # "index"
       /\ At("select_queue") => (sav[p].known <=> seed \in sites)
       /\ At("insert_page") => seed \in sites
       /\ At("insert_site") => seed \notin sites
       /\ At("insert_first") => /\ seed \in sites
                                /\ \A u \in UrlsOf(seed) : ~Stored(u)

SaveInv(c) ==
    /\ \A p, q \in SaveSlots :
          sav[p].pc # "idle" /\ sav[q].pc # "idle" => p = q
    /\ \A p \in SaveSlots : SaverPlace(c, p)
    /\ \A u \in Urls : Stored(u) => HostOf[u] \in sites

----------------------------------------------------------------------------
(* The token of a crawl *)

SameRequest(s) == hnd'[s].kind = hnd[s].kind /\ hnd'[s].root = hnd[s].root

\* What the steps of a handler have in common: it goes on, it publishes its
\* reply, it ends after having recorded it, or it counts.
LEMMA HandlerEffect ==
    ASSUME TypeOK, NEW s \in Slots, HandlerStep(s), ~Throw,
           hnd[s].kind # "enqueue_empty",
           hnd[s].kind = "getlen" <=> hnd[s].pc = "count_nodes"
    PROVE  \/ /\ hnd[s].pc \in OwingPcs \ {"count_nodes", "publish"}
              /\ hnd'[s].pc \in OwingPcs \ {"count_nodes"}
              /\ SameRequest(s) /\ UNCHANGED replies
           \/ /\ hnd[s].pc = "publish" /\ Finishing(s)' /\ SameRequest(s)
              /\ cbq' = Append(cbq, [url |-> hnd[s].url, for |-> hnd[s].root])
              /\ len_cbq' = len_cbq
           \/ /\ Finishing(s) /\ UNCHANGED replies
              /\ \/ hnd'[s].pc = "idle"
                 \/ Finishing(s)' /\ SameRequest(s)
           \/ /\ hnd[s].pc = "count_nodes" /\ hnd'[s].pc = "idle"
              /\ cbq' = cbq
              /\ \E b \in BOOLEAN :
                    len_cbq' = Append(len_cbq, [empty |-> b, for |-> hnd[s].root])
<1>0. hnd \in [Slots -> Handler]
  BY DEF TypeOK
<1> USE DEF OwingPcs, DequeuePcs, Finishing, SameRequest, Quietly, Goto, Answer,
            Hold
<1>1. CASE \/ FindQueue(s) \/ CreateQueue(s) \/ ReloadQueue(s)
           \/ CheckVisited(s) \/ InsertUrl(s) \/ FinishEnqueue(s)
  <2>1. CASE FindQueue(s)
    BY <1>0, <2>1 DEF FindQueue, Handler
  <2>2. CASE CreateQueue(s)
    BY <1>0, <2>2 DEF CreateQueue, Handler
  <2>3. CASE ReloadQueue(s)
    BY <1>0, <2>3 DEF ReloadQueue, Handler
  <2>4. CASE CheckVisited(s)
    BY <1>0, <2>4 DEF CheckVisited, Handler
  <2>5. CASE InsertUrl(s)
    BY <1>0, <2>5 DEF InsertUrl, Handler
  <2>6. CASE FinishEnqueue(s)
    BY <1>0, <2>6 DEF FinishEnqueue, Handler
  <2> QED
    BY <1>1, <2>1, <2>2, <2>3, <2>4, <2>5, <2>6
<1>2. CASE \/ SelectQueue(s) \/ SelectInProgress(s) \/ SelectPending(s)
           \/ UpdateInProgress(s) \/ CountRows(s) \/ SqlError(s)
  <2>1. CASE SelectQueue(s)
    BY <1>0, <2>1 DEF SelectQueue, Handler
  <2>h. ASSUME NEW u, NEW pc \in {"dq_count", "dq_update"}, Hold(s, u, pc)
        PROVE  hnd'[s].pc = pc /\ SameRequest(s)
    <3>1. hnd'[s].pc = pc
      BY <1>0, <2>h
    <3>2. hnd'[s].kind = hnd[s].kind
      BY <1>0, <2>h DEF Handler
    <3>3. hnd'[s].root = hnd[s].root
      BY <1>0, <2>h DEF Handler
    <3> QED
      BY <3>1, <3>2, <3>3
  <2> HIDE DEF Hold, SameRequest
  <2>2. CASE SelectInProgress(s)
    <3>1. CASE Goto(s, "dq_pending")
      BY <1>0, <2>2, <3>1 DEF SelectInProgress, Handler, SameRequest
    <3>2. CASE \E u : Hold(s, u, "dq_count")
      BY <2>2, <2>h, <3>2 DEF SelectInProgress
    <3> QED
      BY <2>2, <3>1, <3>2 DEF SelectInProgress
  <2>3. CASE SelectPending(s)
    <3>1. CASE Answer(s, End)
      BY <1>0, <2>3, <3>1 DEF SelectPending, Handler, SameRequest
    <3>2. CASE \E u : Hold(s, u, "dq_update")
      BY <2>3, <2>h, <3>2 DEF SelectPending
    <3> QED
      BY <2>3, <3>1, <3>2 DEF SelectPending
  <2> USE DEF SameRequest
  <2>4. CASE UpdateInProgress(s)
    BY <1>0, <2>4 DEF UpdateInProgress, Handler
  <2>5. CASE CountRows(s)
    BY <1>0, <2>5 DEF CountRows, Handler
  <2>6. CASE SqlError(s)
    BY <1>0, <2>6 DEF SqlError, Handler
  <2> QED
    BY <1>2, <2>1, <2>2, <2>3, <2>4, <2>5, <2>6
<1>3. CASE Publish(s)
  BY <1>0, <1>3 DEF Publish, Handler
<1>4. CASE SetNodeToVisited(s) \/ DeleteVisited(s) \/ RemoveQueue(s)
  BY <1>0, <1>4
  DEF SetNodeToVisited, DeleteVisited, RemoveQueue, Handler, Idle, Handling
<1>5. CASE CountNodes(s)
  <2>1. (Rows(hnd[s].root) = {}) \in BOOLEAN
    BY SMT
  <2> QED
    BY <1>0, <1>5, <2>1 DEF CountNodes, Idle, Handling
<1> QED
  BY <1>1, <1>2, <1>3, <1>4, <1>5 DEF HandlerStep

\* After a stop everything begins anew.
LEMMA TokenReset ==
    ASSUME NEW c \in Crawlers, LoseVolatile, \A s \in Slots : hnd'[s] = Idle,
           cbq' = <<>>, len_cbq' = <<>>
    PROVE  TokenInv(c)'
<1>1. /\ cr'[c].pc \in {"new", "past"} /\ out'[c] = {}
      /\ dlv'[c] = <<>> /\ chan'[c] = <<>>
  BY DEF LoseVolatile, Volatile
<1>2. /\ NoMail(c)'
      /\ Len(cbq') = 0 /\ Len(len_cbq') = 0
      /\ Len(dlv'[c]) = 0 /\ Len(chan'[c]) = 0
  BY <1>1 DEF NoMail
<1>0. Idle.pc = "idle"
  BY DEF Idle, Handling
<1>3. \A s \in Slots : hnd'[s].pc = "idle"
  BY <1>0
<1>6. (\A s \in Slots : HandlerPlace(c, s))' /\ OneHandler'
  BY <1>3 DEF HandlerPlace, OneHandler
<1>4. /\ \A i \in 1..Len(cbq') : cbq'[i].for = Root(c)
      /\ \A i \in 1..Len(len_cbq') : len_cbq'[i].for = Root(c)
  BY <1>2
<1>5. len_cbq' = <<>> /\ Len(len_cbq') <= 1
      /\ Len(cbq') + Len(dlv'[c]) + Len(chan'[c]) <= 1
  BY <1>2
<1> QED
  BY <1>1, <1>2, <1>4, <1>5, <1>6 DEF TokenInv

LEMMA TokenInit ==
    ASSUME NEW c \in Crawlers, SystemInit
    PROVE  TokenInv(c)
<1>1. /\ cr[c].pc = "new" /\ out[c] = {} /\ dlv[c] = <<>> /\ chan[c] = <<>>
  BY DEF SystemInit, CrawlInit, Volatile
<1>2. /\ \A s \in Slots : hnd[s].pc = "idle"
      /\ cbq = <<>> /\ len_cbq = <<>> /\ svc = "up"
  BY DEF SystemInit, Init, Idle, Handling
<1> QED
  BY <1>1, <1>2 DEF TokenInv, OneHandler, HandlerPlace, NoMail

LEMMA TokenTypes ==
    ASSUME SystemTypeOK, NEW c \in Crawlers
    PROVE  /\ hnd \in [Slots -> Handler]
           /\ cbq \in Seq(Reply) /\ len_cbq \in Seq(LenMsg)
           /\ dlv \in [Crawlers -> Seq(Reply)] /\ chan \in [Crawlers -> Seq(Reply)]
           /\ cr \in [Crawlers -> [pc : CrawlPcs, url : Urls]]
           /\ out \in [Crawlers -> SUBSET Urls]
           /\ ring \in Seq(Crawlers) /\ len_ring \in Seq(Crawlers)
           /\ Len(cbq) \in Nat /\ Len(len_cbq) \in Nat
           /\ Len(dlv[c]) \in Nat /\ Len(chan[c]) \in Nat
BY DEF SystemTypeOK, TypeOK, CrawlTypeOK

LEMMA TokenHandler ==
    ASSUME SystemTypeOK, SystemTypeOK', NEW c \in Crawlers, TokenInv(c),
           NEW s \in Slots, DatabaseStep(s)
    PROVE  TokenInv(c)'
<1>0. HandlerStep(s) /\ hnd[s].pc # "idle" /\ HandlerPlace(c, s) /\ TypeOK
  BY DEF DatabaseStep, HandlerStep, FindQueue, CreateQueue, ReloadQueue,
         CheckVisited, InsertUrl, FinishEnqueue, SelectQueue, SelectInProgress,
         SelectPending, UpdateInProgress, CountRows, SqlError, DequeuePcs,
         Publish, SetNodeToVisited, DeleteVisited, RemoveQueue, CountNodes,
         TokenInv, SystemTypeOK
<1>1. CASE Throw
  <2>1. LoseVolatile
    BY <1>1 DEF DatabaseStep, Throw, Stop
  <2> QED
    BY <1>1, <2>1, TokenReset DEF Throw, Stop
<1>2. CASE ~Throw
  <2>1. svc' = svc /\ \A t \in Slots \ {s} : hnd'[t] = hnd[t]
    BY <1>0, <1>2, OnlyOwnSlot
  <2>2. svc = "up" /\ UNCHANGED crawling
    BY <1>0, <2>1 DEF HandlerPlace, DatabaseStep
  <2>3. \A t \in Slots \ {s} : hnd'[t].pc = "idle"
    BY <1>0, <2>1 DEF TokenInv, OneHandler
  <2>4. OneHandler'
    BY <2>3 DEF OneHandler
  <2>5. UNCHANGED <<cr, out, dlv, chan>>
    BY <2>2 DEF crawling
  <2>6. CASE /\ hnd[s].pc \in OwingPcs \ {"count_nodes", "publish"}
             /\ hnd'[s].pc \in OwingPcs \ {"count_nodes"}
             /\ SameRequest(s) /\ UNCHANGED replies
    <3>1. HandlerPlace(c, s)'
      BY <1>0, <2>1, <2>5, <2>6
      DEF HandlerPlace, SameRequest, replies, NoMail, Finishing, OwingPcs,
          DequeuePcs
    <3> QED
      BY <1>0, <2>1, <2>2, <2>3, <2>4, <2>5, <2>6, <3>1
      DEF TokenInv, HandlerPlace, replies, NoMail
  <2>7. CASE /\ hnd[s].pc = "publish" /\ Finishing(s)' /\ SameRequest(s)
             /\ cbq' = Append(cbq, [url |-> hnd[s].url, for |-> hnd[s].root])
             /\ len_cbq' = len_cbq
    <3>1. /\ hnd[s].root = Root(c) /\ NoMail(c) /\ out[c] = {}
          /\ cr[c].pc \in {"index", "receive"} /\ svc = "up"
          /\ hnd[s].kind # "getlen" /\ hnd[s].kind # "enqueue_empty"
      BY <1>0, <2>7 DEF HandlerPlace, OwingPcs, DequeuePcs
    <3>2. cbq' = <<[url |-> hnd[s].url, for |-> Root(c)]>>
      BY <2>7, <3>1 DEF NoMail
    <3>3. Len(cbq') = 1 /\ cbq'[1].for = Root(c)
      BY <3>2
    <3>4. len_cbq = <<>>
      BY <1>0 DEF TokenInv
    <3>5. HandlerPlace(c, s)'
      BY <2>1, <2>5, <2>7, <3>1
      DEF HandlerPlace, SameRequest, Finishing, OwingPcs, DequeuePcs
    <3>6. Len(cbq') + Len(dlv'[c]) + Len(chan'[c]) <= 1
      BY <2>5, <3>1, <3>3 DEF NoMail
    <3>7. \A i \in 1..Len(cbq') : cbq'[i].for = Root(c)
      BY <3>3
    <3>8. \A t \in Slots : HandlerPlace(c, t)'
      BY <2>3, <3>5 DEF HandlerPlace
    <3> QED
      BY <2>1, <2>2, <2>4, <2>5, <2>7, <3>1, <3>4, <3>6, <3>7, <3>8 DEF TokenInv
  <2>8. CASE /\ Finishing(s) /\ UNCHANGED replies
             /\ \/ hnd'[s].pc = "idle"
                \/ Finishing(s)' /\ SameRequest(s)
    <3>1. HandlerPlace(c, s)'
      BY <1>0, <2>1, <2>5, <2>8
      DEF HandlerPlace, SameRequest, replies, NoMail, Finishing, OwingPcs,
          DequeuePcs
    <3> QED
      BY <1>0, <2>1, <2>2, <2>3, <2>4, <2>5, <2>8, <3>1
      DEF TokenInv, HandlerPlace, replies, NoMail
  <2>9. CASE /\ hnd[s].pc = "count_nodes" /\ hnd'[s].pc = "idle"
             /\ cbq' = cbq
             /\ \E b \in BOOLEAN :
                   len_cbq' = Append(len_cbq, [empty |-> b, for |-> hnd[s].root])
    <3>1. /\ len_cbq = <<>> /\ hnd[s].root = Root(c)
          /\ cr[c].pc \in {"consume_len", "await_len"}
      BY <1>0, <2>9 DEF HandlerPlace
    <3>2. PICK b \in BOOLEAN : len_cbq' = <<[empty |-> b, for |-> Root(c)]>>
      BY <2>9, <3>1
    <3>3. Len(len_cbq') = 1 /\ len_cbq'[1].for = Root(c)
      BY <3>2
    <3>4. \A t \in Slots : hnd'[t].pc = "idle"
      BY <2>3, <2>9
    <3>5. (\A t \in Slots : HandlerPlace(c, t))'
      BY <3>4 DEF HandlerPlace
    <3>6. \A i \in 1..Len(len_cbq') : len_cbq'[i].for = Root(c)
      BY <3>3
    <3>7. NoMail(c)' = NoMail(c)
      BY <2>5, <2>9 DEF NoMail
    <3>8. /\ \A i \in 1..Len(cbq') : cbq'[i].for = Root(c)
          /\ Len(cbq') + Len(dlv'[c]) + Len(chan'[c]) <= 1
          /\ NoMail(c)' /\ out'[c] = {} /\ svc' = "up" /\ cr' = cr
      BY <1>0, <2>1, <2>2, <2>5, <2>9, <3>1, <3>7 DEF TokenInv, HandlerPlace
    <3>9. Len(len_cbq') <= 1 /\ cr'[c].pc \in {"consume_len", "await_len"}
      BY <3>1, <3>3, <3>8
    <3> QED
      BY <2>4, <3>4, <3>5, <3>6, <3>8, <3>9, Zenon DEF TokenInv
  <2> QED
    BY <1>0, <1>2, <2>6, <2>7, <2>8, <2>9, HandlerEffect DEF HandlerPlace
<1> QED
  BY <1>1, <1>2

\* A request of a crawler that has nothing else under way.
LEMMA TokenRequest ==
    ASSUME SystemTypeOK, NEW c \in Crawlers, TokenInv(c), NEW s \in Slots,
           \A t \in Slots : hnd[t].pc = "idle",
           NoMail(c), len_cbq = <<>>, svc = "up", out'[c] = {},
           UNCHANGED <<replies, svc, dlv, chan>>,
           \A t \in Slots \ {s} : hnd'[t] = hnd[t],
           hnd'[s].root = Root(c),
           \/ /\ hnd'[s].pc = "count_nodes" /\ hnd'[s].kind = "getlen"
              /\ cr'[c].pc = "consume_len"
           \/ /\ hnd'[s].pc \in {"find_queue", "dq_queue"}
              /\ hnd'[s].kind \in {"enqueue", "dequeue"}
              /\ cr'[c].pc \in {"index", "receive"}
    PROVE  TokenInv(c)'
<1>1. /\ NoMail(c)' /\ len_cbq' = <<>> /\ cbq' = <<>> /\ svc' = "up"
      /\ dlv'[c] = <<>> /\ chan'[c] = <<>>
  BY DEF NoMail, replies
<1>2. \A t \in Slots \ {s} : hnd'[t].pc = "idle"
  OBVIOUS
<1>3. OneHandler'
  BY <1>2 DEF OneHandler
<1>4. HandlerPlace(c, s)'
  BY <1>1 DEF HandlerPlace, OwingPcs, DequeuePcs, Finishing
<1>5. \A t \in Slots : HandlerPlace(c, t)'
  BY <1>2, <1>4 DEF HandlerPlace
<1>6. /\ Len(cbq') = 0 /\ Len(len_cbq') = 0
      /\ Len(dlv'[c]) = 0 /\ Len(chan'[c]) = 0
  BY <1>1
<1>7. /\ Len(cbq') + Len(dlv'[c]) + Len(chan'[c]) <= 1
      /\ Len(len_cbq') <= 1
      /\ \A i \in 1..Len(cbq') : cbq'[i].for = Root(c)
      /\ \A i \in 1..Len(len_cbq') : len_cbq'[i].for = Root(c)
  BY <1>6
<1> QED
  BY <1>1, <1>3, <1>5, <1>7 DEF TokenInv

\* The reply on its way to the loop.
LEMMA TokenMoves ==
    ASSUME SystemTypeOK, NEW c \in Crawlers, TokenInv(c), ~NoMail(c),
           UNCHANGED <<hnd, len_cbq, svc, out>>,
           \/ cr'[c] = cr[c]
           \/ NoMail(c)' /\ cr'[c].pc \in {"done", "navigate"},
           \A i \in 1..Len(cbq') : cbq'[i].for = Root(c),
           Len(cbq') + Len(dlv'[c]) + Len(chan'[c]) <= 1
    PROVE  TokenInv(c)'
<1>1. /\ cr[c].pc \in {"index", "receive"} /\ out[c] = {} /\ len_cbq = <<>>
      /\ svc = "up"
  BY DEF TokenInv
<1>2. \A s \in Slots : hnd[s].pc # "idle" => Finishing(s)
  <2> SUFFICES ASSUME NEW s \in Slots, hnd[s].pc # "idle" PROVE Finishing(s)
    OBVIOUS
  <2>1. HandlerPlace(c, s)
    BY DEF TokenInv
  <2>2. hnd[s].pc \notin OwingPcs
    BY <1>1, <2>1 DEF HandlerPlace
  <2> QED
    BY <2>2 DEF Finishing, Handler, SystemTypeOK, TypeOK
<1>3. \A s \in Slots : HandlerPlace(c, s)'
  <2> SUFFICES ASSUME NEW s \in Slots, hnd[s].pc # "idle"
               PROVE  HandlerPlace(c, s)'
    BY DEF HandlerPlace
  <2>1. HandlerPlace(c, s) /\ Finishing(s)
    BY <1>2 DEF TokenInv
  <2> QED
    BY <1>1, <2>1 DEF HandlerPlace, Finishing, OwingPcs, DequeuePcs
<1>4. OneHandler'
  BY DEF TokenInv, OneHandler
<1> QED
  BY <1>1, <1>3, <1>4 DEF TokenInv

\* What happens between the requests.
LEMMA TokenGoesOn ==
    ASSUME SystemTypeOK, NEW c \in Crawlers, TokenInv(c),
           UNCHANGED <<hnd, replies, svc, dlv, chan>>,
           \/ /\ out' = out
              /\ <<cr[c].pc, cr'[c].pc>> \in
                    {<<"consume_len", "await_len">>, <<"navigate", "extract">>,
                     <<"navigate", "stopped">>, <<"index", "receive">>}
           \/ /\ cr[c].pc = "extract" /\ cr'[c].pc = "index"
              /\ \A s \in Slots : hnd[s].pc = "idle"
    PROVE  TokenInv(c)'
<1>1. NoMail(c)' = NoMail(c)
  BY DEF NoMail, replies
<1>2. OneHandler'
  BY DEF TokenInv, OneHandler
<1>3. \A s \in Slots : HandlerPlace(c, s)'
  <2> SUFFICES ASSUME NEW s \in Slots, hnd[s].pc # "idle"
               PROVE  HandlerPlace(c, s)'
    BY DEF HandlerPlace
  <2>1. HandlerPlace(c, s)
    BY DEF TokenInv
  <2> QED
    BY <1>1, <2>1 DEF HandlerPlace, Finishing, OwingPcs, DequeuePcs, replies
<1> QED
  BY <1>1, <1>2, <1>3 DEF TokenInv, replies

\* What is left when the only element of a sequence is taken.
LEMMA LastTaken ==
    ASSUME NEW S, NEW q \in Seq(S), q # <<>>, Len(q) <= 1
    PROVE  /\ Len(q) = 1 /\ Len(Tail(q)) = 0 /\ Tail(q) = <<>>
           /\ Head(q) \in S /\ Head(q) = q[1]
<1>1. Len(q) \in Nat \ {0}
  BY EmptySeq
<1>2. Len(q) = 1
  BY <1>1
<1>3. Tail(q) \in Seq(S) /\ Len(Tail(q)) = 0 /\ Head(q) \in S
  BY <1>2, HeadTailProperties
<1>4. Tail(q) = <<>>
  BY <1>3, EmptySeq
<1> QED
  BY <1>2, <1>3, <1>4

LEMMA TokenLen ==
    ASSUME SystemTypeOK, NEW c \in Crawlers, Crawlers = {c}, TokenInv(c),
           DeliverLen
    PROVE  TokenInv(c)'
<1>0. /\ len_cbq \in Seq(LenMsg) /\ len_ring \in Seq(Crawlers)
      /\ cr \in [Crawlers -> [pc : CrawlPcs, url : Urls]]
  BY TokenTypes
<1>1. /\ len_cbq # <<>> /\ len_cbq' = Tail(len_cbq) /\ len_ring # <<>>
      /\ UNCHANGED <<hnd, cbq, svc, out, dlv, chan>>
  BY DEF DeliverLen, TakeLen
<1>2. /\ \A s \in Slots : hnd[s].pc = "idle"
      /\ cr[c].pc \in {"consume_len", "await_len"} /\ Len(len_cbq) <= 1
  BY <1>1 DEF TokenInv
<1>3. len_cbq' = <<>> /\ Len(len_cbq') = 0
  BY <1>0, <1>1, <1>2, LastTaken
<1>4. Head(len_ring) = c
  BY <1>0, <1>1
<1>5. cr'[c].pc \in {"consume_len", "navigate", "force_dequeue"}
  BY <1>0, <1>2, <1>4 DEF DeliverLen
<1>6. NoMail(c) /\ out[c] = {} /\ svc = "up"
  BY <1>2 DEF TokenInv
<1>7. NoMail(c)' /\ out'[c] = {} /\ svc' = "up"
  BY <1>1, <1>6 DEF NoMail
<1>8. OneHandler' /\ \A s \in Slots : HandlerPlace(c, s)'
  BY <1>1, <1>2 DEF OneHandler, HandlerPlace
<1>9. /\ Len(cbq') + Len(dlv'[c]) + Len(chan'[c]) <= 1
      /\ \A i \in 1..Len(cbq') : cbq'[i].for = Root(c)
  BY <1>1 DEF TokenInv
<1>10. /\ Len(len_cbq') <= 1
       /\ \A i \in 1..Len(len_cbq') : len_cbq'[i].for = Root(c)
  BY <1>3
<1> QED
  BY <1>3, <1>7, <1>8, <1>9, <1>10 DEF TokenInv

\* A reply goes from the queue to the listener, to the channel, to the loop.
LEMMA TokenReply ==
    ASSUME SystemTypeOK, NEW c \in Crawlers, Crawlers = {c}, TokenInv(c),
           DeliverReply \/ Forward(c) \/ Receive(c)
    PROVE  TokenInv(c)'
<1>0. /\ cbq \in Seq(Reply) /\ ring \in Seq(Crawlers)
      /\ dlv \in [Crawlers -> Seq(Reply)] /\ chan \in [Crawlers -> Seq(Reply)]
      /\ cr \in [Crawlers -> [pc : CrawlPcs, url : Urls]]
      /\ Len(cbq) \in Nat /\ Len(dlv[c]) \in Nat /\ Len(chan[c]) \in Nat
      /\ dlv[c] \in Seq(Reply) /\ chan[c] \in Seq(Reply)
  BY TokenTypes
<1>1. /\ Len(cbq) + Len(dlv[c]) + Len(chan[c]) <= 1
      /\ \A i \in 1..Len(cbq) : cbq[i].for = Root(c)
  BY DEF TokenInv
<1>2. CASE DeliverReply
  <2>1. /\ cbq # <<>> /\ ring # <<>> /\ cbq' = Tail(cbq)
        /\ dlv' = [dlv EXCEPT ![Head(ring)] = Append(@, Head(cbq))]
        /\ UNCHANGED <<hnd, len_cbq, svc, out, cr, chan>>
    BY <1>2 DEF DeliverReply, TakeReply
  <2>2. Head(ring) = c
    BY <1>0, <2>1
  <2>3. /\ Len(cbq) = 1 /\ Len(dlv[c]) = 0 /\ Len(chan[c]) = 0
        /\ Len(cbq') = 0 /\ Head(cbq) \in Reply
    <3>1. Len(cbq) <= 1 /\ Len(cbq) # 0
      BY <1>0, <1>1, <2>1, EmptySeq
    <3> QED
      BY <1>0, <1>1, <2>1, <3>1, LastTaken
  <2>4. dlv'[c] = Append(dlv[c], Head(cbq)) /\ chan'[c] = chan[c]
    BY <1>0, <2>1, <2>2
  <2>5. Len(dlv'[c]) = 1 /\ Len(chan'[c]) = 0
    BY <1>0, <2>3, <2>4
  <2>6. ~NoMail(c)
    BY <2>1 DEF NoMail
  <2>7. /\ Len(cbq') + Len(dlv'[c]) + Len(chan'[c]) <= 1
        /\ \A i \in 1..Len(cbq') : cbq'[i].for = Root(c)
    BY <2>3, <2>5
  <2> QED
    BY <2>1, <2>6, <2>7, TokenMoves
<1>3. CASE Forward(c)
  <2>1. /\ dlv[c] # <<>> /\ chan' = [chan EXCEPT ![c] = <<Head(dlv[c])>>]
        /\ dlv' = [dlv EXCEPT ![c] = Tail(@)]
        /\ UNCHANGED <<hnd, cbq, len_cbq, svc, out, cr>>
    BY <1>3 DEF Forward, frontier, vars, replies
  <2>2. Len(dlv[c]) <= 1 /\ Len(dlv[c]) # 0
    BY <1>0, <1>1, <2>1, EmptySeq
  <2>4. Len(cbq) = 0 /\ Len(dlv[c]) = 1 /\ Len(Tail(dlv[c])) = 0
    BY <1>0, <1>1, <2>1, <2>2, LastTaken
  <2>5. dlv'[c] = Tail(dlv[c]) /\ chan'[c] = <<Head(dlv[c])>>
    BY <1>0, <2>1
  <2>3. Len(cbq') = 0 /\ Len(dlv'[c]) = 0 /\ Len(chan'[c]) = 1
    BY <2>1, <2>4, <2>5
  <2>6. ~NoMail(c)
    BY <2>1 DEF NoMail
  <2>7. /\ Len(cbq') + Len(dlv'[c]) + Len(chan'[c]) <= 1
        /\ \A i \in 1..Len(cbq') : cbq'[i].for = Root(c)
    BY <2>3
  <2> QED
    BY <2>1, <2>6, <2>7, TokenMoves
<1>4. CASE Receive(c)
  <2>1. /\ chan[c] # <<>> /\ chan' = [chan EXCEPT ![c] = <<>>]
        /\ UNCHANGED <<hnd, cbq, len_cbq, svc, out, dlv>>
    BY <1>4 DEF Receive, frontier, vars, replies
  <2>2. Len(cbq) = 0 /\ Len(dlv[c]) = 0 /\ cbq = <<>> /\ dlv[c] = <<>>
    <3>1. Len(chan[c]) # 0
      BY <1>0, <2>1, EmptySeq
    <3>2. Len(cbq) = 0 /\ Len(dlv[c]) = 0
      BY <1>0, <1>1, <3>1
    <3> QED
      BY <1>0, <3>2, EmptySeq
  <2>3. chan'[c] = <<>> /\ Len(chan'[c]) = 0
    BY <1>0, <2>1
  <2>4. cr'[c].pc \in {"done", "navigate"}
    BY <1>0, <1>4 DEF Receive
  <2>5. NoMail(c)' /\ ~NoMail(c)
    BY <2>1, <2>2, <2>3 DEF NoMail
  <2>7. /\ Len(cbq') + Len(dlv'[c]) + Len(chan'[c]) <= 1
        /\ \A i \in 1..Len(cbq') : cbq'[i].for = Root(c)
    BY <2>1, <2>2, <2>3
  <2> QED
    BY <2>1, <2>4, <2>5, <2>7, TokenMoves
<1> QED
  BY <1>2, <1>3, <1>4

\* A crawler asks only when nothing it asked for is in progress.
LEMMA AsksInSilence ==
    ASSUME SystemTypeOK, NEW c \in Crawlers, TokenInv(c),
           Start(c) \/ ForceDequeue(c) \/ PublishLinks(c)
    PROVE  /\ \A t \in Slots : hnd[t].pc = "idle"
           /\ NoMail(c) /\ len_cbq = <<>>
           /\ \/ cr[c].pc \in {"new", "force_dequeue"} /\ out[c] = {}
              \/ cr[c].pc \in {"index", "receive"} /\ out[c] # {}
<1>0. hnd \in [Slots -> Handler]
  BY TokenTypes
<1>1. \/ cr[c].pc \in {"new", "force_dequeue"} /\ out[c] = {}
      \/ cr[c].pc \in {"index", "receive"} /\ out[c] # {}
  BY DEF Start, ForceDequeue, PublishLinks, TokenInv
<1>2. \A t \in Slots : hnd[t].pc = "idle"
  <2> SUFFICES ASSUME NEW t \in Slots, hnd[t].pc # "idle" PROVE FALSE
    OBVIOUS
  <2>2. hnd[t].pc \in OwingPcs \/ Finishing(t)
    BY <1>0 DEF Handler, Finishing
  <2>3. HandlerPlace(c, t)
    BY DEF TokenInv
  <2> QED
    BY <1>1, <2>2, <2>3 DEF HandlerPlace
<1>3. NoMail(c) /\ len_cbq = <<>>
  BY <1>1 DEF TokenInv
<1> QED
  BY <1>1, <1>2, <1>3

LEMMA TokenAsks ==
    ASSUME SystemTypeOK, NEW c \in Crawlers, TokenInv(c),
           Start(c) \/ ForceDequeue(c) \/ PublishLinks(c)
    PROVE  TokenInv(c)'
<1>0. /\ hnd \in [Slots -> Handler]
      /\ cr \in [Crawlers -> [pc : CrawlPcs, url : Urls]]
      /\ out \in [Crawlers -> SUBSET Urls]
      /\ Root(c) \in Hosts
  BY TokenTypes, CrawlAssumption, StoreAssumption DEF Root
<1>1. /\ \A t \in Slots : hnd[t].pc = "idle"
      /\ NoMail(c) /\ len_cbq = <<>>
      /\ \/ cr[c].pc \in {"new", "force_dequeue"} /\ out[c] = {}
         \/ cr[c].pc \in {"index", "receive"} /\ out[c] # {}
  BY AsksInSilence
<1>4. PICK s \in Slots :
         \/ Start(c) /\ GetLen(s, Root(c))
         \/ ForceDequeue(c) /\ Dequeue(s, Root(c))
         \/ PublishLinks(c) /\ Enqueue(s, Root(c), out[c])
  BY DEF Start, ForceDequeue, PublishLinks
<1>5. /\ UNCHANGED <<replies, svc>> /\ svc = "up"
      /\ \A t \in Slots \ {s} : hnd'[t] = hnd[t]
      /\ hnd'[s].root = Root(c)
  <2>1. \/ GetLen(s, Root(c)) \/ Dequeue(s, Root(c))
        \/ Enqueue(s, Root(c), out[c])
    BY <1>4
  <2>2. svc = "up"
    BY <2>1 DEF GetLen, Dequeue, Enqueue, Request
  <2> QED
    BY <1>0, <2>1, <2>2, RequestEffect DEF SystemTypeOK
<1>6. /\ UNCHANGED <<dlv, chan>> /\ out'[c] = {}
  BY <1>0, <1>1, <1>4 DEF Start, ForceDequeue, PublishLinks
<1>7. \/ /\ hnd'[s].pc = "count_nodes" /\ hnd'[s].kind = "getlen"
         /\ cr'[c].pc = "consume_len"
      \/ /\ hnd'[s].pc \in {"find_queue", "dq_queue"}
         /\ hnd'[s].kind \in {"enqueue", "dequeue"}
         /\ cr'[c].pc \in {"index", "receive"}
  BY <1>0, <1>1, <1>4
  DEF Start, ForceDequeue, PublishLinks, GetLen, Dequeue, Enqueue, Request,
      Handling
<1> QED
  BY <1>1, <1>5, <1>6, <1>7, TokenRequest

LEMMA TokenStep ==
    ASSUME SystemTypeOK, SystemTypeOK', NEW c \in Crawlers, Crawlers = {c},
           TokenInv(c), [SystemNext]_sysvars
    PROVE  TokenInv(c)'
<1>1. CASE UNCHANGED <<hnd, replies, svc, dlv, chan, out, cr>>
  BY <1>1 DEF TokenInv, OneHandler, HandlerPlace, NoMail, Finishing, replies
<1>2. CASE LoseVolatile /\ \E how : Stop(how)
  BY <1>2, TokenReset DEF Stop
<1>3. ASSUME NEW s \in Slots, DatabaseStep(s) PROVE TokenInv(c)'
  BY <1>3, TokenHandler
<1>4. ASSUME NEW p \in SaveSlots, IndexingStep(p) PROVE TokenInv(c)'
  <2>1. CASE SaveStep(p) /\ UNCHANGED <<frontier, crawling>>
    BY <1>1, <2>1 DEF frontier, vars, crawling
  <2>2. CASE Throw /\ LoseVolatile
    BY <1>2, <2>2 DEF Throw
  <2> QED
    BY <1>4, <2>1, <2>2 DEF IndexingStep
<1>5. CASE DeliverReply \/ Forward(c) \/ Receive(c)
  BY <1>5, TokenReply
<1>6. CASE DeliverLen
  BY <1>6, TokenLen
<1>7. CASE Start(c) \/ ForceDequeue(c) \/ PublishLinks(c)
  BY <1>7, TokenAsks
<1>8. CASE ConsumeLen(c) \/ Navigate(c) \/ NavigateFails(c) \/ IndexPage(c)
  <2>1. cr \in [Crawlers -> [pc : CrawlPcs, url : Urls]]
    BY TokenTypes
  <2>2. UNCHANGED <<hnd, replies, svc, dlv, chan, out>>
    BY <1>8
    DEF ConsumeLen, Navigate, NavigateFails, IndexPage, frontier, vars
  <2>3. <<cr[c].pc, cr'[c].pc>> \in
           {<<"consume_len", "await_len">>, <<"navigate", "extract">>,
            <<"navigate", "stopped">>, <<"index", "receive">>}
    BY <1>8, <2>1 DEF ConsumeLen, Navigate, NavigateFails, IndexPage
  <2> QED
    BY <2>2, <2>3, TokenGoesOn
<1>9. CASE ExtractLinks(c)
  <2>1. cr \in [Crawlers -> [pc : CrawlPcs, url : Urls]]
    BY TokenTypes
  <2>2. UNCHANGED <<hnd, replies, svc, dlv, chan>>
    BY <1>9 DEF ExtractLinks, frontier, vars
  <2>3. cr[c].pc = "extract" /\ cr'[c].pc = "index"
    BY <1>9, <2>1 DEF ExtractLinks
  <2>4. \A s \in Slots : hnd[s].pc = "idle"
    BY <1>9 DEF ExtractLinks, Settled, Active, TokenInv, HandlerPlace
  <2> QED
    BY <2>2, <2>3, <2>4, TokenGoesOn
<1>10. CASE Panic(c) \/ SystemCrash
  BY <1>2, <1>10 DEF Panic, Throw, SystemCrash, Crash
<1>11. CASE SystemRestart
  <2>1. UNCHANGED <<hnd, replies, dlv, chan, out, cr>> /\ svc # "up"
    BY <1>11 DEF SystemRestart, Restart, crawling
  <2>2. \A s \in Slots : hnd[s].pc = "idle"
    BY <2>1 DEF TokenInv, HandlerPlace
  <2>3. OneHandler' /\ \A s \in Slots : HandlerPlace(c, s)'
    BY <2>1, <2>2 DEF OneHandler, HandlerPlace
  <2>4. svc' = "up"
    BY <1>11 DEF SystemRestart, Restart
  <2> QED
    BY <2>1, <2>3, <2>4 DEF TokenInv, NoMail, replies
<1>12. CASE Listen(c) \/ Finished \/ (\E j \in Jobs : Admit(j))
            \/ UNCHANGED sysvars
  BY <1>1, <1>12
  DEF Listen, Finished, Admit, sysvars, frontier, vars, crawling
<1> QED
  BY <1>3, <1>4, <1>5, <1>6, <1>7, <1>8, <1>9, <1>10, <1>11, <1>12
  DEF SystemNext, CrawlerStep, LoopStep

LEMMA AnswersAre ==
    ASSUME SystemTypeOK, NEW c \in Crawlers, TokenInv(c)
    PROVE  Cardinality(Answers(Root(c))) = Len(cbq)
<1>0. Len(cbq) \in Nat /\ Len(dlv[c]) \in Nat /\ Len(chan[c]) \in Nat
  BY TokenTypes
<1>1. Answers(Root(c)) = 1..Len(cbq)
  BY DEF Answers, TokenInv
<1>5. \A k, m, n \in Nat : k + m + n <= 1 => k \in {0, 1}
  OBVIOUS
<1>2. Len(cbq) \in {0, 1}
  BY <1>0, <1>5 DEF TokenInv
<1>3. CASE Len(cbq) = 0
  <2>1. Answers(Root(c)) = {}
    BY <1>1, <1>3
  <2> QED
    BY <1>3, <2>1, FS_EmptySet
<1>4. CASE Len(cbq) = 1
  <2>1. Answers(Root(c)) = {1}
    BY <1>1, <1>4
  <2> QED
    BY <1>4, <2>1, FS_Singleton
<1> QED
  BY <1>2, <1>3, <1>4

LEMMA AtMostOneToken ==
    ASSUME SystemTypeOK, NEW c \in Crawlers, TokenInv(c)
    PROVE  Tokens(c) <= 1
<1> DEFINE mail == Cardinality(Answers(Root(c))) + Len(dlv[c]) + Len(chan[c])
           links == IF out[c] # {} THEN 1 ELSE 0
           page == IF cr[c].pc \in {"force_dequeue", "navigate", "extract"}
                     THEN 1 ELSE 0
<1>1. Tokens(c) = Cardinality(Asking(Root(c))) + mail + links + page
  <2>1. /\ Cardinality(Answers(Root(c))) \in Nat
        /\ Len(dlv[c]) \in Nat /\ Len(chan[c]) \in Nat
    BY AnswersAre, TokenTypes
  <2>2. Cardinality(Asking(Root(c))) \in {0, 1}
    <3>1. CASE Asking(Root(c)) = {}
      BY <3>1, FS_EmptySet
    <3>2. ASSUME NEW s \in Asking(Root(c)) PROVE Asking(Root(c)) = {s}
      BY DEF Asking, Owing, Active, TokenInv, OneHandler
    <3> QED
      BY <3>1, <3>2, FS_Singleton
  <2>3. \A a, b, d, e, x, y \in Nat :
           a + b + d + e + x + y = a + (b + d + e) + x + y
    OBVIOUS
  <2>4. links \in Nat /\ page \in Nat
    OBVIOUS
  <2>5. Tokens(c) = Cardinality(Asking(Root(c))) + Cardinality(Answers(Root(c)))
                    + Len(dlv[c]) + Len(chan[c]) + links + page
    BY DEF Tokens
  <2> HIDE DEF links, page
  <2> QED
    BY <2>1, <2>2, <2>3, <2>4, <2>5
<1>2. mail \in Nat /\ mail <= 1
  <2>1. mail = Len(cbq) + Len(dlv[c]) + Len(chan[c])
    BY AnswersAre
  <2>2. /\ Len(cbq) \in Nat /\ Len(dlv[c]) \in Nat /\ Len(chan[c]) \in Nat
        /\ Len(cbq) + Len(dlv[c]) + Len(chan[c]) <= 1
    BY TokenTypes DEF TokenInv
  <2>3. \A k, m, n \in Nat : k + m + n \in Nat
    OBVIOUS
  <2> HIDE DEF mail
  <2> QED
    BY <2>1, <2>2, <2>3
<1>3. NoMail(c) => mail = 0
  BY AnswersAre, TokenTypes DEF NoMail
<1>4. CASE Asking(Root(c)) = {}
  <2>1. Cardinality(Asking(Root(c))) = 0
    BY <1>4, FS_EmptySet
  <2>2. NoMail(c) => links + page <= 1
    BY DEF TokenInv
  <2>3. ~NoMail(c) => links = 0 /\ page = 0
    BY DEF TokenInv
  <2> QED
    BY <1>1, <1>2, <1>3, <2>1, <2>2, <2>3
<1>5. CASE Asking(Root(c)) # {}
  <2>1. PICK s \in Asking(Root(c)) : TRUE
    BY <1>5
  <2>2. Asking(Root(c)) = {s}
    BY DEF Asking, Owing, Active, TokenInv, OneHandler
  <2>3. Cardinality(Asking(Root(c))) = 1
    BY <2>2, FS_Singleton
  <2>4. HandlerPlace(c, s) /\ hnd[s].pc # "idle" /\ hnd[s].kind # "getlen"
        /\ hnd[s].pc \in OwingPcs
    BY DEF Asking, Owing, Active, TokenInv
  <2>5. NoMail(c) /\ links = 0 /\ page = 0
    BY <2>4 DEF HandlerPlace
  <2> QED
    BY <1>1, <1>2, <1>3, <2>3, <2>5
<1> QED
  BY <1>4, <1>5

LEMMA TokenAlways ==
    ASSUME NEW c \in Crawlers, Crawlers = {c}
    PROVE  SystemSpec => []TokenInv(c)
<1>1. SystemInit => TokenInv(c)
  BY TokenInit
<1>2. SystemTypeOK /\ SystemTypeOK' /\ TokenInv(c) /\ [SystemNext]_sysvars
      => TokenInv(c)'
  BY TokenStep
<1> QED
  BY <1>1, <1>2, SystemTypeCorrect, PTL DEF SystemSpec

\* A single crawler never has two requests, replies or pages in progress,
\* whatever fails: statements, the connection pool, pages or the whole system.
THEOREM OneTokenAtATime ==
    ASSUME NEW c \in Crawlers, Crawlers = {c}
    PROVE  SystemSpec => []OneToken
<1>1. SystemTypeOK /\ TokenInv(c) => OneToken
  BY AtMostOneToken DEF OneToken
<1> QED
  BY <1>1, TokenAlways, SystemTypeCorrect, PTL

----------------------------------------------------------------------------
(* One crawler deals with urls of its own site only *)

LEMMA SeedIsOwn == ASSUME NEW c \in Crawlers PROVE Seed[c] \in UrlsOf(Root(c))
BY CrawlAssumption DEF UrlsOf, Root

LEMMA HostReset ==
    ASSUME NEW c \in Crawlers, LoseVolatile, cbq' = <<>>
    PROVE  HostInv(c)'
<1>1. /\ cr'[c].url = Seed[c] /\ Len(cbq') = 0
      /\ Len(dlv'[c]) = 0 /\ Len(chan'[c]) = 0
  BY DEF LoseVolatile, Volatile
<1>2. OwnMail(c, cbq)' /\ OwnMail(c, dlv[c])' /\ OwnMail(c, chan[c])'
  BY <1>1 DEF OwnMail
<1> QED
  BY <1>1, <1>2, SeedIsOwn DEF HostInv

LEMMA HostHandler ==
    ASSUME SystemTypeOK, FreeInv, NEW c \in Crawlers, TokenInv(c), HostInv(c),
           NEW s \in Slots, DatabaseStep(s)
    PROVE  HostInv(c)'
<1>0. HandlerStep(s) /\ hnd[s].pc # "idle" /\ HandlerPlace(c, s) /\ TypeOK
  BY DEF DatabaseStep, HandlerStep, FindQueue, CreateQueue, ReloadQueue,
         CheckVisited, InsertUrl, FinishEnqueue, SelectQueue, SelectInProgress,
         SelectPending, UpdateInProgress, CountRows, SqlError, DequeuePcs,
         Publish, SetNodeToVisited, DeleteVisited, RemoveQueue, CountNodes,
         TokenInv, SystemTypeOK
<1>1. CASE Throw
  <2>1. LoseVolatile /\ cbq' = <<>>
    BY <1>1 DEF DatabaseStep, Throw, Stop
  <2> QED
    BY <2>1, HostReset
<1>2. CASE ~Throw
  <2>1. UNCHANGED crawling
    BY <1>0, <1>2, OnlyOwnSlot DEF HandlerPlace, DatabaseStep
  <2>2. UNCHANGED <<cr, dlv, chan>>
    BY <2>1 DEF crawling
  <2>3. \/ cbq' = cbq
        \/ /\ hnd[s].pc = "publish"
           /\ cbq' = Append(cbq, [url |-> hnd[s].url, for |-> hnd[s].root])
    BY <1>0, <1>2, HandlerEffect DEF HandlerPlace, replies
  <2>4. hnd[s].pc = "publish" => hnd[s].url \in UrlsOf(Root(c)) \cup {End}
    BY <1>0 DEF FreeInv, OwnUrl, HandlerPlace
  <2>5. cbq \in Seq(Reply) /\ Len(cbq) \in Nat
    BY TokenTypes
  <2>6. OwnMail(c, cbq)'
    <3>1. CASE cbq' = cbq
      BY <3>1 DEF HostInv, OwnMail
    <3>2. CASE /\ hnd[s].pc = "publish"
               /\ cbq' = Append(cbq, [url |-> hnd[s].url, for |-> hnd[s].root])
      <4> DEFINE m == [url |-> hnd[s].url, for |-> hnd[s].root]
      <4>1. m.url \in UrlsOf(Root(c)) \cup {End}
        BY <2>4, <3>2
      <4>2. cbq' = Append(cbq, m)
        BY <3>2
      <4> HIDE DEF m
      <4>3. /\ Len(cbq') = Len(cbq) + 1
            /\ \A i \in 1..Len(cbq) : cbq'[i] = cbq[i]
            /\ cbq'[Len(cbq) + 1] = m
        BY <2>5, <4>2
      <4>4. \A i \in 1..Len(cbq') : i \in 1..Len(cbq) \/ i = Len(cbq) + 1
        BY <2>5, <4>3
      <4> QED
        BY <4>1, <4>3, <4>4 DEF HostInv, OwnMail
    <3> QED
      BY <2>3, <3>1, <3>2
  <2>7. OwnMail(c, dlv[c])' /\ OwnMail(c, chan[c])'
    BY <2>2 DEF HostInv, OwnMail
  <2>8. cr'[c].url \in UrlsOf(Root(c))
    BY <2>2 DEF HostInv
  <2> QED
    BY <2>6, <2>7, <2>8 DEF HostInv
<1> QED
  BY <1>1, <1>2

LEMMA HostReply ==
    ASSUME SystemTypeOK, NEW c \in Crawlers, Crawlers = {c}, HostInv(c),
           DeliverReply \/ Forward(c) \/ Receive(c)
    PROVE  HostInv(c)'
<1>0. /\ cbq \in Seq(Reply) /\ ring \in Seq(Crawlers)
      /\ dlv \in [Crawlers -> Seq(Reply)] /\ chan \in [Crawlers -> Seq(Reply)]
      /\ cr \in [Crawlers -> [pc : CrawlPcs, url : Urls]]
      /\ dlv[c] \in Seq(Reply) /\ chan[c] \in Seq(Reply)
      /\ Len(dlv[c]) \in Nat
  BY TokenTypes
<1>1. ASSUME NEW q \in Seq(Reply), q # <<>>, OwnMail(c, q)
      PROVE  /\ OwnMail(c, Tail(q))
             /\ Head(q).url \in UrlsOf(Root(c)) \cup {End}
  <2>1. Len(q) \in Nat \ {0}
    BY <1>1, EmptySeq
  <2> QED
    BY <1>1, <2>1, HeadTailProperties DEF OwnMail
<1>2. CASE DeliverReply
  <2>1. /\ cbq # <<>> /\ ring # <<>> /\ cbq' = Tail(cbq)
        /\ dlv' = [dlv EXCEPT ![Head(ring)] = Append(@, Head(cbq))]
        /\ UNCHANGED <<cr, chan>>
    BY <1>2 DEF DeliverReply, TakeReply
  <2>2. dlv'[c] = Append(dlv[c], Head(cbq))
    BY <1>0, <2>1
  <2>3. Head(cbq) \in Reply /\ Head(cbq).url \in UrlsOf(Root(c)) \cup {End}
    BY <1>0, <1>1, <2>1, HeadTailProperties DEF HostInv
  <2>4. OwnMail(c, dlv[c])'
    BY <1>0, <2>2, <2>3 DEF HostInv, OwnMail
  <2>5. OwnMail(c, cbq)'
    BY <1>0, <1>1, <2>1 DEF HostInv, OwnMail
  <2> QED
    BY <2>1, <2>4, <2>5 DEF HostInv, OwnMail
<1>3. CASE Forward(c)
  <2>1. /\ dlv[c] # <<>> /\ chan' = [chan EXCEPT ![c] = <<Head(dlv[c])>>]
        /\ dlv' = [dlv EXCEPT ![c] = Tail(@)]
        /\ UNCHANGED <<cbq, cr>>
    BY <1>3 DEF Forward, frontier, vars, replies
  <2>2. chan'[c] = <<Head(dlv[c])>> /\ dlv'[c] = Tail(dlv[c])
    BY <1>0, <2>1
  <2>3. /\ OwnMail(c, Tail(dlv[c]))
        /\ Head(dlv[c]).url \in UrlsOf(Root(c)) \cup {End}
    BY <1>0, <1>1, <2>1 DEF HostInv
  <2>4. OwnMail(c, dlv[c])'
    BY <2>2, <2>3 DEF OwnMail
  <2>5. Len(chan'[c]) = 1 /\ chan'[c][1] = Head(dlv[c])
    BY <2>2
  <2>6. OwnMail(c, chan[c])'
    BY <2>3, <2>5 DEF OwnMail
  <2> QED
    BY <2>1, <2>4, <2>6 DEF HostInv, OwnMail
<1>4. CASE Receive(c)
  <2>1. /\ chan[c] # <<>> /\ chan' = [chan EXCEPT ![c] = <<>>]
        /\ UNCHANGED <<cbq, dlv>>
    BY <1>4 DEF Receive, frontier, vars, replies
  <2>2. Head(chan[c]).url \in UrlsOf(Root(c)) \cup {End}
    BY <1>0, <1>1, <2>1 DEF HostInv
  <2>3. cr'[c].url \in UrlsOf(Root(c))
    BY <1>0, <1>4, <2>2 DEF Receive, HostInv
  <2>4. Len(chan'[c]) = 0
    BY <1>0, <2>1
  <2>5. OwnMail(c, chan[c])'
    BY <2>4 DEF OwnMail
  <2> QED
    BY <2>1, <2>3, <2>5 DEF HostInv, OwnMail
<1> QED
  BY <1>2, <1>3, <1>4

LEMMA HostStep ==
    ASSUME SystemTypeOK, FreeInv, NEW c \in Crawlers, Crawlers = {c},
           TokenInv(c), HostInv(c), [SystemNext]_sysvars
    PROVE  HostInv(c)'
<1>0. cr \in [Crawlers -> [pc : CrawlPcs, url : Urls]]
  BY TokenTypes
<1>1. CASE UNCHANGED <<cbq, dlv, chan>> /\ cr'[c].url \in UrlsOf(Root(c))
  BY <1>1 DEF HostInv, OwnMail
<1>2. CASE LoseVolatile /\ \E how : Stop(how)
  BY <1>2, HostReset DEF Stop
<1>3. ASSUME NEW s \in Slots, DatabaseStep(s) PROVE HostInv(c)'
  BY <1>3, HostHandler
<1>4. ASSUME NEW p \in SaveSlots, IndexingStep(p) PROVE HostInv(c)'
  BY <1>1, <1>2, <1>4
  DEF IndexingStep, Throw, frontier, vars, replies, crawling, HostInv
<1>5. CASE DeliverReply \/ Forward(c) \/ Receive(c)
  BY <1>5, HostReply
<1>6. CASE DeliverLen
  <2>1. UNCHANGED <<cbq, dlv, chan>>
    BY <1>6 DEF DeliverLen, TakeLen
  <2>2. cr'[c].url \in UrlsOf(Root(c))
    BY <1>0, <1>6, SeedIsOwn DEF DeliverLen, HostInv
  <2> QED
    BY <1>1, <2>1, <2>2
<1>7. CASE \/ Start(c) \/ ConsumeLen(c) \/ ForceDequeue(c) \/ Navigate(c)
           \/ ExtractLinks(c) \/ IndexPage(c) \/ PublishLinks(c)
           \/ NavigateFails(c)
  <2>1. cr'[c].url \in UrlsOf(Root(c))
    BY <1>0, <1>7
    DEF Start, ConsumeLen, ForceDequeue, Navigate, ExtractLinks, IndexPage,
        PublishLinks, NavigateFails, HostInv
  <2>2. UNCHANGED <<cbq, dlv, chan>>
    BY <1>7
    DEF Start, ConsumeLen, ForceDequeue, Navigate, ExtractLinks, IndexPage,
        PublishLinks, NavigateFails, frontier, vars, replies, GetLen, Dequeue,
        Enqueue, Request
  <2> QED
    BY <1>1, <2>1, <2>2
<1>8. CASE SystemRestart \/ Listen(c) \/ Finished
           \/ (\E j \in Jobs : Admit(j)) \/ UNCHANGED sysvars
  BY <1>1, <1>8
  DEF SystemRestart, Restart, Listen, Finished, Admit, sysvars, frontier, vars,
      replies, crawling, HostInv
<1>9. CASE SystemCrash \/ Panic(c)
  BY <1>2, <1>9 DEF SystemCrash, Crash, Panic, Throw
<1> QED
  BY <1>3, <1>4, <1>5, <1>6, <1>7, <1>8, <1>9
  DEF SystemNext, CrawlerStep, LoopStep

----------------------------------------------------------------------------
(* One crawler's pages are saved one at a time *)

LEMMA SavePart ==
    ASSUME SystemTypeOK, NEW c \in Crawlers, SaveInv(c), NEW p \in SaveSlots,
           SaveStep(p), UNCHANGED cr
    PROVE  SaveInv(c)'
<1> DEFINE seed == sav[p].msg.seed
           url  == sav[p].msg.url
<1>0. /\ sav \in [SaveSlots -> Saver] /\ webpages \in [Urls -> Urls \cup {NoPage}]
      /\ sav[p].pc # "idle"
  BY DEF SystemTypeOK, SaveTypeOK, SaveStep, SelectSite, SelectRoot, InsertPage,
         InsertSite, InsertFirst
<1>1. /\ SaverPlace(c, p)
      /\ \A q \in SaveSlots \ {p} : sav[q].pc = "idle"
      /\ \A u \in Urls : Stored(u) => HostOf[u] \in sites
  BY <1>0 DEF SaveInv
<1>2. seed = Root(c) /\ url \in UrlsOf(Root(c)) /\ cr[c].pc # "index"
  BY <1>0, <1>1 DEF SaverPlace
<1>3. ASSUME \A q \in SaveSlots \ {p} : sav'[q] = sav[q],
             sav'[p].pc # "idle" => sav'[p].msg = sav[p].msg,
             SaverPlace(c, p)',
             \A u \in Urls : Stored(u)' => HostOf[u] \in sites'
      PROVE  SaveInv(c)'
  <2>1. \A q \in SaveSlots \ {p} : sav'[q].pc = "idle"
    BY <1>1, <1>3
  <2>2. \A q \in SaveSlots : SaverPlace(c, q)'
    BY <1>3, <2>1 DEF SaverPlace
  <2> QED
    BY <1>3, <2>1, <2>2 DEF SaveInv
<1>4. CASE SelectSite(p)
  <2>1. PICK k \in BOOLEAN : k = (seed \in sites)
    <3>1. (seed \in sites) \in BOOLEAN
      BY SMT
    <3> QED
      BY <3>1, Zenon
  <2>2. sav' = [sav EXCEPT ![p] = [sav[p] EXCEPT !.known = k, !.pc = "select_queue"]]
    BY <1>4, <2>1 DEF SelectSite
  <2>3. /\ sav'[p].pc = "select_queue" /\ sav'[p].msg = sav[p].msg
        /\ sav'[p].known = k
    BY <1>0, <2>2 DEF Saver
  <2>4. UNCHANGED <<sites, webpages>>
    BY <1>4 DEF SelectSite
  <2>5. SaverPlace(c, p)'
    BY <1>2, <2>1, <2>3, <2>4 DEF SaverPlace
  <2> QED
    BY <1>0, <1>1, <1>3, <2>2, <2>3, <2>4, <2>5 DEF Stored
<1>5. CASE SelectRoot(p)
  <2>1. \/ sav' = [sav EXCEPT ![p] = NotSaving]
        \/ sav[p].known /\ sav' = [sav EXCEPT ![p] = [sav[p] EXCEPT !.pc = "insert_page"]]
        \/ ~sav[p].known /\ sav' = [sav EXCEPT ![p] = [sav[p] EXCEPT !.pc = "insert_site"]]
    BY <1>5 DEF SelectRoot
  <2>2. UNCHANGED <<sites, webpages>> /\ sav[p].pc = "select_queue"
    BY <1>5 DEF SelectRoot
  <2>3. \/ sav'[p].pc = "idle"
        \/ /\ sav'[p].msg = sav[p].msg
           /\ \/ sav[p].known /\ sav'[p].pc = "insert_page"
              \/ ~sav[p].known /\ sav'[p].pc = "insert_site"
    BY <1>0, <2>1 DEF Saver, NotSaving
  <2>4. SaverPlace(c, p)'
    BY <1>0, <1>1, <1>2, <2>2, <2>3 DEF SaverPlace
  <2>5. \A q \in SaveSlots \ {p} : sav'[q] = sav[q]
    BY <1>0, <2>1
  <2> QED
    BY <1>1, <1>3, <2>2, <2>3, <2>4, <2>5 DEF Stored
<1>6. CASE InsertSite(p)
  <2>1. /\ sav' = [sav EXCEPT ![p] = [sav[p] EXCEPT !.pc = "insert_first"]]
        /\ sites' = sites \cup {seed} /\ webpages' = webpages
        /\ seed \notin sites
    BY <1>6 DEF InsertSite
  <2>2. sav'[p].pc = "insert_first" /\ sav'[p].msg = sav[p].msg
    BY <1>0, <2>1 DEF Saver
  <2>3. \A u \in UrlsOf(seed) : ~Stored(u)
    BY <1>1, <2>1 DEF UrlsOf
  <2>4. SaverPlace(c, p)'
    BY <1>2, <2>1, <2>2, <2>3 DEF SaverPlace, Stored
  <2>5. \A q \in SaveSlots \ {p} : sav'[q] = sav[q]
    BY <1>0, <2>1
  <2> QED
    BY <1>1, <1>3, <2>1, <2>2, <2>4, <2>5 DEF Stored
<1>7. CASE InsertPage(p) \/ InsertFirst(p)
  <2>1. /\ sav' = [sav EXCEPT ![p] = NotSaving] /\ sites' = sites
        /\ \/ webpages' = webpages
           \/ webpages' = [webpages EXCEPT ![url] = sav[p].msg.from]
    BY <1>7 DEF InsertPage, InsertFirst, Insert
  <2>2. sav'[p].pc = "idle" /\ \A q \in SaveSlots \ {p} : sav'[q] = sav[q]
    BY <1>0, <2>1 DEF NotSaving
  <2>3. seed \in sites
    BY <1>1, <1>7 DEF InsertPage, InsertFirst, SaverPlace
  <2>4. \A u \in Urls : Stored(u)' => HostOf[u] \in sites'
    BY <1>0, <1>1, <1>2, <2>1, <2>3 DEF Stored, UrlsOf
  <2>5. SaverPlace(c, p)'
    BY <2>2 DEF SaverPlace
  <2> QED
    BY <1>3, <2>2, <2>4, <2>5
<1> QED
  BY <1>4, <1>5, <1>6, <1>7 DEF SaveStep

LEMMA SaveStepKeeps ==
    ASSUME SystemTypeOK, NEW c \in Crawlers, Crawlers = {c}, HostInv(c),
           SaveInv(c), [SystemNext]_sysvars
    PROVE  SaveInv(c)'
<1>0. cr \in [Crawlers -> [pc : CrawlPcs, url : Urls]]
  BY TokenTypes
<1>1. CASE UNCHANGED indexing /\ (cr'[c].pc = "index" => cr[c].pc = "index")
  BY <1>1 DEF indexing, SaveInv, SaverPlace, Stored
<1>2. CASE LoseVolatile
  <2>1. /\ \A p \in SaveSlots : sav'[p].pc = "idle"
        /\ UNCHANGED <<sites, webpages>>
    BY <1>2 DEF LoseVolatile, NotSaving
  <2> QED
    BY <2>1 DEF SaveInv, SaverPlace, Stored
<1>3. ASSUME NEW s \in Slots, DatabaseStep(s) PROVE SaveInv(c)'
  BY <1>1, <1>2, <1>3 DEF DatabaseStep, crawling
<1>4. ASSUME NEW p \in SaveSlots, IndexingStep(p) PROVE SaveInv(c)'
  BY <1>2, <1>4, SavePart DEF IndexingStep, crawling
<1>5. CASE DeliverLen
  <2>1. UNCHANGED indexing /\ (cr'[c].pc = "index" => cr[c].pc = "index")
    BY <1>0, <1>5 DEF DeliverLen
  <2> QED
    BY <1>1, <2>1
<1>6. CASE \/ Start(c) \/ ConsumeLen(c) \/ ForceDequeue(c) \/ Receive(c)
           \/ Navigate(c) \/ PublishLinks(c) \/ NavigateFails(c)
           \/ Listen(c) \/ Forward(c) \/ DeliverReply
  <2>1. UNCHANGED indexing /\ (cr'[c].pc = "index" => cr[c].pc = "index")
    BY <1>0, <1>6
    DEF Start, ConsumeLen, ForceDequeue, Receive, Navigate, PublishLinks,
        NavigateFails, Listen, Forward, DeliverReply
  <2> QED
    BY <1>1, <2>1
<1>7. CASE ExtractLinks(c)
  <2>1. UNCHANGED indexing /\ Saving(Root(c)) = {}
    BY <1>7 DEF ExtractLinks, Settled
  <2>2. \A p \in SaveSlots : sav[p].pc = "idle"
    BY <2>1 DEF Saving, SaveInv, SaverPlace
  <2> QED
    BY <2>1, <2>2 DEF indexing, SaveInv, SaverPlace, Stored
<1>8. CASE IndexPage(c)
  <2>1. PICK p \in SaveSlots :
           Save(p, [seed |-> Root(c), url |-> cr[c].url, from |-> wd[Job[c]]])
    BY <1>8 DEF IndexPage
  <2>2. sav' = [sav EXCEPT ![p] =
                  [pc |-> "select_site", known |-> FALSE,
                   msg |-> [seed |-> Root(c), url |-> cr[c].url,
                            from |-> wd[Job[c]]]]]
        /\ UNCHANGED <<sites, webpages>>
    BY <2>1 DEF Save
  <2>3. cr[c].pc = "index" /\ cr'[c].pc = "receive"
    BY <1>0, <1>8 DEF IndexPage
  <2>4. \A q \in SaveSlots : sav[q].pc = "idle"
    BY <2>3 DEF SaveInv, SaverPlace
  <2>5. \A q \in SaveSlots \ {p} : sav'[q].pc = "idle"
    BY <2>2, <2>4 DEF SystemTypeOK, SaveTypeOK
  <2>6. /\ sav'[p].pc = "select_site" /\ sav'[p].msg.seed = Root(c)
        /\ sav'[p].msg.url = cr[c].url
    BY <2>2 DEF SystemTypeOK, SaveTypeOK
  <2>7. SaverPlace(c, p)'
    BY <2>3, <2>6 DEF SaverPlace, HostInv
  <2>8. \A q \in SaveSlots : SaverPlace(c, q)'
    BY <2>5, <2>7 DEF SaverPlace
  <2> QED
    BY <2>2, <2>5, <2>8 DEF SaveInv, Stored
<1>9. CASE SystemRestart \/ Finished \/ (\E j \in Jobs : Admit(j))
           \/ UNCHANGED sysvars
  BY <1>1, <1>9 DEF SystemRestart, Finished, Admit, sysvars, crawling
<1>10. CASE SystemCrash \/ Panic(c)
  BY <1>2, <1>10 DEF SystemCrash, Panic
<1> QED
  BY <1>3, <1>4, <1>5, <1>6, <1>7, <1>8, <1>9, <1>10
  DEF SystemNext, CrawlerStep, LoopStep

----------------------------------------------------------------------------
(* One crawler has at most one queue for every start of the system, and    *)
(* each of its urls at most one row for every queue: the bounds of         *)
(* FrontierStore cut nothing off.                                          *)

Names(q, u) == \E i \in 1..Len(q) : q[i].url = u

Mailed(c, u) == Names(cbq, u) \/ Names(dlv[c], u) \/ Names(chan[c], u)

Ended(c) == cr[c].pc \in {"done", "past"} \/ Mailed(c, End)

QueueCounted(c) ==
    LET q == queues[Root(c)] IN
    /\ q.id <= restarts + 1
    /\ svc = "up" /\ ~q.live /\ ~Ended(c) => q.id <= restarts

RowCounted(u) ==
    LET q == queues[HostOf[u]] IN
    /\ nodes[u].id <= q.id
    /\ q.live /\ nodes[u].status = "none" /\ u \notin visited_nodes
          => nodes[u].id < q.id

Counted(c, s) ==
    /\ hnd[s].pc = "remove_queue" => Ended(c)
    /\ hnd[s].pc = "insert_node" => hnd[s].url \notin visited_nodes

CountInv(c) == /\ QueueCounted(c)
               /\ \A u \in Urls : RowCounted(u)
               /\ \A s \in Slots : Counted(c, s)

\* How a handler gets to where the invariants look back at what it did.
LEMMA ComesFrom ==
    ASSUME TypeOK, NEW s \in Slots, HandlerStep(s), ~Throw,
           hnd[s].kind # "enqueue_empty"
    PROVE  /\ hnd'[s].pc = "insert_node" =>
                 UNCHANGED tables /\ hnd'[s].url \notin visited_nodes
           /\ hnd'[s].pc = "remove_queue" =>
                 hnd[s].url = End /\ hnd[s].pc = "publish"
           /\ hnd'[s].pc \in {"set_visited", "delete_node"} =>
                 /\ hnd'[s].url = hnd[s].url
                 /\ hnd[s].pc \in {"publish", "set_visited"}
<1>0. hnd \in [Slots -> Handler]
  BY DEF TypeOK
<1>1. CASE CheckVisited(s)
  BY <1>0, <1>1 DEF CheckVisited, Handler
<1>2. CASE Publish(s)
  BY <1>0, <1>2 DEF Publish, Handler
<1>h. ASSUME NEW u, NEW pc \in {"dq_count", "dq_update"}, Hold(s, u, pc)
      PROVE  hnd'[s].pc \in {"dq_count", "dq_update"}
  BY <1>0, <1>h DEF Hold
<1>g. ASSUME NEW pc, Goto(s, pc) 
      PROVE  hnd'[s].pc = pc /\ hnd'[s].url = hnd[s].url
  BY <1>0, <1>g DEF Goto
<1>a. ASSUME Answer(s, End) PROVE hnd'[s].pc = "publish"
  BY <1>0, <1>a DEF Answer
<1>i. Idle.pc = "idle"
  BY DEF Idle, Handling
<1>3. CASE SelectInProgress(s) \/ SelectPending(s)
  <2>1. \/ \E u : Hold(s, u, "dq_count") \/ Hold(s, u, "dq_update")
        \/ Goto(s, "dq_pending") \/ Answer(s, End)
    BY <1>3 DEF SelectInProgress, SelectPending
  <2> QED
    BY <1>a, <1>g, <1>h, <2>1
<1>4. CASE FindQueue(s)
  BY <1>0, <1>4 DEF FindQueue
<1>5. CASE CreateQueue(s)
  <2>1. hnd'[s] = [hnd[s] EXCEPT !.pc = "reload_queue",
                                 !.q = queues[hnd[s].root].id + 1]
    BY <1>0, <1>5 DEF CreateQueue
  <2> QED
    BY <1>0, <2>1 DEF Handler
<1>6. CASE FinishEnqueue(s)
  BY <1>0, <1>6 DEF FinishEnqueue
<1>7. CASE SelectQueue(s)
  <2>1. CASE queues[hnd[s].root].live
    <3>1. hnd'[s] = [hnd[s] EXCEPT !.q = queues[hnd[s].root].id,
                                   !.pc = "dq_in_progress"]
      BY <1>0, <1>7, <2>1 DEF SelectQueue
    <3> QED
      BY <1>0, <3>1 DEF Handler
  <2>2. CASE ~queues[hnd[s].root].live
    BY <1>7, <1>a, <2>2 DEF SelectQueue
  <2> QED
    BY <2>1, <2>2
<1>8. CASE ReloadQueue(s) \/ InsertUrl(s)
  BY <1>8, <1>g DEF ReloadQueue, InsertUrl
<1>9. CASE UpdateInProgress(s) \/ CountRows(s) \/ SqlError(s)
  BY <1>9, <1>a, <1>g DEF UpdateInProgress, CountRows, SqlError
<1>10. CASE \/ SetNodeToVisited(s) \/ DeleteVisited(s) \/ RemoveQueue(s)
            \/ CountNodes(s)
  BY <1>0, <1>g, <1>i, <1>10
  DEF SetNodeToVisited, DeleteVisited, RemoveQueue, CountNodes
<1> QED
  BY <1>1, <1>2, <1>3, <1>4, <1>5, <1>6, <1>7, <1>8, <1>9, <1>10
  DEF HandlerStep

\* The tables of the host of u, when only those of another host change.
LEMMA RowFrame ==
    ASSUME NEW u \in Urls, RowCounted(u), queues'[HostOf[u]] = queues[HostOf[u]],
           nodes'[u].id = nodes[u].id,
           nodes'[u].status = "none" =>
              nodes[u].status = "none" \/ u \in visited_nodes',
           u \in visited_nodes => u \in visited_nodes'
    PROVE  RowCounted(u)'
BY DEF RowCounted

LEMMA RowsHandler ==
    ASSUME FreeInv, NEW c \in Crawlers, CountInv(c), NEW s \in Slots,
           HandlerStep(s), ~Throw, hnd[s].pc # "idle"
    PROVE  \A u \in Urls : RowCounted(u)'
<1> DEFINE h == hnd[s].root
           v == hnd[s].url
<1>0. /\ queues \in [Hosts -> QueueRow] /\ nodes \in [Urls -> NodeRow]
      /\ visited_nodes \subseteq Urls /\ hnd[s] \in Handler
      /\ HostOf \in [Urls -> Hosts] /\ h \in Hosts
  BY StoreAssumption DEF FreeInv, TypeOK, StoreTypeOK, Handler
<1>1. (\A u \in Urls : RowCounted(u)) /\ Counted(c, s) /\ OwnUrl(s) /\ RowRecorded(s)
  BY DEF CountInv, FreeInv
<1>2. CASE UNCHANGED tables
  BY <1>1, <1>2 DEF tables, RowCounted
<1>3. CASE CreateQueue(s)
  <2>1. queues' = [queues EXCEPT ![h] = [live |-> TRUE, id |-> @.id + 1]]
        /\ UNCHANGED <<nodes, visited_nodes>>
    BY <1>3 DEF CreateQueue, InsertQueue
  <2>2. SUFFICES ASSUME NEW u \in Urls PROVE RowCounted(u)'
    OBVIOUS
  <2>3. CASE HostOf[u] = h
    <3>1. queues'[HostOf[u]].id = queues[HostOf[u]].id + 1
      BY <1>0, <2>1, <2>3
    <3>2. nodes[u].id <= queues[HostOf[u]].id
      BY <1>1 DEF RowCounted
    <3>3. nodes[u].id \in Nat /\ queues[HostOf[u]].id \in Nat
      BY <1>0 DEF NodeRow, QueueRow
    <3>4. nodes'[u].id < queues'[HostOf[u]].id
      BY <2>1, <3>1, <3>2, <3>3
    <3> QED
      BY <2>1, <3>1, <3>2, <3>3, <3>4 DEF RowCounted
  <2>4. CASE HostOf[u] # h
    BY <1>0, <1>1, <2>1, <2>4 DEF RowCounted
  <2> QED
    BY <2>3, <2>4
<1>4. CASE /\ hnd[s].pc = "insert_node" /\ InsertNode(v)
           /\ nodes[v].status = "none" /\ QueueExists(h, hnd[s].q)
  <2>1. /\ nodes' = [nodes EXCEPT ![v] = [status |-> "pending", id |-> @.id + 1]]
        /\ UNCHANGED <<queues, visited_nodes>>
    BY <1>4 DEF InsertNode
  <2>2. v \in UrlsOf(h) /\ v \notin visited_nodes
    BY <1>1, <1>4 DEF OwnUrl, Counted
  <2>3. v \in Urls /\ HostOf[v] = h
    BY <2>2 DEF UrlsOf
  <2>4. nodes[v].status = "none" /\ queues[h].live
    BY <1>4 DEF QueueExists
  <2>5. nodes[v].id < queues[h].id
    BY <1>1, <2>2, <2>3, <2>4 DEF RowCounted
  <2>6. nodes'[v].status = "pending" /\ nodes'[v].id = nodes[v].id + 1
    BY <1>0, <2>1, <2>3
  <2>7. SUFFICES ASSUME NEW u \in Urls PROVE RowCounted(u)'
    OBVIOUS
  <2>8. CASE u = v
    <3>1. nodes'[u].status = "pending" /\ nodes'[u].id <= queues'[HostOf[u]].id
      BY <1>0, <2>1, <2>3, <2>5, <2>6, <2>8 DEF NodeRow, QueueRow
    <3> QED
      BY <3>1 DEF RowCounted
  <2>9. CASE u # v
    BY <1>0, <1>1, <2>1, <2>9 DEF RowCounted
  <2> QED
    BY <2>8, <2>9
<1>5. CASE UpdateInProgress(s)
  <2>1. /\ UNCHANGED <<queues, visited_nodes>>
        /\ \/ nodes' = nodes
           \/ /\ nodes[v].status # "none"
              /\ nodes' = [nodes EXCEPT ![v].status = "in_progress"]
    BY <1>5 DEF UpdateInProgress, SetInProgress
  <2>2. SUFFICES ASSUME NEW u \in Urls PROVE RowCounted(u)'
    OBVIOUS
  <2>3. /\ nodes'[u].id = nodes[u].id
        /\ nodes'[u].status = "none" => nodes[u].status = "none"
    BY <1>0, <2>1 DEF NodeRow
  <2> QED
    BY <1>1, <2>1, <2>3, RowFrame
<1>6. CASE SetNodeToVisited(s) \/ DeleteVisited(s)
  <2>1. /\ queues' = queues
        /\ \/ nodes' = nodes
           \/ /\ nodes' = [nodes EXCEPT ![v].status = "none"]
              /\ v \in visited_nodes' \/ nodes[v].status = "none"
        /\ visited_nodes \subseteq visited_nodes'
    BY <1>1, <1>6
    DEF SetNodeToVisited, DeleteVisited, SetVisited, RecordVisited, DeleteNode,
        RowRecorded
  <2>2. SUFFICES ASSUME NEW u \in Urls PROVE RowCounted(u)'
    OBVIOUS
  <2>3. /\ nodes'[u].id = nodes[u].id
        /\ nodes'[u].status = "none" =>
              nodes[u].status = "none" \/ u \in visited_nodes'
    BY <1>0, <2>1 DEF NodeRow
  <2> QED
    BY <1>1, <2>1, <2>3, RowFrame
<1>7. CASE RemoveQueue(s)
  <2>1. /\ queues' = [queues EXCEPT ![h].live = FALSE]
        /\ nodes' = [u \in Urls |-> IF HostOf[u] = h
                                      THEN [nodes[u] EXCEPT !.status = "none"]
                                      ELSE nodes[u]]
        /\ visited_nodes' = visited_nodes \ UrlsOf(h)
    BY <1>7 DEF RemoveQueue, DeleteQueue
  <2>2. SUFFICES ASSUME NEW u \in Urls PROVE RowCounted(u)'
    OBVIOUS
  <2>3. CASE HostOf[u] = h
    <3>1. /\ ~queues'[h].live /\ queues'[h].id = queues[h].id
          /\ nodes'[u].id = nodes[u].id
      BY <1>0, <2>1, <2>3 DEF QueueRow, NodeRow
    <3> QED
      BY <1>1, <2>3, <3>1 DEF RowCounted
  <2>4. CASE HostOf[u] # h
    BY <1>0, <1>1, <2>1, <2>4 DEF RowCounted, UrlsOf
  <2> QED
    BY <2>3, <2>4
<1>8. CASE \/ FindQueue(s) \/ ReloadQueue(s) \/ CheckVisited(s)
           \/ FinishEnqueue(s) \/ SelectQueue(s) \/ SelectInProgress(s)
           \/ SelectPending(s) \/ CountRows(s) \/ SqlError(s) \/ Publish(s)
           \/ CountNodes(s)
  BY <1>2, <1>8
  DEF FindQueue, ReloadQueue, CheckVisited, FinishEnqueue, SelectQueue,
      SelectInProgress, SelectPending, CountRows, SqlError, Publish, CountNodes
<1>9. InsertUrl(s) =>
         \/ UNCHANGED tables
         \/ /\ hnd[s].pc = "insert_node" /\ InsertNode(v)
            /\ nodes[v].status = "none" /\ QueueExists(h, hnd[s].q)
  BY DEF InsertUrl
<1> QED
  BY <1>2, <1>3, <1>4, <1>5, <1>6, <1>7, <1>8, <1>9 DEF HandlerStep

LEMMA NamesOf ==
    ASSUME NEW u
    PROVE  /\ ~Names(<<>>, u)
           /\ \A m \in Reply : Names(<<m>>, u) <=> m.url = u
           /\ \A q \in Seq(Reply) : \A m :
                 Names(Append(q, m), u) <=> Names(q, u) \/ m.url = u
           /\ \A q \in Seq(Reply) : q # <<>> /\ Names(q, u) =>
                 Names(Tail(q), u) \/ Head(q).url = u
           /\ \A q \in Seq(Reply) :
                 q # <<>> /\ (Names(Tail(q), u) \/ Head(q).url = u) =>
                    Names(q, u)
<1>1. ~Names(<<>>, u)
  BY DEF Names
<1>2. ASSUME NEW m \in Reply PROVE Names(<<m>>, u) <=> m.url = u
  <2>1. Len(<<m>>) = 1 /\ <<m>>[1] = m
    OBVIOUS
  <2> QED
    BY <2>1 DEF Names
<1>3. ASSUME NEW q \in Seq(Reply), NEW m
      PROVE  Names(Append(q, m), u) <=> Names(q, u) \/ m.url = u
  <2>1. /\ Len(q) \in Nat /\ Len(Append(q, m)) = Len(q) + 1
        /\ Append(q, m)[Len(q) + 1] = m
        /\ \A i \in 1..Len(q) : Append(q, m)[i] = q[i]
    OBVIOUS
  <2> QED
    BY <2>1 DEF Names
<1>4. ASSUME NEW q \in Seq(Reply), q # <<>>, Names(q, u)
      PROVE  Names(Tail(q), u) \/ Head(q).url = u
  <2>1. Len(q) \in Nat \ {0} /\ Head(q) = q[1]
    BY <1>4, EmptySeq
  <2>2. PICK i \in 1..Len(q) : q[i].url = u
    BY <1>4 DEF Names
  <2>3. CASE i = 1
    BY <2>1, <2>2, <2>3
  <2>4. CASE i # 1
    <3>1. i - 1 \in 1..Len(Tail(q)) /\ Tail(q)[i - 1] = q[i]
      BY <1>4, <2>1, <2>4, HeadTailProperties
    <3> QED
      BY <2>2, <3>1 DEF Names
  <2> QED
    BY <2>3, <2>4
<1>5. ASSUME NEW q \in Seq(Reply), q # <<>>,
             Names(Tail(q), u) \/ Head(q).url = u
      PROVE  Names(q, u)
  <2>1. Len(q) \in Nat \ {0} /\ Head(q) = q[1]
    BY <1>5, EmptySeq
  <2>2. CASE Head(q).url = u
    BY <2>1, <2>2 DEF Names
  <2>3. CASE Names(Tail(q), u)
    <3>1. PICK i \in 1..Len(Tail(q)) : Tail(q)[i].url = u
      BY <2>3 DEF Names
    <3>2. i + 1 \in 1..Len(q) /\ Tail(q)[i] = q[i + 1]
      BY <1>5, <2>1, <3>1, HeadTailProperties
    <3> QED
      BY <3>1, <3>2 DEF Names
  <2> QED
    BY <1>5, <2>2, <2>3
<1> QED
  BY <1>1, <1>2, <1>3, <1>4, <1>5

\* What is on its way to the crawler stays so until the loop receives it.
LEMMA MailKept ==
    ASSUME SystemTypeOK, NEW c \in Crawlers, Crawlers = {c},
           DeliverReply \/ Forward(c), NEW u, Mailed(c, u)
    PROVE  Mailed(c, u)'
<1>0. /\ cbq \in Seq(Reply) /\ ring \in Seq(Crawlers)
      /\ dlv \in [Crawlers -> Seq(Reply)] /\ chan \in [Crawlers -> Seq(Reply)]
      /\ dlv[c] \in Seq(Reply) /\ chan[c] \in Seq(Reply)
  BY TokenTypes
<1>n. /\ ~Names(<<>>, u)
      /\ \A m \in Reply : Names(<<m>>, u) <=> m.url = u
      /\ \A q \in Seq(Reply) : \A m :
            Names(Append(q, m), u) <=> Names(q, u) \/ m.url = u
      /\ \A q \in Seq(Reply) : q # <<>> /\ Names(q, u) =>
            Names(Tail(q), u) \/ Head(q).url = u
  BY NamesOf
<1>1. CASE DeliverReply
  <2>1. /\ cbq # <<>> /\ ring # <<>> /\ cbq' = Tail(cbq)
        /\ dlv' = [dlv EXCEPT ![Head(ring)] = Append(@, Head(cbq))]
        /\ UNCHANGED chan
    BY <1>1 DEF DeliverReply, TakeReply
  <2>2. dlv'[c] = Append(dlv[c], Head(cbq))
    BY <1>0, <2>1
  <2>5. Names(cbq, u) => Names(Tail(cbq), u) \/ Head(cbq).url = u
    BY <1>0, <1>n, <2>1
  <2>6. Names(Append(dlv[c], Head(cbq)), u)
          <=> Names(dlv[c], u) \/ Head(cbq).url = u
    BY <1>0, <1>n
  <2>3. Names(cbq, u) => Names(cbq', u) \/ Names(dlv'[c], u)
    BY <2>1, <2>2, <2>5, <2>6
  <2>4. Names(dlv[c], u) => Names(dlv'[c], u)
    BY <2>2, <2>6
  <2> QED
    BY <2>1, <2>3, <2>4 DEF Mailed
<1>2. CASE Forward(c)
  <2>1. /\ dlv[c] # <<>> /\ chan[c] = <<>>
        /\ chan' = [chan EXCEPT ![c] = <<Head(dlv[c])>>]
        /\ dlv' = [dlv EXCEPT ![c] = Tail(@)]
        /\ UNCHANGED cbq
    BY <1>2 DEF Forward, frontier, vars, replies
  <2>2. chan'[c] = <<Head(dlv[c])>> /\ dlv'[c] = Tail(dlv[c])
    BY <1>0, <2>1
  <2>3. Head(dlv[c]) \in Reply
    BY <1>0, <2>1, HeadTailProperties
  <2>4. Names(dlv[c], u) => Names(dlv'[c], u) \/ Names(chan'[c], u)
    BY <1>0, <1>n, <2>1, <2>2, <2>3
  <2>5. ~Names(chan[c], u)
    BY <1>n, <2>1
  <2> QED
    BY <2>1, <2>4, <2>5 DEF Mailed
<1> QED
  BY <1>1, <1>2

LEMMA MailCame ==
    ASSUME SystemTypeOK, NEW c \in Crawlers, Crawlers = {c},
           DeliverReply \/ Forward(c) \/ Receive(c), NEW u, Mailed(c, u)'
    PROVE  Mailed(c, u)
<1>0. /\ cbq \in Seq(Reply) /\ ring \in Seq(Crawlers)
      /\ dlv \in [Crawlers -> Seq(Reply)] /\ chan \in [Crawlers -> Seq(Reply)]
      /\ dlv[c] \in Seq(Reply) /\ chan[c] \in Seq(Reply)
  BY TokenTypes
<1>n. /\ ~Names(<<>>, u)
      /\ \A m \in Reply : Names(<<m>>, u) <=> m.url = u
      /\ \A q \in Seq(Reply) : \A m :
            Names(Append(q, m), u) <=> Names(q, u) \/ m.url = u
      /\ \A q \in Seq(Reply) :
            q # <<>> /\ (Names(Tail(q), u) \/ Head(q).url = u) => Names(q, u)
  BY NamesOf
<1>1. CASE DeliverReply
  <2>1. /\ cbq # <<>> /\ ring # <<>> /\ cbq' = Tail(cbq)
        /\ dlv' = [dlv EXCEPT ![Head(ring)] = Append(@, Head(cbq))]
        /\ UNCHANGED chan
    BY <1>1 DEF DeliverReply, TakeReply
  <2>2. dlv'[c] = Append(dlv[c], Head(cbq))
    BY <1>0, <2>1
  <2>3. Names(Tail(cbq), u) \/ Head(cbq).url = u => Names(cbq, u)
    BY <1>0, <1>n, <2>1
  <2>4. Names(Append(dlv[c], Head(cbq)), u)
          <=> Names(dlv[c], u) \/ Head(cbq).url = u
    BY <1>0, <1>n
  <2> QED
    BY <2>1, <2>2, <2>3, <2>4 DEF Mailed
<1>2. CASE Forward(c)
  <2>1. /\ dlv[c] # <<>> /\ chan' = [chan EXCEPT ![c] = <<Head(dlv[c])>>]
        /\ dlv' = [dlv EXCEPT ![c] = Tail(@)]
        /\ UNCHANGED cbq
    BY <1>2 DEF Forward, frontier, vars, replies
  <2>2. chan'[c] = <<Head(dlv[c])>> /\ dlv'[c] = Tail(dlv[c])
    BY <1>0, <2>1
  <2>3. Head(dlv[c]) \in Reply
    BY <1>0, <2>1, HeadTailProperties
  <2>4. Names(<<Head(dlv[c])>>, u) <=> Head(dlv[c]).url = u
    BY <1>n, <2>3
  <2>5. Names(Tail(dlv[c]), u) \/ Head(dlv[c]).url = u => Names(dlv[c], u)
    BY <1>0, <1>n, <2>1
  <2> QED
    BY <2>1, <2>2, <2>4, <2>5 DEF Mailed
<1>3. CASE Receive(c)
  <2>1. chan'[c] = <<>> /\ UNCHANGED <<cbq, dlv>>
    BY <1>0, <1>3 DEF Receive, frontier, vars, replies
  <2> QED
    BY <1>n, <2>1 DEF Mailed
<1> QED
  BY <1>1, <1>2, <1>3

\* Once the last answer is under way it stays so, or the crawl is over.
LEMMA StaysEnded ==
    ASSUME SystemTypeOK, NEW c \in Crawlers, UNCHANGED <<cr, dlv, chan>>,
           NEW m, cbq' = cbq \/ cbq' = Append(cbq, m)
    PROVE  /\ Ended(c) => Ended(c)'
           /\ cbq' = Append(cbq, m) /\ m.url = End => Ended(c)'
<1>0. cbq \in Seq(Reply)
  BY TokenTypes
<1>1. /\ Names(cbq, End) => Names(cbq', End)
      /\ cbq' = Append(cbq, m) /\ m.url = End => Names(cbq', End)
  <2>1. \A q \in Seq(Reply) : \A x :
           Names(Append(q, x), End) <=> Names(q, End) \/ x.url = End
    BY NamesOf
  <2>2. Names(Append(cbq, m), End) <=> Names(cbq, End) \/ m.url = End
    BY <1>0, <2>1
  <2> QED
    BY <2>2
<1> QED
  BY <1>1 DEF Ended, Mailed

LEMMA SameRestarts ==
    ASSUME NEW s \in Slots, HandlerStep(s) PROVE restarts' = restarts
BY DEF HandlerStep, FindQueue, CreateQueue, ReloadQueue, CheckVisited,
       InsertUrl, FinishEnqueue, SelectQueue, SelectInProgress,
       SelectPending, UpdateInProgress, CountRows, SqlError, Publish,
       SetNodeToVisited, DeleteVisited, RemoveQueue, CountNodes, Quietly,
       Throw, Stop

LEMMA CountHandler ==
    ASSUME SystemTypeOK, FreeInv, NEW c \in Crawlers, TokenInv(c), CountInv(c),
           NEW s \in Slots, HandlerStep(s), ~Throw, UNCHANGED crawling
    PROVE  CountInv(c)'
<1>0. hnd[s].pc # "idle" /\ HandlerPlace(c, s) /\ TypeOK
  BY DEF HandlerStep, FindQueue, CreateQueue, ReloadQueue,
         CheckVisited, InsertUrl, FinishEnqueue, SelectQueue, SelectInProgress,
         SelectPending, UpdateInProgress, CountRows, SqlError, DequeuePcs,
         Publish, SetNodeToVisited, DeleteVisited, RemoveQueue, CountNodes,
         TokenInv, SystemTypeOK
<1>1. /\ svc' = svc /\ svc = "up" /\ \A t \in Slots \ {s} : hnd'[t] = hnd[t]
      /\ hnd[s].root = Root(c) /\ UNCHANGED <<cr, dlv, chan>>
  BY <1>0, OnlyOwnSlot DEF HandlerPlace, crawling
<1>2. restarts' = restarts /\ Root(c) \in Hosts
      /\ queues \in [Hosts -> QueueRow] /\ restarts \in Nat
  <2>1. restarts' = restarts
    BY SameRestarts
  <2>2. Root(c) \in Hosts /\ queues \in [Hosts -> QueueRow]
    BY CrawlAssumption, StoreAssumption
    DEF Root, SystemTypeOK, TypeOK, StoreTypeOK
  <2>3. restarts \in Nat
    BY ServiceAssumption DEF SystemTypeOK, TypeOK
  <2> QED
    BY <2>1, <2>2, <2>3
<1>3. \A t \in Slots \ {s} : hnd'[t].pc = "idle"
  BY <1>0, <1>1 DEF TokenInv, OneHandler
<1>m. PICK m : m = [url |-> hnd[s].url, for |-> hnd[s].root]
  OBVIOUS
<1>4. \/ cbq' = cbq /\ hnd[s].pc # "publish"
      \/ cbq' = Append(cbq, m) /\ hnd[s].pc = "publish"
  BY <1>0, <1>m, HandlerEffect
  DEF HandlerPlace, replies, Finishing
<1>5. /\ Ended(c) => Ended(c)'
      /\ hnd[s].pc = "publish" /\ hnd[s].url = End => Ended(c)'
  BY <1>1, <1>4, <1>m, StaysEnded
<1>6. Counted(c, s)'
  BY <1>0, <1>5, ComesFrom DEF HandlerPlace, Counted, tables
<1>7. \A t \in Slots : Counted(c, t)'
  BY <1>3, <1>6 DEF Counted
<1>8. QueueCounted(c)'
  <2>1. CASE queues' = queues
    BY <1>1, <1>2, <1>5, <2>1 DEF CountInv, QueueCounted
  <2>2. CASE CreateQueue(s)
    <3>1. /\ queues' = [queues EXCEPT ![Root(c)] = [live |-> TRUE, id |-> @.id + 1]]
          /\ ~queues[Root(c)].live /\ hnd[s].pc = "create_queue"
      BY <1>1, <2>2 DEF CreateQueue, InsertQueue
    <3>2. NoMail(c) /\ cr[c].pc \in {"index", "receive"}
      BY <1>0, <3>1 DEF HandlerPlace, OwingPcs, DequeuePcs
    <3>9. ~Names(<<>>, End)
      BY NamesOf
    <3>3. ~Ended(c)
      BY <3>2, <3>9 DEF Ended, Mailed, NoMail
    <3>4. queues[Root(c)].id <= restarts /\ queues[Root(c)].id \in Nat
      BY <1>1, <1>2, <3>1, <3>3 DEF CountInv, QueueCounted, QueueRow
    <3>5. queues'[Root(c)].live /\ queues'[Root(c)].id = queues[Root(c)].id + 1
      BY <1>2, <3>1
    <3> QED
      BY <1>2, <3>4, <3>5 DEF QueueCounted
  <2>3. CASE RemoveQueue(s)
    <3>1. queues' = [queues EXCEPT ![Root(c)].live = FALSE]
      BY <1>1, <2>3 DEF RemoveQueue, DeleteQueue
    <3>2. queues'[Root(c)].id = queues[Root(c)].id
      BY <1>2, <3>1 DEF QueueRow
    <3>3. Ended(c)'
      BY <1>5, <2>3 DEF RemoveQueue, CountInv, Counted
    <3> QED
      BY <1>2, <3>2, <3>3 DEF CountInv, QueueCounted
  <2>4. ~CreateQueue(s) /\ ~RemoveQueue(s) => queues' = queues
    BY DEF HandlerStep, FindQueue, ReloadQueue, CheckVisited,
           InsertUrl, FinishEnqueue, SelectQueue, SelectInProgress,
           SelectPending, UpdateInProgress, CountRows, SqlError, Publish,
           SetNodeToVisited, DeleteVisited, CountNodes, InsertNode,
           SetInProgress, SetVisited, RecordVisited, DeleteNode, tables
  <2> QED
    BY <2>1, <2>2, <2>3, <2>4
<1> QED
  BY <1>0, <1>7, <1>8, RowsHandler DEF CountInv

LEMMA CountReply ==
    ASSUME SystemTypeOK, NEW c \in Crawlers, Crawlers = {c}, TokenInv(c),
           DeliverReply \/ Forward(c) \/ Receive(c), Ended(c)
    PROVE  Ended(c)'
<1>1. CASE DeliverReply \/ Forward(c)
  <2>1. UNCHANGED cr
    BY <1>1 DEF DeliverReply, Forward
  <2> QED
    BY <1>1, <2>1, MailKept DEF Ended
<1>2. CASE Receive(c)
  <2>0. /\ chan \in [Crawlers -> Seq(Reply)] /\ chan[c] \in Seq(Reply)
        /\ cr \in [Crawlers -> [pc : CrawlPcs, url : Urls]]
        /\ Len(cbq) \in Nat /\ Len(dlv[c]) \in Nat /\ Len(chan[c]) \in Nat
    BY TokenTypes
  <2>1. chan[c] # <<>> /\ cr[c].pc = "receive" /\ UNCHANGED <<cbq, dlv>>
    BY <1>2 DEF Receive, frontier, vars, replies
  <2>2. Len(chan[c]) <= 1
    BY <2>0 DEF TokenInv
  <2>3. Tail(chan[c]) = <<>>
    BY <2>0, <2>1, <2>2, LastTaken
  <2>6. \A q \in Seq(Reply) : q # <<>> /\ Names(q, End) =>
           Names(Tail(q), End) \/ Head(q).url = End
    BY NamesOf
  <2>7. ~Names(<<>>, End)
    BY NamesOf
  <2>4. \/ Names(cbq, End) \/ Names(dlv[c], End) \/ Head(chan[c]).url = End
    BY <2>0, <2>1, <2>3, <2>6, <2>7 DEF Ended, Mailed
  <2>5. Head(chan[c]).url = End => cr'[c].pc = "done"
    BY <1>2, <2>0 DEF Receive
  <2> QED
    BY <2>1, <2>4, <2>5 DEF Ended, Mailed
<1> QED
  BY <1>1, <1>2

\* What the steps outside the database service leave as it is.
LEMMA CountFrame ==
    ASSUME NEW c \in Crawlers, CountInv(c), UNCHANGED <<tables, svc, restarts>>,
           Ended(c) => Ended(c)',
           \A s \in Slots : \/ hnd'[s] = hnd[s]
                            \/ hnd'[s].pc \notin {"insert_node", "remove_queue"}
    PROVE  CountInv(c)'
<1>1. UNCHANGED <<queues, nodes, visited_nodes>>
  BY DEF tables
<1>2. QueueCounted(c)' /\ \A u \in Urls : RowCounted(u)'
  BY <1>1 DEF CountInv, QueueCounted, RowCounted
<1>3. \A s \in Slots : Counted(c, s)'
  BY <1>1 DEF CountInv, Counted
<1> QED
  BY <1>2, <1>3 DEF CountInv

\* When the system stops or starts no request is being handled.
LEMMA CountReset ==
    ASSUME SystemTypeOK, NEW c \in Crawlers, CountInv(c), UNCHANGED tables,
           \A s \in Slots : hnd'[s].pc = "idle",
           \/ svc' # "up" /\ restarts' = restarts
           \/ restarts' = restarts + 1
    PROVE  CountInv(c)'
<1>1. UNCHANGED <<queues, nodes, visited_nodes>>
  BY DEF tables
<1>2. Root(c) \in Hosts /\ queues[Root(c)].id \in Nat /\ restarts \in Nat
  BY CrawlAssumption, StoreAssumption, ServiceAssumption
  DEF Root, SystemTypeOK, TypeOK, StoreTypeOK, QueueRow
<1>3. QueueCounted(c)'
  BY <1>1, <1>2 DEF CountInv, QueueCounted
<1>4. (\A u \in Urls : RowCounted(u)') /\ \A s \in Slots : Counted(c, s)'
  BY <1>1 DEF CountInv, RowCounted, Counted
<1> QED
  BY <1>3, <1>4 DEF CountInv

LEMMA CountStep ==
    ASSUME SystemTypeOK, FreeInv, NEW c \in Crawlers, Crawlers = {c},
           TokenInv(c), CountInv(c), [SystemNext]_sysvars
    PROVE  CountInv(c)'
<1>0. /\ cr \in [Crawlers -> [pc : CrawlPcs, url : Urls]]
      /\ hnd \in [Slots -> Handler] /\ Idle.pc = "idle"
  BY TokenTypes DEF SystemTypeOK, TypeOK, Idle, Handling
<1>1. CASE UNCHANGED <<tables, svc, restarts, hnd>> /\ (Ended(c) => Ended(c)')
  BY <1>1, CountFrame
<1>2. CASE UNCHANGED tables /\ (Stop("threw") \/ Stop("crashed"))
  BY <1>0, <1>2, CountReset DEF Stop
<1>3. ASSUME NEW s \in Slots, DatabaseStep(s) PROVE CountInv(c)'
  <2>1. CASE Throw
    BY <1>2, <2>1 DEF Throw
  <2>2. CASE ~Throw
    <3>1. HandlerStep(s) /\ hnd[s].pc # "idle" /\ HandlerPlace(c, s) /\ TypeOK
      BY <1>3
      DEF DatabaseStep, HandlerStep, FindQueue, CreateQueue, ReloadQueue,
          CheckVisited, InsertUrl, FinishEnqueue, SelectQueue, SelectInProgress,
          SelectPending, UpdateInProgress, CountRows, SqlError, DequeuePcs,
          Publish, SetNodeToVisited, DeleteVisited, RemoveQueue, CountNodes,
          TokenInv, SystemTypeOK
    <3>2. UNCHANGED crawling
      BY <1>3, <2>2, <3>1, OnlyOwnSlot DEF HandlerPlace, DatabaseStep
    <3> QED
      BY <2>2, <3>1, <3>2, CountHandler
  <2> QED
    BY <2>1, <2>2
<1>4. ASSUME NEW p \in SaveSlots, IndexingStep(p) PROVE CountInv(c)'
  <2>1. CASE UNCHANGED <<frontier, crawling>>
    BY <1>1, <2>1 DEF frontier, vars, replies, crawling, Ended, Mailed
  <2>2. CASE Throw
    BY <1>2, <2>2 DEF Throw
  <2> QED
    BY <1>4, <2>1, <2>2 DEF IndexingStep
<1>5. CASE DeliverReply \/ Forward(c) \/ Receive(c)
  <2>1. UNCHANGED <<tables, svc, restarts, hnd>>
    BY <1>5 DEF DeliverReply, TakeReply, Forward, Receive, frontier, vars
  <2> QED
    BY <1>1, <1>5, <2>1, CountReply
<1>6. CASE DeliverLen
  <2>1. UNCHANGED <<tables, svc, restarts, hnd, cbq, dlv, chan>>
    BY <1>6 DEF DeliverLen, TakeLen
  <2>2. cr[c].pc \in {"done", "past"} => cr'[c].pc = cr[c].pc
    BY <1>0, <1>6 DEF DeliverLen
  <2>3. Ended(c) => Ended(c)'
    BY <2>1, <2>2 DEF Ended, Mailed
  <2> QED
    BY <1>1, <2>1, <2>3
<1>7. CASE Start(c) \/ ForceDequeue(c) \/ PublishLinks(c)
  <2>1. PICK s \in Slots :
           \/ GetLen(s, Root(c)) \/ Dequeue(s, Root(c))
           \/ Enqueue(s, Root(c), out[c])
    BY <1>7 DEF Start, ForceDequeue, PublishLinks
  <2>2. UNCHANGED <<tables, svc, restarts, cbq>>
    BY <2>1 DEF GetLen, Dequeue, Enqueue, Request, replies
  <2>3. \A t \in Slots : \/ hnd'[t] = hnd[t]
                         \/ hnd'[t].pc \notin {"insert_node", "remove_queue"}
    BY <1>0, <2>1 DEF GetLen, Dequeue, Enqueue, Request, Handling
  <2>4. /\ UNCHANGED <<dlv, chan>>
        /\ cr[c].pc \in {"done", "past"} => cr'[c].pc = cr[c].pc
    BY <1>0, <1>7 DEF Start, ForceDequeue, PublishLinks
  <2>5. Ended(c) => Ended(c)'
    BY <2>2, <2>4 DEF Ended, Mailed
  <2> QED
    BY <2>2, <2>3, <2>5, CountFrame
<1>8. CASE ConsumeLen(c) \/ Navigate(c) \/ ExtractLinks(c) \/ IndexPage(c)
           \/ NavigateFails(c)
  <2>1. UNCHANGED <<tables, svc, restarts, hnd, cbq, dlv, chan>>
    BY <1>8 DEF ConsumeLen, Navigate, ExtractLinks, IndexPage, NavigateFails,
                frontier, vars, replies
  <2>2. cr[c].pc \notin {"done", "past"}
    BY <1>8 DEF ConsumeLen, Navigate, ExtractLinks, IndexPage, NavigateFails
  <2>3. Ended(c) => Ended(c)'
    BY <2>1, <2>2 DEF Ended, Mailed
  <2> QED
    BY <1>1, <2>1, <2>3
<1>9. CASE Listen(c) \/ Finished \/ (\E j \in Jobs : Admit(j))
           \/ UNCHANGED sysvars
  BY <1>1, <1>9 DEF Listen, Finished, Admit, sysvars, frontier, vars, replies,
                    crawling, Ended, Mailed
<1>10. CASE Panic(c) \/ SystemCrash
  BY <1>2, <1>10 DEF Panic, Throw, SystemCrash, Crash
<1>11. CASE SystemRestart
  <2>1. UNCHANGED <<tables, hnd>> /\ restarts' = restarts + 1 /\ svc # "up"
    BY <1>11 DEF SystemRestart, Restart
  <2>2. \A s \in Slots : hnd[s].pc = "idle"
    BY <2>1 DEF TokenInv, HandlerPlace
  <2> QED
    BY <2>1, <2>2, CountReset
<1> QED
  BY <1>3, <1>4, <1>5, <1>6, <1>7, <1>8, <1>9, <1>10, <1>11
  DEF SystemNext, CrawlerStep, LoopStep

LEMMA OneCrawlerAlways ==
    ASSUME NEW c \in Crawlers, Crawlers = {c}
    PROVE  SystemSpec => [](HostInv(c) /\ SaveInv(c) /\ CountInv(c))
<1>1. SystemInit => HostInv(c)
  <2> SUFFICES ASSUME SystemInit PROVE HostInv(c)
    OBVIOUS
  <2>1. /\ cr[c].url = Seed[c] /\ Len(cbq) = 0
        /\ Len(dlv[c]) = 0 /\ Len(chan[c]) = 0
    BY DEF SystemInit, Init, CrawlInit, Volatile
  <2>2. OwnMail(c, cbq) /\ OwnMail(c, dlv[c]) /\ OwnMail(c, chan[c])
    BY <2>1 DEF OwnMail
  <2> QED
    BY <2>1, <2>2, SeedIsOwn DEF HostInv
<1>2. SystemInit => SaveInv(c)
  BY DEF SystemInit, IndexingInit, NotSaving, SaveInv, SaverPlace, Stored
<1>3. SystemInit => CountInv(c)
  <2> SUFFICES ASSUME SystemInit PROVE CountInv(c)
    OBVIOUS
  <2>1. /\ Root(c) \in Hosts /\ Idle.pc = "idle"
        /\ HostOf \in [Urls -> Hosts]
    BY CrawlAssumption, StoreAssumption DEF Root, Idle, Handling
  <2>2. /\ \A h \in Hosts : ~queues[h].live /\ queues[h].id = 0
        /\ \A u \in Urls : nodes[u].status = "none" /\ nodes[u].id = 0
        /\ \A s \in Slots : hnd[s].pc = "idle"
        /\ restarts = 0
    BY <2>1 DEF SystemInit, Init, StoreInit
  <2> QED
    BY <2>1, <2>2 DEF CountInv, QueueCounted, RowCounted, Counted
<1>4. /\ SystemTypeOK /\ FreeInv /\ TokenInv(c)
      /\ HostInv(c) /\ SaveInv(c) /\ CountInv(c) /\ [SystemNext]_sysvars
      => (HostInv(c) /\ SaveInv(c) /\ CountInv(c))'
  BY HostStep, SaveStepKeeps, CountStep
<1> QED
  BY <1>1, <1>2, <1>3, <1>4, SystemTypeCorrect, FreeAlways, TokenAlways, PTL
  DEF SystemSpec

----------------------------------------------------------------------------
(* One crawler is the serial client of FrontierService *)

LEMMA SerialRequest ==
    ASSUME SystemTypeOK, OwnLinks, NEW c \in Crawlers, TokenInv(c),
           CountInv(c), MaxRestarts + 1 < MaxQueues, MaxRestarts + 1 < MaxRows,
           Start(c) \/ ForceDequeue(c) \/ PublishLinks(c)
    PROVE  SerialClient
<1>0. /\ Root(c) \in Hosts /\ restarts \in 0..MaxRestarts /\ MaxRestarts \in Nat
      /\ HostOf \in [Urls -> Hosts] /\ MaxQueues \in Nat /\ MaxRows \in Nat
      /\ queues \in [Hosts -> QueueRow] /\ nodes \in [Urls -> NodeRow]
  BY CrawlAssumption, StoreAssumption, ServiceAssumption
  DEF Root, SystemTypeOK, TypeOK, StoreTypeOK
<1>1. /\ \A t \in Slots : hnd[t].pc = "idle"
      /\ NoMail(c) /\ len_cbq = <<>>
  BY AsksInSilence
<1>2. Quiet(Root(c))
  BY <1>1 DEF Quiet, Active, NoMail
<1>3. queues[Root(c)].id <= MaxRestarts + 1
  BY <1>0 DEF CountInv, QueueCounted, QueueRow
<1>4. ASSUME NEW u \in UrlsOf(Root(c)) PROVE nodes[u].id < MaxRows
  <2>1. u \in Urls /\ HostOf[u] = Root(c)
    BY <1>4 DEF UrlsOf
  <2>2. nodes[u].id <= queues[Root(c)].id
    BY <2>1 DEF CountInv, RowCounted
  <2>3. nodes[u].id \in Nat /\ queues[Root(c)].id \in Nat
    BY <1>0, <2>1 DEF NodeRow, QueueRow
  <2> QED
    BY <1>0, <1>3, <2>2, <2>3
<1>5. Room(Root(c))
  BY <1>0, <1>3, <1>4 DEF Room, QueueRow
<1>6. out[c] # {} => out[c] \in (SUBSET UrlsOf(Root(c))) \ {{}}
  BY DEF OwnLinks
<1>7. SomeRequest(Root(c), (SUBSET UrlsOf(Root(c))) \ {{}})
  <2>1. CASE Start(c)
    BY <2>1 DEF Start, SomeRequest
  <2>2. CASE ForceDequeue(c)
    BY <2>2 DEF ForceDequeue, SomeRequest
  <2>3. CASE PublishLinks(c)
    BY <1>5, <1>6, <2>3 DEF PublishLinks, SomeRequest
  <2> QED
    BY <2>1, <2>2, <2>3
<1> QED
  BY <1>0, <1>2, <1>7 DEF SerialClient

\* Saving a page never violates a unique key.
LEMMA NeverFailsToSave ==
    ASSUME SystemTypeOK, NEW c \in Crawlers, SaveInv(c), NEW p \in SaveSlots
    PROVE  ~FailsToSave(p)
BY DEF FailsToSave, SaveInv, SaverPlace

LEMMA SerialPart ==
    ASSUME SystemTypeOK, OwnLinks, NEW c \in Crawlers, Crawlers = {c},
           TokenInv(c), SaveInv(c), CountInv(c),
           MaxRestarts + 1 < MaxQueues, MaxRestarts + 1 < MaxRows,
           [SystemNext]_sysvars
    PROVE  [SerialNext]_vars
<1>1. ASSUME NEW s \in Slots, DatabaseStep(s) PROVE SerialNext
  BY <1>1 DEF DatabaseStep, SerialNext, ServiceStep
<1>2. ASSUME NEW p \in SaveSlots, IndexingStep(p) PROVE UNCHANGED vars
  BY <1>2, NeverFailsToSave DEF IndexingStep, frontier
<1>3. CASE DeliverReply \/ DeliverLen
  BY <1>3 DEF DeliverReply, DeliverLen, SerialNext
<1>4. CASE Start(c) \/ ForceDequeue(c) \/ PublishLinks(c)
  BY <1>4, SerialRequest DEF SerialNext
<1>5. CASE \/ ConsumeLen(c) \/ Receive(c) \/ Navigate(c) \/ ExtractLinks(c)
           \/ IndexPage(c) \/ Listen(c) \/ Forward(c) \/ NavigateFails(c)
  BY <1>5 DEF ConsumeLen, Receive, Navigate, ExtractLinks, IndexPage, Listen,
              Forward, NavigateFails, frontier
<1>6. ~Panic(c)
  BY DEF Panic, Closed, TokenInv, NoMail
<1>7. CASE SystemCrash \/ SystemRestart
  BY <1>7 DEF SystemCrash, SystemRestart, SerialNext, ServiceStep
<1>8. CASE (\E j \in Jobs : Admit(j)) \/ Finished \/ UNCHANGED sysvars
  BY <1>8 DEF Admit, Finished, sysvars, frontier
<1> QED
  BY <1>1, <1>2, <1>3, <1>4, <1>5, <1>6, <1>7, <1>8
  DEF SystemNext, CrawlerStep, LoopStep

\* A crawler alone on the database service drives it as the serial client its
\* correctness rests on, over crashes and restarts, failing statements and
\* pages that do not load.  The bounds of the store must leave room for one
\* queue, and one row of each url, per start of the system.
THEOREM OneCrawlerAsksSerially ==
    ASSUME NEW c \in Crawlers, Crawlers = {c},
           MaxRestarts + 1 < MaxQueues, MaxRestarts + 1 < MaxRows
    PROVE  SystemSpec => CrawlerAsksSerially
<1>1. SystemInit => Init
  BY DEF SystemInit
<1>2. /\ SystemTypeOK /\ OwnLinks /\ TokenInv(c) /\ SaveInv(c) /\ CountInv(c)
      /\ [SystemNext]_sysvars
      => [SerialNext]_vars
  BY SerialPart
<1> QED
  BY <1>1, <1>2, SystemTypeCorrect, FreeAlways, TokenAlways, OneCrawlerAlways,
     PTL DEF SystemSpec, CrawlerAsksSerially, SerialSpec

\* However often a crawl is interrupted and resumed, no url that was recorded
\* as visited comes back into the queue (database.ts, insertNode).
THEOREM CrawlRequeuesNothing ==
    ASSUME NEW c \in Crawlers, Crawlers = {c}, ~SqlFaults, ~PoolSplits,
           MaxRestarts + 1 < MaxQueues, MaxRestarts + 1 < MaxRows
    PROVE  SystemSpec => []VisitedNeverRequeued
BY OneCrawlerAsksSerially, NoUrlTwice DEF CrawlerAsksSerially

\* Nor does a crawl, resumed or not, ever violate a constraint of the schema or
\* send on a closed channel, which would end the service (db.init.sql,
\* frontier_queue.go).
THEOREM CrawlViolatesNothing ==
    ASSUME NEW c \in Crawlers, Crawlers = {c}, ~SqlFaults, ~PoolSplits,
           MaxRestarts + 1 < MaxQueues, MaxRestarts + 1 < MaxRows
    PROVE  SystemSpec => []NeverThrows /\ ThrowsOnlyOnCollision
<1>1. SystemSpec => []NeverThrows
  BY OneCrawlerAsksSerially, NeverEndsItself DEF CrawlerAsksSerially
<1>2. NeverThrows'
      => [svc = "up" /\ svc' = "threw" =>
             \/ Cardinality(Started) > 1
             \/ \E u \in Urls : SplitLeft(u)]_sysvars
  BY DEF NeverThrows
<1>3. []NeverThrows => ThrowsOnlyOnCollision
  BY <1>2, PTL DEF ThrowsOnlyOnCollision
<1> QED
  BY <1>1, <1>3

\* The crawl is served from a work list, over all crashes and restarts of the
\* whole system: one url at a time, none twice, and the end only when nothing
\* is left.
THEOREM CrawlIsServedFromWorkList ==
    ASSUME NEW c \in Crawlers, Crawlers = {c}, ~SqlFaults, ~PoolSplits,
           MaxRestarts + 1 < MaxQueues, MaxRestarts + 1 < MaxRows
    PROVE  SystemSpec => ImplementsWorkList
BY OneCrawlerAsksSerially, ServiceIsWorkList DEF CrawlerAsksSerially

\* The same of a crawl whose transactions are split over connections, as long
\* as no crash of the system comes between their statements.
THEOREM SplitCrawlIsServed ==
    ASSUME NEW c \in Crawlers, Crawlers = {c}, ~SqlFaults,
           MaxRestarts + 1 < MaxQueues, MaxRestarts + 1 < MaxRows
    PROVE  SystemSpec /\ [][~CrashSplits]_vars
              => ImplementsWorkList /\ []NeverThrows
BY OneCrawlerAsksSerially, SplitsKeepWorkList, SplitsNeverThrow
DEF CrawlerAsksSerially

----------------------------------------------------------------------------
(* What one crawler is handed, until the page is stored.  A stopped system *)
(* forgets who held what, so this is about the time until then.            *)

\* A crawler that gives up ends at its page.
AtPage(c, u) ==
    cr[c].url = u /\ cr[c].pc \in {"navigate", "extract", "index", "stopped"}

InHand(c, u) == Stored(u) \/ InSave(u) \/ Mailed(c, u) \/ AtPage(c, u)

\* An indexed site without a queue: the page is thrown away.
Drops(p) == SelectRoot(p) /\ sav[p].known /\ ~queues[sav[p].msg.seed].live

\* A step that neither stops nor starts the system.
Proceeds(c) ==
    \/ \E s \in Slots : /\ HandlerStep(s) /\ ~Throw
                        /\ UNCHANGED <<indexing, crawling>>
    \/ \E p \in SaveSlots : SaveStep(p) /\ UNCHANGED <<frontier, crawling>>
    \/ DeliverReply \/ DeliverLen \/ Start(c) \/ CrawlerStep(c)
    \/ NavigateFails(c) \/ (\E j \in Jobs : Admit(j)) \/ UNCHANGED sysvars

\* Whoever ends the system: everything but the tables is lost.
StopsAll ==
    /\ svc = "up" /\ svc' # "up"
    /\ \E how \in {"crashed", "threw"} : Stop(how)
    /\ UNCHANGED tables /\ LoseVolatile

LEMMA StepKinds ==
    ASSUME SystemTypeOK, NEW c \in Crawlers, Crawlers = {c}, TokenInv(c),
           SaveInv(c), [SystemNext]_sysvars
    PROVE  \/ Proceeds(c) /\ UNCHANGED <<svc, restarts>>
           \/ StopsAll
           \/ SystemRestart
<1>1. ASSUME NEW s \in Slots, DatabaseStep(s)
      PROVE  (Proceeds(c) /\ UNCHANGED <<svc, restarts>>) \/ StopsAll
  <2>1. HandlerStep(s) /\ restarts' = restarts
    BY <1>1, SameRestarts DEF DatabaseStep
  <2>2. hnd[s].pc # "idle"
    BY <2>1
    DEF HandlerStep, FindQueue, CreateQueue, ReloadQueue, CheckVisited,
        InsertUrl, FinishEnqueue, SelectQueue, SelectInProgress,
        SelectPending, UpdateInProgress, CountRows, SqlError, DequeuePcs,
        Publish, SetNodeToVisited, DeleteVisited, RemoveQueue, CountNodes
  <2>3. svc = "up"
    BY <2>2 DEF TokenInv, HandlerPlace
  <2>4. CASE Throw
    BY <1>1, <2>3, <2>4 DEF DatabaseStep, Throw, Stop, StopsAll
  <2>5. CASE ~Throw
    <3>1. svc' = svc
      BY <2>1, <2>5, OnlyOwnSlot DEF SystemTypeOK
    <3> QED
      BY <1>1, <2>1, <2>3, <2>5, <3>1 DEF DatabaseStep, Proceeds
  <2> QED
    BY <2>4, <2>5
<1>2. ASSUME NEW p \in SaveSlots, IndexingStep(p)
      PROVE  Proceeds(c) /\ UNCHANGED <<svc, restarts>>
  BY <1>2, NeverFailsToSave DEF IndexingStep, frontier, vars, Proceeds
<1>3. CASE DeliverReply \/ DeliverLen \/ Start(c)
  BY <1>3 DEF DeliverReply, TakeReply, DeliverLen, TakeLen, Start, GetLen,
              Request, Proceeds
<1>4. CASE CrawlerStep(c) \/ NavigateFails(c)
  BY <1>4
  DEF CrawlerStep, LoopStep, ConsumeLen, ForceDequeue, Receive, Navigate,
      ExtractLinks, IndexPage, Listen, Forward, PublishLinks, Dequeue, Enqueue,
      Request, NavigateFails, frontier, vars, Proceeds
<1>5. ~Panic(c)
  BY DEF Panic, Closed, TokenInv, NoMail
<1>6. CASE SystemCrash
  BY <1>6 DEF SystemCrash, Crash, Stop, StopsAll
<1>7. CASE (\E j \in Jobs : Admit(j)) \/ Finished \/ UNCHANGED sysvars
  BY <1>7 DEF Admit, Finished, sysvars, frontier, vars, Proceeds
<1> QED
  BY <1>1, <1>2, <1>3, <1>4, <1>5, <1>6, <1>7 DEF SystemNext

LEMMA UndisturbedProceeds ==
    ASSUME SystemTypeOK, NEW c \in Crawlers, Crawlers = {c}, TokenInv(c),
           SaveInv(c), [SystemNext]_sysvars, Undisturbed'
    PROVE  Undisturbed /\ Proceeds(c)
<1>1. restarts \in Nat
  BY ServiceAssumption DEF SystemTypeOK, TypeOK
<1>2. ~StopsAll /\ ~SystemRestart
  BY <1>1 DEF StopsAll, SystemRestart, Restart, Undisturbed
<1> QED
  BY <1>2, StepKinds DEF Undisturbed

\* A handler of an indexed page stores its text, finds it stored or drops it.
LEMMA SavesOrDrops ==
    ASSUME SystemTypeOK, PageInv, NEW c \in Crawlers, SaveInv(c),
           NEW p \in SaveSlots, SaveStep(p), NEW u \in Urls,
           Stored(u) \/ InSave(u)
    PROVE  Stored(u)' \/ InSave(u)' \/ (Drops(p) /\ sav[p].msg.url = u)
<1> DEFINE url == sav[p].msg.url
<1>0. /\ sav \in [SaveSlots -> Saver] /\ webpages \in [Urls -> Urls \cup {NoPage}]
      /\ sav[p].pc # "idle" /\ NoPage \notin Urls
  BY SaveAssumption
  DEF SystemTypeOK, SaveTypeOK, SaveStep, SelectSite, SelectRoot, InsertPage,
      InsertSite, InsertFirst
<1>1. url \in Urls /\ sav[p].msg.from # NoPage
  BY <1>0 DEF SaveInv, SaverPlace, UrlsOf, PageInv
<1>2. Stored(u) => Stored(u)'
  BY <1>0, <1>1
  DEF SaveStep, SelectSite, SelectRoot, InsertPage, InsertSite, InsertFirst,
      Insert, Stored
<1>3. \A q \in SaveSlots \ {p} : sav'[q] = sav[q]
  BY <1>0
  DEF SaveStep, SelectSite, SelectRoot, InsertPage, InsertSite, InsertFirst,
      Insert
<1>4. CASE InSave(u) /\ url # u
  BY <1>3, <1>4 DEF InSave
<1>5. CASE InSave(u) /\ url = u
  <2>1. CASE SelectSite(p)
    <3>1. sav'[p].msg = sav[p].msg /\ sav'[p].pc = "select_queue"
      BY <1>0, <2>1 DEF SelectSite, Saver
    <3> QED
      BY <1>5, <3>1 DEF InSave
  <2>2. CASE SelectRoot(p) /\ ~Drops(p)
    <3>1. \/ sav' = [sav EXCEPT ![p] = [sav[p] EXCEPT !.pc = "insert_page"]]
          \/ sav' = [sav EXCEPT ![p] = [sav[p] EXCEPT !.pc = "insert_site"]]
      BY <2>2 DEF SelectRoot, Drops
    <3>2. sav'[p].msg = sav[p].msg /\ sav'[p].pc # "idle"
      BY <1>0, <3>1 DEF Saver
    <3> QED
      BY <1>5, <3>2 DEF InSave
  <2>3. CASE InsertSite(p)
    <3>1. sav' = [sav EXCEPT ![p] = [sav[p] EXCEPT !.pc = "insert_first"]]
      BY <2>3 DEF InsertSite
    <3>2. sav'[p].msg = sav[p].msg /\ sav'[p].pc # "idle"
      BY <1>0, <3>1 DEF Saver
    <3> QED
      BY <1>5, <3>2 DEF InSave
  <2>4. CASE InsertPage(p) \/ InsertFirst(p)
    BY <1>0, <1>1, <1>5, <2>4 DEF InsertPage, InsertFirst, Insert, Stored
  <2> QED
    BY <1>5, <2>1, <2>2, <2>3, <2>4 DEF SaveStep
<1> QED
  BY <1>2, <1>4, <1>5

\* A url in hand stays so until its page is stored, or dropped.
LEMMA StaysInHand ==
    ASSUME SystemTypeOK, PageInv, NEW c \in Crawlers, Crawlers = {c},
           TokenInv(c), SaveInv(c), Proceeds(c), NEW u \in Urls, InHand(c, u)
    PROVE  \/ InHand(c, u)'
           \/ \E p \in SaveSlots : Drops(p) /\ sav[p].msg.url = u
<1>0. /\ cr \in [Crawlers -> [pc : CrawlPcs, url : Urls]] /\ u # End
      /\ cbq \in Seq(Reply) /\ dlv[c] \in Seq(Reply) /\ chan[c] \in Seq(Reply)
      /\ chan \in [Crawlers -> Seq(Reply)]
  BY TokenTypes, ServiceAssumption DEF SystemTypeOK, CrawlTypeOK
<1>1. ASSUME UNCHANGED <<sav, webpages>>, AtPage(c, u)' = AtPage(c, u),
             Mailed(c, u) => Mailed(c, u)'
      PROVE  InHand(c, u)'
  BY <1>1 DEF InHand, Stored, InSave
<1>2. ASSUME NEW s \in Slots, HandlerStep(s), ~Throw,
             UNCHANGED <<indexing, crawling>>
      PROVE  InHand(c, u)'
  <2>1. PICK m : m = [url |-> hnd[s].url, for |-> hnd[s].root]
    OBVIOUS
  <2>2. cbq' = cbq \/ cbq' = Append(cbq, m)
    BY <1>2, <2>1
    DEF HandlerStep, FindQueue, CreateQueue, ReloadQueue, CheckVisited,
        InsertUrl, FinishEnqueue, SelectQueue, SelectInProgress,
        SelectPending, UpdateInProgress, CountRows, SqlError, Publish,
        SetNodeToVisited, DeleteVisited, RemoveQueue, CountNodes, Quietly,
        replies
  <2>3. Names(Append(cbq, m), u) <=> Names(cbq, u) \/ m.url = u
    <3>1. \A q \in Seq(Reply) : \A x :
             Names(Append(q, x), u) <=> Names(q, u) \/ x.url = u
      BY NamesOf
    <3> QED
      BY <1>0, <3>1
  <2>4. Names(cbq, u) => Names(cbq', u)
    BY <2>2, <2>3
  <2> QED
    BY <1>1, <1>2, <2>4 DEF indexing, crawling, Mailed, AtPage
<1>3. ASSUME NEW p \in SaveSlots, SaveStep(p), UNCHANGED <<frontier, crawling>>
      PROVE  InHand(c, u)' \/ (Drops(p) /\ sav[p].msg.url = u)
  <2>1. CASE Stored(u) \/ InSave(u)
    BY <1>3, <2>1, SavesOrDrops DEF InHand
  <2>2. CASE Mailed(c, u) \/ AtPage(c, u)
    BY <1>3, <2>2
    DEF frontier, vars, replies, crawling, Mailed, AtPage, InHand
  <2> QED
    BY <2>1, <2>2 DEF InHand
<1>4. CASE DeliverReply \/ Forward(c)
  <2>1. UNCHANGED <<indexing, cr>>
    BY <1>4 DEF DeliverReply, Forward
  <2>2. UNCHANGED <<sav, webpages>> /\ AtPage(c, u)' = AtPage(c, u)
    BY <2>1 DEF indexing, AtPage
  <2> QED
    BY <1>1, <1>4, <2>2, MailKept
<1>5. CASE Receive(c)
  <2>1. /\ chan[c] # <<>> /\ cr[c].pc = "receive"
        /\ UNCHANGED <<sav, webpages, cbq, dlv>>
    BY <1>5 DEF Receive, frontier, vars, replies, indexing
  <2>2. \A q \in Seq(Reply) : q # <<>> /\ Names(q, u) =>
           Names(Tail(q), u) \/ Head(q).url = u
    BY NamesOf
  <2>5. Len(chan[c]) <= 1
    BY TokenTypes DEF TokenInv
  <2>6. Tail(chan[c]) = <<>> /\ ~Names(<<>>, u)
    BY <1>0, <2>1, <2>5, LastTaken, NamesOf
  <2>7. Names(chan[c], u) => Head(chan[c]).url = u
    BY <1>0, <2>1, <2>2, <2>6
  <2>3. Head(chan[c]).url = u => cr'[c].url = u /\ cr'[c].pc = "navigate"
    BY <1>0, <1>5 DEF Receive
  <2>4. CASE Stored(u) \/ InSave(u) \/ Names(cbq, u) \/ Names(dlv[c], u)
    BY <2>1, <2>4 DEF InHand, Stored, InSave, Mailed
  <2> QED
    BY <2>1, <2>3, <2>4, <2>7 DEF InHand, AtPage, Mailed
<1>6. CASE \/ DeliverLen \/ Start(c) \/ ConsumeLen(c) \/ ForceDequeue(c)
           \/ Navigate(c) \/ ExtractLinks(c) \/ Listen(c) \/ PublishLinks(c)
           \/ NavigateFails(c)
  <2>1. UNCHANGED <<sav, webpages, cbq, dlv, chan>>
    BY <1>6
    DEF DeliverLen, TakeLen, Start, GetLen, ConsumeLen, ForceDequeue, Dequeue,
        Navigate, ExtractLinks, Listen, PublishLinks, Enqueue, Request,
        NavigateFails, frontier, vars, replies, indexing
  <2>2. AtPage(c, u) => AtPage(c, u)'
    BY <1>0, <1>6
    DEF DeliverLen, Start, ConsumeLen, ForceDequeue, Navigate, ExtractLinks,
        Listen, PublishLinks, NavigateFails, AtPage
  <2> QED
    BY <2>1, <2>2 DEF InHand, Stored, InSave, Mailed
<1>7. CASE IndexPage(c)
  <2>1. PICK p \in SaveSlots :
           Save(p, [seed |-> Root(c), url |-> cr[c].url, from |-> wd[Job[c]]])
    BY <1>7 DEF IndexPage
  <2>2. /\ sav' = [sav EXCEPT ![p] =
                    [pc |-> "select_site", known |-> FALSE,
                     msg |-> [seed |-> Root(c), url |-> cr[c].url,
                              from |-> wd[Job[c]]]]]
        /\ sav[p].pc = "idle" /\ UNCHANGED <<sites, webpages>>
    BY <2>1 DEF Save
  <2>3. sav'[p].pc = "select_site" /\ sav'[p].msg.url = cr[c].url
    BY <2>2 DEF SystemTypeOK, SaveTypeOK
  <2>4. \A q \in SaveSlots \ {p} : sav'[q] = sav[q]
    BY <2>2 DEF SystemTypeOK, SaveTypeOK
  <2>5. InSave(u) => InSave(u)'
    BY <2>2, <2>4 DEF InSave
  <2>6. AtPage(c, u) => InSave(u)'
    BY <2>3 DEF AtPage, InSave
  <2>7. UNCHANGED <<cbq, dlv, chan, webpages>>
    BY <1>7, <2>2 DEF IndexPage, frontier, vars, replies
  <2> QED
    BY <2>5, <2>6, <2>7 DEF InHand, Stored, Mailed
<1>8. CASE (\E j \in Jobs : Admit(j)) \/ UNCHANGED sysvars
  BY <1>1, <1>8 DEF Admit, sysvars, frontier, vars, replies, indexing,
                    crawling, Mailed, AtPage
<1> QED
  BY <1>2, <1>3, <1>4, <1>5, <1>6, <1>7, <1>8
  DEF Proceeds, CrawlerStep, LoopStep

\* Until its handler has recorded it, a url is on its way to the crawler, or
\* its page is being loaded: reading the page takes longer.
Held(c, s) ==
    hnd[s].pc \in {"set_visited", "delete_node"} =>
       \/ Mailed(c, hnd[s].url)
       \/ AtPage(c, hnd[s].url) /\ cr[c].pc # "index"

\* Recorded, and nobody holds it any more.
Lost(c) == {u \in visited_nodes : ~InHand(c, u)}

KeptInv(c) == Undisturbed => /\ \A s \in Slots : Held(c, s)
                             /\ \A u \in visited_nodes : InHand(c, u)

LEMMA HeldStep ==
    ASSUME SystemTypeOK, FreeInv, NEW c \in Crawlers, Crawlers = {c},
           TokenInv(c), \A s \in Slots : Held(c, s), Proceeds(c)
    PROVE  \A s \in Slots : Held(c, s)'
<1>0. /\ cr \in [Crawlers -> [pc : CrawlPcs, url : Urls]] /\ End \notin Urls
      /\ TypeOK /\ Root(c) \in Hosts
      /\ cbq \in Seq(Reply) /\ dlv[c] \in Seq(Reply) /\ chan[c] \in Seq(Reply)
  BY TokenTypes, ServiceAssumption, CrawlAssumption, StoreAssumption
  DEF SystemTypeOK, CrawlTypeOK, Root
<1>1. ASSUME NEW s \in Slots, HandlerStep(s), ~Throw,
             UNCHANGED <<indexing, crawling>>, NEW t \in Slots
      PROVE  Held(c, t)'
  <2>1. hnd[s].pc # "idle" /\ HandlerPlace(c, s)
    BY <1>1
    DEF HandlerStep, FindQueue, CreateQueue, ReloadQueue, CheckVisited,
        InsertUrl, FinishEnqueue, SelectQueue, SelectInProgress,
        SelectPending, UpdateInProgress, CountRows, SqlError, DequeuePcs,
        Publish, SetNodeToVisited, DeleteVisited, RemoveQueue, CountNodes,
        TokenInv
  <2>2. CASE t # s
    <3>1. hnd[t].pc = "idle" /\ hnd'[t] = hnd[t]
      BY <1>0, <1>1, <2>1, <2>2, OnlyOwnSlot DEF TokenInv, OneHandler
    <3> QED
      BY <3>1 DEF Held
  <2>3. CASE t = s /\ hnd'[s].pc \in {"set_visited", "delete_node"}
    <3>1. /\ hnd'[s].url = hnd[s].url
          /\ hnd[s].pc \in {"publish", "set_visited"}
      BY <1>0, <1>1, <2>1, <2>3, ComesFrom DEF HandlerPlace
    <3>2. PICK m : m = [url |-> hnd[s].url, for |-> hnd[s].root]
      OBVIOUS
    <3>3. \/ hnd[s].pc = "publish" /\ cbq' = Append(cbq, m)
          \/ hnd[s].pc # "publish" /\ cbq' = cbq
      BY <1>0, <1>1, <2>1, <3>2, HandlerEffect
      DEF HandlerPlace, replies, Finishing
    <3>4. m.url = hnd[s].url
      BY <3>2
    <3>5. \A q \in Seq(Reply) : \A x :
             Names(Append(q, x), m.url) <=> Names(q, m.url) \/ x.url = m.url
      BY NamesOf
    <3>6. hnd[s].pc = "publish" => Names(cbq', hnd'[s].url)
      <4>1. Names(Append(cbq, m), m.url)
        BY <1>0, <3>5
      <4> QED
        BY <3>1, <3>3, <3>4, <4>1
    <3>7. UNCHANGED <<cr, dlv, chan>>
      BY <1>1 DEF crawling
    <3> QED
      BY <2>3, <3>1, <3>3, <3>6, <3>7 DEF Held, Mailed, AtPage
  <2> QED
    BY <2>2, <2>3 DEF Held
<1>3. CASE hnd' = hnd /\ UNCHANGED <<cbq, dlv, chan, cr>>
  BY <1>3 DEF Held, Mailed, AtPage
<1>4. CASE DeliverReply \/ Forward(c)
  <2>1. hnd' = hnd /\ cr' = cr
    BY <1>4 DEF DeliverReply, TakeReply, Forward, frontier, vars
  <2> SUFFICES ASSUME NEW t \in Slots PROVE Held(c, t)'
    OBVIOUS
  <2>2. PICK u : u = hnd[t].url
    OBVIOUS
  <2>3. Mailed(c, u) => Mailed(c, u)'
    BY <1>4, MailKept
  <2> QED
    BY <2>1, <2>2, <2>3 DEF Held, Mailed, AtPage
<1>5. CASE Receive(c)
  <2>1. /\ chan[c] # <<>> /\ cr[c].pc = "receive"
        /\ UNCHANGED <<hnd, cbq, dlv>>
    BY <1>5 DEF Receive, frontier, vars, replies
  <2> SUFFICES ASSUME NEW t \in Slots, hnd[t].pc \in {"set_visited", "delete_node"}
               PROVE  Held(c, t)'
    BY <2>1 DEF Held
  <2>2. hnd[t].url \in Urls
    BY DEF FreeInv, OwnUrl, UrlsOf
  <2>3. PICK u \in Urls : u = hnd[t].url
    BY <2>2
  <2>4. Len(chan[c]) <= 1
    BY TokenTypes DEF TokenInv
  <2>5. Tail(chan[c]) = <<>> /\ ~Names(<<>>, u)
    BY <1>0, <2>1, <2>4, LastTaken, NamesOf
  <2>6. \A q \in Seq(Reply) : q # <<>> /\ Names(q, u) =>
           Names(Tail(q), u) \/ Head(q).url = u
    BY NamesOf
  <2>7. Names(chan[c], u) => Head(chan[c]).url = u
    BY <1>0, <2>1, <2>5, <2>6
  <2>8. Head(chan[c]).url = u => cr'[c].url = u /\ cr'[c].pc = "navigate"
    BY <1>0, <1>5 DEF Receive
  <2>9. Mailed(c, u)
    BY <2>1, <2>3 DEF Held, AtPage
  <2> QED
    BY <2>1, <2>3, <2>7, <2>8, <2>9 DEF Held, Mailed, AtPage
<1>6. CASE DeliverLen \/ ConsumeLen(c) \/ Navigate(c) \/ NavigateFails(c)
  <2>1. UNCHANGED <<hnd, cbq, dlv, chan>>
    BY <1>6 DEF DeliverLen, TakeLen, ConsumeLen, Navigate, NavigateFails,
                frontier, vars, replies
  <2>2. cr[c].pc \in {"navigate", "extract", "stopped"} =>
           /\ cr'[c].url = cr[c].url
           /\ cr'[c].pc \in {"navigate", "extract", "stopped"}
    BY <1>0, <1>6 DEF DeliverLen, ConsumeLen, Navigate, NavigateFails
  <2> QED
    BY <2>1, <2>2 DEF Held, Mailed, AtPage
<1>7. CASE Start(c) \/ ForceDequeue(c) \/ PublishLinks(c) \/ ExtractLinks(c)
  <2>1. \A t \in Slots : hnd'[t].pc \notin {"set_visited", "delete_node"}
    <3>1. CASE ExtractLinks(c)
      BY <3>1
      DEF ExtractLinks, Settled, Active, TokenInv, HandlerPlace, frontier, vars
    <3>2. CASE Start(c) \/ ForceDequeue(c) \/ PublishLinks(c)
      <4>1. \A t \in Slots : hnd[t].pc = "idle"
        BY <3>2, AsksInSilence
      <4>2. PICK s \in Slots :
               \/ GetLen(s, Root(c)) \/ Dequeue(s, Root(c))
               \/ Enqueue(s, Root(c), out[c])
        BY <3>2 DEF Start, ForceDequeue, PublishLinks
      <4> QED
        BY <1>0, <4>1, <4>2, RequestEffect
    <3> QED
      BY <1>7, <3>1, <3>2
  <2> QED
    BY <2>1 DEF Held
<1>8. CASE IndexPage(c)
  <2>1. UNCHANGED <<hnd, cbq, dlv, chan>> /\ cr[c].pc = "index"
    BY <1>8 DEF IndexPage, frontier, vars, replies
  <2> QED
    BY <2>1 DEF Held, Mailed, AtPage
<1>9. CASE \/ \E p \in SaveSlots : SaveStep(p) /\ UNCHANGED <<frontier, crawling>>
           \/ Listen(c) \/ (\E j \in Jobs : Admit(j)) \/ UNCHANGED sysvars
  BY <1>3, <1>9 DEF Listen, Admit, sysvars, frontier, vars, replies, crawling
<1> QED
  BY <1>1, <1>4, <1>5, <1>6, <1>7, <1>8, <1>9
  DEF Proceeds, CrawlerStep, LoopStep

\* No step loses a url but one that stops the system.
LEMMA NothingLost ==
    ASSUME SystemTypeOK, FreeInv, PageInv, NEW c \in Crawlers, Crawlers = {c},
           TokenInv(c), SaveInv(c), \A s \in Slots : Held(c, s), Proceeds(c)
    PROVE  Lost(c)' \subseteq Lost(c)
<1>1. visited_nodes \in SUBSET Urls
  BY DEF SystemTypeOK, TypeOK, StoreTypeOK
<1>2. ASSUME NEW p \in SaveSlots, Drops(p) PROVE sav[p].msg.url \notin visited_nodes
  BY <1>2 DEF Drops, SelectRoot, SaveInv, SaverPlace, UrlsOf, FreeInv,
              NoOrphanRows
<1>3. ASSUME NEW u \in visited_nodes, InHand(c, u) PROVE InHand(c, u)'
  BY <1>1, <1>2, <1>3, StaysInHand
<1>4. ASSUME NEW u \in visited_nodes', u \notin visited_nodes
      PROVE  InHand(c, u)'
  <2>1. PICK s \in Slots : HandlerStep(s)
    BY <1>4
    DEF Proceeds, DeliverReply, TakeReply, DeliverLen, TakeLen, Start, GetLen,
        CrawlerStep, LoopStep, ConsumeLen, ForceDequeue, Receive, Navigate,
        ExtractLinks, IndexPage, Listen, Forward, PublishLinks, Dequeue,
        Enqueue, Request, NavigateFails, Admit, sysvars, frontier, vars,
        tables
  <2>2. SetNodeToVisited(s)
    BY <1>4, <2>1
    DEF HandlerStep, FindQueue, CreateQueue, ReloadQueue, CheckVisited,
        InsertUrl, FinishEnqueue, SelectQueue, SelectInProgress,
        SelectPending, UpdateInProgress, CountRows, SqlError, Publish,
        DeleteVisited, RemoveQueue, CountNodes, InsertQueue, InsertNode,
        SetInProgress, DeleteNode, DeleteQueue, Throw, tables
  <2>3. u = hnd[s].url /\ hnd[s].pc = "set_visited"
    BY <1>4, <2>2 DEF SetNodeToVisited, SetVisited, RecordVisited, Throw, tables
  <2>4. InHand(c, u) /\ u \in Urls
    BY <2>3 DEF Held, InHand, FreeInv, OwnUrl, UrlsOf
  <2>5. ~\E p \in SaveSlots : Drops(p)
    <3>1. UNCHANGED sav => ~\E p \in SaveSlots : Drops(p)
      BY DEF Drops, SelectRoot, NotSaving, SystemTypeOK, SaveTypeOK
    <3>2. UNCHANGED sav
      BY <1>4
      DEF Proceeds, indexing, DeliverReply, TakeReply, DeliverLen, TakeLen,
          Start, GetLen,
          CrawlerStep, LoopStep, ConsumeLen, ForceDequeue, Receive, Navigate,
          ExtractLinks, IndexPage, Listen, Forward, PublishLinks, Dequeue,
          Enqueue, Request, NavigateFails, Admit, sysvars, frontier, vars,
          tables
    <3> QED
      BY <3>1, <3>2
  <2> QED
    BY <2>4, <2>5, StaysInHand
<1> QED
  BY <1>3, <1>4 DEF Lost

LEMMA KeptStep ==
    ASSUME SystemTypeOK, FreeInv, PageInv, NEW c \in Crawlers, Crawlers = {c},
           TokenInv(c), SaveInv(c), KeptInv(c), [SystemNext]_sysvars
    PROVE  KeptInv(c)'
<1> SUFFICES ASSUME Undisturbed'
             PROVE  /\ \A s \in Slots : Held(c, s)'
                    /\ \A u \in visited_nodes' : InHand(c, u)'
  BY DEF KeptInv
<1>1. /\ Proceeds(c)
      /\ \A s \in Slots : Held(c, s)
      /\ \A u \in visited_nodes : InHand(c, u)
  BY UndisturbedProceeds DEF KeptInv
<1>2. \A s \in Slots : Held(c, s)'
  BY <1>1, HeldStep
<1>3. Lost(c)' \subseteq Lost(c)
  BY <1>1, NothingLost
<1> QED
  BY <1>1, <1>2, <1>3 DEF Lost

LEMMA KeptAlways ==
    ASSUME NEW c \in Crawlers, Crawlers = {c}
    PROVE  SystemSpec => []KeptInv(c)
<1>3. SystemInit => KeptInv(c)
  BY DEF SystemInit, Init, StoreInit, Idle, Handling, KeptInv, Held
<1>4. /\ SystemTypeOK /\ FreeInv /\ PageInv /\ TokenInv(c) /\ SaveInv(c)
      /\ KeptInv(c) /\ [SystemNext]_sysvars
      => KeptInv(c)'
  BY KeptStep
<1> QED
  BY <1>3, <1>4, SystemTypeCorrect, PageAlways, FreeAlways, TokenAlways,
     OneCrawlerAlways, PTL DEF SystemSpec

\* Until something stops the system, a url that is recorded as visited is on
\* its way to the crawler, fetched, or its page stored, unless the crawler has
\* ended over it: whatever the order of a handler's record and the crawler's
\* steps, and whatever statements and pages fail.
THEOREM NoVisitedPageLost ==
    ASSUME NEW c \in Crawlers, Crawlers = {c}
    PROVE  SystemSpec => []VisitedPageNotLost
<1>1. KeptInv(c) => VisitedPageNotLost
  BY DEF KeptInv, InHand, Mailed, Names, AtPage, VisitedPageNotLost, UnderWay,
         GivenUp
<1> QED
  BY <1>1, KeptAlways, PTL

----------------------------------------------------------------------------
(* What a stop costs: the url a crawler was handed or whose page it loads, *)
(* and the page that is being indexed.                                     *)

\* A crawler has one url in the mail, and one page is being indexed.
LEMMA OneMailed ==
    ASSUME SystemTypeOK, NEW c \in Crawlers, TokenInv(c),
           NEW u, Mailed(c, u), NEW v, Mailed(c, v)
    PROVE  u = v
<1>1. /\ Len(cbq) \in Nat /\ Len(dlv[c]) \in Nat /\ Len(chan[c]) \in Nat
      /\ Len(cbq) + Len(dlv[c]) + Len(chan[c]) <= 1
  BY TokenTypes DEF TokenInv
<1>a. \A x, y, z \in Nat : x + y + z <= 1 =>
         /\ x <= 1 /\ y <= 1 /\ z <= 1
         /\ x >= 1 => ~(y >= 1) /\ ~(z >= 1)
         /\ y >= 1 => ~(x >= 1) /\ ~(z >= 1)
  OBVIOUS
<1>2. ASSUME NEW q, Len(q) \in Nat, Len(q) <= 1, Names(q, u), Names(q, v)
      PROVE  u = v
  <2>1. PICK i \in 1..Len(q) : q[i].url = u
    BY <1>2 DEF Names
  <2>2. PICK j \in 1..Len(q) : q[j].url = v
    BY <1>2 DEF Names
  <2>3. i = j
    BY <1>2
  <2> QED
    BY <2>1, <2>2, <2>3
<1>3. ASSUME NEW q, Len(q) \in Nat, Names(q, u) \/ Names(q, v)
      PROVE  Len(q) >= 1
  BY <1>3 DEF Names
<1>4. CASE Names(cbq, u) \/ Names(cbq, v)
  <2>1. Len(cbq) >= 1
    BY <1>1, <1>3, <1>4
  <2>2. ~(Len(dlv[c]) >= 1) /\ ~(Len(chan[c]) >= 1) /\ Len(cbq) <= 1
    BY <1>1, <1>a, <2>1
  <2>3. Names(cbq, u) /\ Names(cbq, v)
    BY <1>1, <1>3, <2>2 DEF Mailed
  <2> QED
    BY <1>1, <1>2, <2>2, <2>3
<1>5. CASE Names(dlv[c], u) \/ Names(dlv[c], v)
  <2>1. Len(dlv[c]) >= 1
    BY <1>1, <1>3, <1>5
  <2>2. ~(Len(cbq) >= 1) /\ ~(Len(chan[c]) >= 1) /\ Len(dlv[c]) <= 1
    BY <1>1, <1>a, <2>1
  <2>3. Names(dlv[c], u) /\ Names(dlv[c], v)
    BY <1>1, <1>3, <2>2 DEF Mailed
  <2> QED
    BY <1>1, <1>2, <2>2, <2>3
<1>6. CASE Names(chan[c], u) /\ Names(chan[c], v)
  <2>1. Len(chan[c]) <= 1
    BY <1>1, <1>a
  <2> QED
    BY <1>1, <1>2, <1>6, <2>1
<1> QED
  BY <1>4, <1>5, <1>6 DEF Mailed

LEMMA OneSaved ==
    ASSUME NEW c \in Crawlers, SaveInv(c), NEW u, InSave(u), NEW v, InSave(v)
    PROVE  u = v
BY DEF SaveInv, InSave

\* While a page is loaded or read there is no mail, and while it is sent for
\* indexing no other page is being indexed.
LEMMA HeldByTwo ==
    ASSUME SystemTypeOK, NEW c \in Crawlers, TokenInv(c), SaveInv(c)
    PROVE  \E v, w : \A u :
              InSave(u) \/ Mailed(c, u) \/ AtPage(c, u) => u \in {v, w}
<1>1. \E v : \A u : Mailed(c, u) => u = v
  BY OneMailed
<1>2. \E v : \A u : InSave(u) => u = v
  BY OneSaved
<1>3. \A u : AtPage(c, u) => u = cr[c].url
  BY DEF AtPage
<1>4. CASE cr[c].pc = "index"
  <2>1. \A u : ~InSave(u)
    BY <1>4 DEF SaveInv, SaverPlace, InSave
  <2> QED
    BY <1>1, <1>3, <2>1
<1>5. CASE cr[c].pc \in {"navigate", "extract", "stopped"}
  <2>1. cbq = <<>> /\ dlv[c] = <<>> /\ chan[c] = <<>>
    BY <1>5 DEF TokenInv, NoMail
  <2>2. \A u : ~Mailed(c, u)
    BY <2>1 DEF Mailed, Names
  <2> QED
    BY <1>2, <1>3, <2>2
<1>6. CASE cr[c].pc \notin {"navigate", "extract", "index", "stopped"}
  BY <1>1, <1>2, <1>6 DEF AtPage
<1> QED
  BY <1>4, <1>5, <1>6

LEMMA AddsOne ==
    ASSUME NEW S, NEW x, IsFiniteSet(S)
    PROVE  /\ IsFiniteSet(S \cup {x})
           /\ Cardinality(S \cup {x}) <= Cardinality(S) + 1
<1>1. Cardinality(S) \in Nat
  BY FS_CardinalityType
<1>2. IsFiniteSet(S \cup {x})
  BY FS_AddElement
<1>3. \/ Cardinality(S \cup {x}) = Cardinality(S)
      \/ Cardinality(S \cup {x}) = Cardinality(S) + 1
  BY FS_AddElement
<1> QED
  BY <1>1, <1>2, <1>3

LossInv(c) ==
    /\ \A s \in Slots : Held(c, s)
    /\ IsFiniteSet(Lost(c)) /\ Cardinality(Lost(c)) <= 2 * Stops

LEMMA LossStep ==
    ASSUME SystemTypeOK, FreeInv, PageInv, NEW c \in Crawlers, Crawlers = {c},
           TokenInv(c), SaveInv(c), LossInv(c), [SystemNext]_sysvars
    PROVE  LossInv(c)'
<1>0. restarts \in Nat /\ Stops \in Nat
  BY ServiceAssumption DEF SystemTypeOK, TypeOK, Stops
<1>1. CASE Proceeds(c) /\ UNCHANGED <<svc, restarts>>
  <2>1. \A s \in Slots : Held(c, s)'
    BY <1>1, HeldStep DEF LossInv
  <2>2. Lost(c)' \subseteq Lost(c)
    BY <1>1, NothingLost DEF LossInv
  <2>3. IsFiniteSet(Lost(c)') /\ Cardinality(Lost(c)') <= Cardinality(Lost(c))
    BY <2>2, FS_Subset DEF LossInv
  <2>4. Cardinality(Lost(c)') \in Nat /\ Cardinality(Lost(c)) \in Nat
    BY <2>3, FS_CardinalityType DEF LossInv
  <2>5. Stops' = Stops
    BY <1>1 DEF Stops
  <2> QED
    BY <1>0, <2>1, <2>3, <2>4, <2>5 DEF LossInv
<1>2. CASE StopsAll
  <2>1. /\ \A s \in Slots : hnd'[s].pc = "idle"
        /\ UNCHANGED <<visited_nodes, webpages, restarts>>
    BY <1>2 DEF StopsAll, Stop, LoseVolatile, tables, Idle, Handling
  <2>2. PICK v, w : \A u : InSave(u) \/ Mailed(c, u) \/ AtPage(c, u) => u \in {v, w}
    BY HeldByTwo
  <2>3. Lost(c)' \subseteq (Lost(c) \cup {v}) \cup {w}
    BY <2>1, <2>2 DEF Lost, InHand, Stored
  <2>4. /\ IsFiniteSet(Lost(c) \cup {v})
        /\ Cardinality(Lost(c) \cup {v}) <= Cardinality(Lost(c)) + 1
    BY AddsOne DEF LossInv
  <2>5. /\ IsFiniteSet((Lost(c) \cup {v}) \cup {w})
        /\ Cardinality((Lost(c) \cup {v}) \cup {w})
              <= Cardinality(Lost(c) \cup {v}) + 1
    BY <2>4, AddsOne
  <2>6. /\ IsFiniteSet(Lost(c)')
        /\ Cardinality(Lost(c)') <= Cardinality((Lost(c) \cup {v}) \cup {w})
    BY <2>3, <2>5, FS_Subset
  <2>7. /\ Cardinality(Lost(c)') \in Nat /\ Cardinality(Lost(c)) \in Nat
        /\ Cardinality(Lost(c) \cup {v}) \in Nat
        /\ Cardinality((Lost(c) \cup {v}) \cup {w}) \in Nat
    BY <2>4, <2>5, <2>6, FS_CardinalityType DEF LossInv
  <2>8. Stops' = Stops + 1
    BY <1>0, <1>2, <2>1 DEF StopsAll, Stops
  <2>9. Cardinality(Lost(c)') <= 2 * Stops'
    BY <1>0, <2>4, <2>5, <2>6, <2>7, <2>8 DEF LossInv
  <2> QED
    BY <2>1, <2>6, <2>9 DEF LossInv, Held
<1>3. CASE SystemRestart
  <2>1. UNCHANGED <<tables, hnd, cbq, sav, webpages, dlv, chan, cr>>
    BY <1>3 DEF SystemRestart, Restart, indexing, crawling, replies
  <2>2. Lost(c)' = Lost(c) /\ \A s \in Slots : Held(c, s)' = Held(c, s)
    BY <2>1 DEF Lost, InHand, Stored, InSave, Mailed, AtPage, Held, tables
  <2>3. Stops' = Stops
    BY <1>0, <1>3 DEF SystemRestart, Restart, Stops
  <2> QED
    BY <2>2, <2>3 DEF LossInv
<1> QED
  BY <1>1, <1>2, <1>3, StepKinds

\* For one crawler, every crash, failing constraint or other stop of the system
\* costs the crawl at most two pages, however often it is resumed: what was
\* recorded as visited and lost, other than by a crawler that has just given
\* up over it, is no more than that (database.ts setNodeToVisited;
\* rabbitmq/index.ts, crawlerHandler; page_navigator.go).
THEOREM StopsLoseTwoEach ==
    ASSUME NEW c \in Crawlers, Crawlers = {c}
    PROVE  SystemSpec => []EachStopLosesTwo
<1>3. SystemInit => LossInv(c)
  <2> SUFFICES ASSUME SystemInit PROVE LossInv(c)
    OBVIOUS
  <2>1. /\ \A s \in Slots : Held(c, s)
        /\ Lost(c) = {} /\ Stops = 0
    BY DEF SystemInit, Init, StoreInit, Idle, Handling, Held, Lost, Stops
  <2> QED
    BY <2>1, FS_EmptySet DEF LossInv
<1>4. /\ SystemTypeOK /\ FreeInv /\ PageInv /\ TokenInv(c) /\ SaveInv(c)
      /\ LossInv(c) /\ [SystemNext]_sysvars
      => LossInv(c)'
  BY LossStep
<1>5. SystemTypeOK /\ LossInv(c) => EachStopLosesTwo
  <2> SUFFICES ASSUME SystemTypeOK, LossInv(c) PROVE EachStopLosesTwo
    OBVIOUS
  <2>1. LostPages \subseteq Lost(c)
    BY DEF LostPages, Lost, InHand, Mailed, Names, AtPage, UnderWay, GivenUp
  <2>2. /\ IsFiniteSet(LostPages)
        /\ Cardinality(LostPages) <= Cardinality(Lost(c))
    BY <2>1, FS_Subset DEF LossInv
  <2>3. Cardinality(LostPages) \in Nat /\ Cardinality(Lost(c)) \in Nat
    BY <2>2, FS_CardinalityType DEF LossInv
  <2>4. Stops \in Nat
    BY ServiceAssumption DEF SystemTypeOK, TypeOK, Stops
  <2> QED
    BY <2>2, <2>3, <2>4 DEF LossInv, EachStopLosesTwo
<1> QED
  BY <1>3, <1>4, <1>5, SystemTypeCorrect, PageAlways, FreeAlways, TokenAlways,
     OneCrawlerAlways, PTL DEF SystemSpec

----------------------------------------------------------------------------
\* Nothing ends a crawl from within.
LEMMA NoCrash ==
    ASSUME SystemTypeOK, MaxRestarts = 0, svc # "crashed", [SystemNext]_sysvars
    PROVE  svc' # "crashed"
<1>0. restarts \in 0..0
  BY DEF SystemTypeOK, TypeOK
<1>1. CASE svc' = svc \/ Throw
  BY <1>1 DEF Throw, Stop
<1>2. ASSUME NEW s \in Slots, DatabaseStep(s) PROVE svc' # "crashed"
  BY <1>1, <1>2, OnlyOwnSlot DEF DatabaseStep, SystemTypeOK
<1>3. ASSUME NEW p \in SaveSlots, IndexingStep(p) PROVE svc' # "crashed"
  BY <1>1, <1>3 DEF IndexingStep, frontier, vars
<1>4. CASE \/ DeliverReply \/ DeliverLen \/ (\E j \in Jobs : Admit(j))
           \/ Finished \/ UNCHANGED sysvars
  BY <1>1, <1>4
  DEF DeliverReply, TakeReply, DeliverLen, TakeLen, Admit, Finished, sysvars,
      frontier, vars
<1>5. ASSUME NEW c \in Crawlers,
             Start(c) \/ CrawlerStep(c) \/ NavigateFails(c) \/ Panic(c)
      PROVE  svc' # "crashed"
  BY <1>1, <1>5
  DEF Start, GetLen, CrawlerStep, LoopStep, ConsumeLen, ForceDequeue, Receive,
      Navigate, ExtractLinks, IndexPage, Listen, Forward, PublishLinks, Dequeue,
      Enqueue, Request, NavigateFails, Panic, frontier, vars
<1>6. ~SystemCrash /\ ~SystemRestart
  BY <1>0 DEF SystemCrash, Crash, SystemRestart, Restart
<1> QED
  BY <1>2, <1>3, <1>4, <1>5, <1>6 DEF SystemNext

\* A crawl does not stop itself: without crashes from outside and failing
\* statements nothing stops the system, even if transactions are split, so that
\* what holds of an undisturbed crawl always holds (db.init.sql,
\* frontier_queue.go).
THEOREM NothingStops ==
    ASSUME NEW c \in Crawlers, Crawlers = {c}, ~SqlFaults,
           MaxRestarts = 0, 1 < MaxQueues, 1 < MaxRows
    PROVE  SystemSpec => []Undisturbed
<1>1. SystemSpec => [](svc # "crashed")
  <2>1. SystemInit => svc # "crashed"
    BY DEF SystemInit, Init
  <2>2. SystemTypeOK /\ svc # "crashed" /\ [SystemNext]_sysvars
        => (svc # "crashed")'
    BY NoCrash
  <2> QED
    BY <2>1, <2>2, SystemTypeCorrect, PTL DEF SystemSpec
<1>2. SystemSpec => []NeverThrows
  <2>1. (svc # "crashed")' => [~CrashSplits]_vars
    BY DEF CrashSplits
  <2>2. SystemSpec => [][~CrashSplits]_vars
    BY <1>1, <2>1, PTL
  <2> QED
    BY <2>2, SplitCrawlIsServed
<1>3. SystemTypeOK /\ NeverThrows /\ svc # "crashed" => Undisturbed
  BY DEF SystemTypeOK, TypeOK, NeverThrows, Undisturbed
<1> QED
  BY <1>1, <1>2, <1>3, SystemTypeCorrect, PTL

----------------------------------------------------------------------------
(* Which pages may be dropped: saveWebpage takes a known site without a    *)
(* queue for fully indexed.  Until something stops the system the site is  *)
(* known, when the next page arrives, only after its queue was created.    *)

SavingAny == \E p \in SaveSlots : sav[p].pc # "idle"

QueueBegun(c) == queues[Root(c)].id # 0

TookUp(s) ==
    hnd[s].pc \in {"dq_update", "dq_count", "publish"} /\ hnd[s].url # End

KnowsSite(c, p) ==
    \/ sav[p].pc = "select_site" /\ Root(c) \in sites
    \/ sav[p].pc = "select_queue" /\ sav[p].known

Starting == {"new", "consume_len", "await_len", "force_dequeue"}

AtSomePage(c) == cr[c].pc \in {"navigate", "extract", "index"}

BegunFirst(c) ==
    /\ queues[Root(c)].live => QueueBegun(c)
    /\ cr[c].pc \in Starting => ~SavingAny /\ Root(c) \notin sites
    /\ AtSomePage(c) /\ (SavingAny \/ Root(c) \in sites) => QueueBegun(c)
    /\ \A u \in Urls : Mailed(c, u) => QueueBegun(c)
    /\ \A s \in Slots : TookUp(s) => QueueBegun(c)
    /\ \A p \in SaveSlots : KnowsSite(c, p) => QueueBegun(c)

\* Only a live queue has rows that a handler can take up.
LEMMA TakesFromQueue ==
    ASSUME TypeOK, NEW s \in Slots, HandlerStep(s), ~Throw, TookUp(s)'
    PROVE  queues[hnd[s].root].live \/ TookUp(s)
<1>0. hnd \in [Slots -> Handler]
  BY DEF TypeOK
<1>g. ASSUME NEW pc, Goto(s, pc)
      PROVE  hnd'[s].pc = pc /\ hnd'[s].url = hnd[s].url
  BY <1>0, <1>g DEF Goto
<1>a. ~Answer(s, End)
  <2> SUFFICES ASSUME Answer(s, End) PROVE FALSE
    OBVIOUS
  <2>1. hnd'[s] = [hnd[s] EXCEPT !.url = End, !.pc = "publish"]
    BY <1>0 DEF Answer
  <2> QED
    BY <1>0, <2>1 DEF Handler, TookUp
<1>i. Idle.pc = "idle"
  BY DEF Idle, Handling
<1>1. CASE SelectInProgress(s) \/ SelectPending(s)
  <2>1. \/ \E u \in UrlsOf(hnd[s].root) : queues[hnd[s].root].live
        \/ Goto(s, "dq_pending")
    BY <1>1, <1>a DEF SelectInProgress, SelectPending, Select, QueueExists
  <2> QED
    BY <1>g, <2>1 DEF TookUp
<1>2. CASE UpdateInProgress(s) \/ CountRows(s) \/ ReloadQueue(s) \/ InsertUrl(s)
  BY <1>2, <1>g
  DEF UpdateInProgress, CountRows, ReloadQueue, InsertUrl, TookUp
<1>3. CASE SelectQueue(s) \/ SqlError(s)
  <2>1. SelectQueue(s) /\ queues[hnd[s].root].live
    BY <1>3, <1>a DEF SelectQueue, SqlError
  <2> QED
    BY <2>1
<1>4. ~(FindQueue(s) \/ CheckVisited(s) \/ FinishEnqueue(s) \/ Publish(s))
  <2>1. ~FindQueue(s)
    <3> SUFFICES ASSUME FindQueue(s) PROVE FALSE
      OBVIOUS
    <3>1. \/ \E q : hnd' = [hnd EXCEPT ![s].pc = "check_visited", ![s].q = q]
          \/ hnd' = [hnd EXCEPT ![s].pc = "create_queue"]
      BY DEF FindQueue
    <3>2. hnd'[s].pc \in {"check_visited", "create_queue"}
      BY <1>0, <3>1 DEF Handler
    <3> QED
      BY <3>2 DEF TookUp
  <2>2. ~CheckVisited(s)
    <3> SUFFICES ASSUME CheckVisited(s) PROVE FALSE
      OBVIOUS
    <3>1. PICK u \in hnd[s].todo :
             \/ hnd' = [hnd EXCEPT ![s].todo = @ \ {u}]
             \/ hnd' = [hnd EXCEPT ![s].todo = @ \ {u}, ![s].url = u,
                                    ![s].pc = "insert_node"]
      BY DEF CheckVisited
    <3>2. \/ hnd'[s] = [hnd[s] EXCEPT !.todo = @ \ {u}]
          \/ hnd'[s] = [hnd[s] EXCEPT !.todo = @ \ {u}, !.url = u,
                                       !.pc = "insert_node"]
      BY <1>0, <3>1
    <3>3. hnd'[s].pc \in {hnd[s].pc, "insert_node"}
      BY <1>0, <3>2 DEF Handler
    <3>4. hnd[s].pc = "check_visited"
      BY DEF CheckVisited
    <3> QED
      BY <3>3, <3>4 DEF TookUp
  <2>3. ~FinishEnqueue(s)
    <3> SUFFICES ASSUME FinishEnqueue(s) PROVE FALSE
      OBVIOUS
    <3>1. PICK pc : hnd' = [hnd EXCEPT ![s].url = End, ![s].pc = pc]
      BY DEF FinishEnqueue
    <3>2. hnd'[s] = [hnd[s] EXCEPT !.url = End, !.pc = pc]
      BY <1>0, <3>1
    <3> QED
      BY <1>0, <3>2 DEF Handler, TookUp
  <2>4. ~Publish(s)
    BY <1>0, <1>i DEF Publish, Handler, TookUp
  <2> QED
    BY <2>1, <2>2, <2>3, <2>4
<1>5. ~CreateQueue(s)
  <2> SUFFICES ASSUME CreateQueue(s) PROVE FALSE
    OBVIOUS
  <2>1. hnd'[s] = [hnd[s] EXCEPT !.pc = "reload_queue",
                                 !.q = queues[hnd[s].root].id + 1]
    BY <1>0 DEF CreateQueue
  <2> QED
    BY <1>0, <2>1 DEF Handler, TookUp
<1>6. ~(\/ SetNodeToVisited(s) \/ DeleteVisited(s) \/ RemoveQueue(s)
        \/ CountNodes(s))
  BY <1>0, <1>g, <1>i
  DEF SetNodeToVisited, DeleteVisited, RemoveQueue, CountNodes, TookUp
<1> QED
  BY <1>1, <1>2, <1>3, <1>4, <1>5, <1>6 DEF HandlerStep

\* A queue gets its first id when it is created, and keeps one.
LEMMA BeginsOnce ==
    ASSUME TypeOK, NEW c \in Crawlers, NEW s \in Slots, HandlerStep(s)
    PROVE  /\ QueueBegun(c) => QueueBegun(c)'
           /\ queues'[Root(c)].live /\ ~queues[Root(c)].live
                 => QueueBegun(c)' /\ CreateQueue(s)
<1>0. Root(c) \in Hosts /\ queues \in [Hosts -> QueueRow]
  BY CrawlAssumption, StoreAssumption DEF Root, TypeOK, StoreTypeOK
<1>1. CASE CreateQueue(s)
  <2>1. CASE Throw
    BY <2>1 DEF Throw, tables, QueueBegun
  <2>2. CASE ~Throw
    <3>1. queues' = [queues EXCEPT ![hnd[s].root] =
                       [live |-> TRUE, id |-> @.id + 1]]
      BY <1>1, <2>2 DEF CreateQueue, InsertQueue
    <3>2. queues[Root(c)].id \in Nat
      BY <1>0 DEF QueueRow
    <3> QED
      BY <1>0, <1>1, <3>1, <3>2 DEF QueueBegun
  <2> QED
    BY <2>1, <2>2
<1>2. CASE RemoveQueue(s)
  <2>1. queues' = [queues EXCEPT ![hnd[s].root].live = FALSE]
    BY <1>2 DEF RemoveQueue, DeleteQueue
  <2> QED
    BY <1>0, <2>1 DEF QueueBegun, QueueRow
<1>3. CASE ~CreateQueue(s) /\ ~RemoveQueue(s)
  <2>1. queues' = queues
    BY <1>3
    DEF HandlerStep, FindQueue, ReloadQueue, CheckVisited, InsertUrl,
        FinishEnqueue, SelectQueue, SelectInProgress, SelectPending,
        UpdateInProgress, CountRows, SqlError, Publish, SetNodeToVisited,
        DeleteVisited, CountNodes, InsertNode, SetInProgress, SetVisited,
        RecordVisited, DeleteNode, Throw, tables
  <2> QED
    BY <2>1 DEF QueueBegun
<1> QED
  BY <1>1, <1>2, <1>3

\* While no queue was ever created nothing but the first page is under way.
LEMMA BegunFrontier ==
    ASSUME SystemTypeOK, NEW c \in Crawlers, TokenInv(c), BegunFirst(c),
           NEW s \in Slots, HandlerStep(s), ~Throw,
           UNCHANGED <<indexing, crawling>>
    PROVE  BegunFirst(c)'
<1>0. TypeOK /\ cbq \in Seq(Reply)
  BY TokenTypes DEF SystemTypeOK
<1>1. hnd[s].pc # "idle" /\ HandlerPlace(c, s)
  BY DEF HandlerStep, FindQueue, CreateQueue, ReloadQueue, CheckVisited,
         InsertUrl, FinishEnqueue, SelectQueue, SelectInProgress,
         SelectPending, UpdateInProgress, CountRows, SqlError, DequeuePcs,
         Publish, SetNodeToVisited, DeleteVisited, RemoveQueue, CountNodes,
         TokenInv
<1>2. hnd[s].root = Root(c)
  BY <1>1 DEF HandlerPlace
<1>3. UNCHANGED <<cr, dlv, chan, sav, sites>>
  BY DEF indexing, crawling
<1>4. cr[c].pc \in Starting => ~SavingAny /\ Root(c) \notin sites
  BY DEF BegunFirst
<1>5. CASE QueueBegun(c)'
  BY <1>3, <1>4, <1>5 DEF BegunFirst, SavingAny, AtSomePage
<1>6. CASE ~QueueBegun(c)'
  <2>1. ~QueueBegun(c) /\ ~queues[Root(c)].live /\ ~queues'[Root(c)].live
    BY <1>0, <1>6, BeginsOnce DEF BegunFirst
  <2>2. ~TookUp(s)'
    BY <1>0, <1>2, <2>1, TakesFromQueue DEF BegunFirst
  <2>3. \A t \in Slots : ~TookUp(t)'
    BY <1>0, <2>1, <2>2, OnlyOwnSlot DEF BegunFirst, TookUp
  <2>4. \A u \in Urls : ~Mailed(c, u)'
    <3> SUFFICES ASSUME NEW u \in Urls PROVE ~Mailed(c, u)'
      OBVIOUS
    <3>1. PICK m : m = [url |-> hnd[s].url, for |-> hnd[s].root]
      OBVIOUS
    <3>2. \/ hnd[s].pc = "publish" /\ cbq' = Append(cbq, m)
          \/ cbq' = cbq
      BY <1>0, <1>1, <3>1, HandlerEffect DEF HandlerPlace, replies
    <3>3. \A q \in Seq(Reply) : \A x :
             Names(Append(q, x), u) <=> Names(q, u) \/ x.url = u
      BY NamesOf
    <3>4. Names(Append(cbq, m), u) <=> Names(cbq, u) \/ m.url = u
      BY <1>0, <3>3
    <3>5. hnd[s].pc = "publish" => m.url # u
      BY <2>1, <3>1, ServiceAssumption DEF BegunFirst, TookUp
    <3>6. ~Mailed(c, u)
      BY <2>1 DEF BegunFirst
    <3> QED
      BY <1>3, <3>2, <3>4, <3>5, <3>6 DEF Mailed
  <2>5. /\ AtSomePage(c) => ~SavingAny /\ Root(c) \notin sites
        /\ \A p \in SaveSlots : ~KnowsSite(c, p)
    BY <2>1 DEF BegunFirst
  <2>6. /\ AtSomePage(c)' => ~SavingAny' /\ Root(c) \notin sites'
        /\ \A p \in SaveSlots : ~KnowsSite(c, p)'
    BY <1>3, <2>5 DEF AtSomePage, SavingAny, KnowsSite
  <2>7. cr'[c].pc \in Starting => ~SavingAny' /\ Root(c) \notin sites'
    BY <1>3, <1>4 DEF SavingAny
  <2> QED
    BY <2>1, <2>3, <2>4, <2>6, <2>7 DEF BegunFirst
<1> QED
  BY <1>5, <1>6

LEMMA BegunSaving ==
    ASSUME SystemTypeOK, NEW c \in Crawlers, SaveInv(c), BegunFirst(c),
           NEW p \in SaveSlots, SaveStep(p), UNCHANGED <<frontier, crawling>>
    PROVE  BegunFirst(c)'
<1>0. sav \in [SaveSlots -> Saver] /\ sav[p].pc # "idle" /\ SavingAny
  BY DEF SystemTypeOK, SaveTypeOK, SaveStep, SelectSite, SelectRoot, InsertPage,
         InsertSite, InsertFirst, SavingAny
<1>1. UNCHANGED <<cr, dlv, chan, cbq, hnd, queues>>
  BY DEF frontier, vars, replies, tables, crawling
<1>2. /\ QueueBegun(c)' = QueueBegun(c) /\ AtSomePage(c)' = AtSomePage(c)
      /\ \A u \in Urls : Mailed(c, u)' = Mailed(c, u)
      /\ \A s \in Slots : TookUp(s)' = TookUp(s)
  BY <1>1 DEF QueueBegun, AtSomePage, Mailed, TookUp
<1>3. cr[c].pc \notin Starting
  BY <1>0 DEF BegunFirst
<1>4. sav[p].msg.seed = Root(c) /\ \A q \in SaveSlots \ {p} : sav[q].pc = "idle"
  BY <1>0 DEF SaveInv, SaverPlace
<1>5. \A q \in SaveSlots \ {p} : sav'[q].pc = "idle"
  BY <1>0, <1>4
  DEF SaveStep, SelectSite, SelectRoot, InsertPage, InsertSite, InsertFirst,
      Insert
<1>6. \A q \in SaveSlots : KnowsSite(c, q)' => QueueBegun(c)
  <2>1. CASE SelectSite(p)
    <3>1. PICK k \in BOOLEAN : k = (Root(c) \in sites)
      <4>1. (Root(c) \in sites) \in BOOLEAN
        BY SMT
      <4> QED
        BY <4>1, Zenon
    <3>2. sav'[p] = [sav[p] EXCEPT !.known = k, !.pc = "select_queue"]
      BY <1>0, <1>4, <2>1, <3>1 DEF SelectSite
    <3>3. sav'[p].pc = "select_queue" /\ sav'[p].known = k
      BY <1>0, <3>2 DEF Saver
    <3>4. sav[p].pc = "select_site"
      BY <2>1 DEF SelectSite
    <3> QED
      BY <1>5, <3>1, <3>3, <3>4 DEF KnowsSite, BegunFirst
  <2>2. CASE ~SelectSite(p)
    <3>1. sav'[p].pc \notin {"select_site", "select_queue"}
      BY <1>0, <2>2
      DEF SaveStep, SelectRoot, InsertPage, InsertSite, InsertFirst, Insert,
          NotSaving, Saver
    <3> QED
      BY <1>5, <3>1 DEF KnowsSite
  <2> QED
    BY <2>1, <2>2
<1> QED
  BY <1>0, <1>1, <1>2, <1>3, <1>6 DEF BegunFirst

LEMMA BegunStep ==
    ASSUME SystemTypeOK, NEW c \in Crawlers, Crawlers = {c},
           TokenInv(c), SaveInv(c), BegunFirst(c), Proceeds(c)
    PROVE  BegunFirst(c)'
<1>0. /\ cr \in [Crawlers -> [pc : CrawlPcs, url : Urls]]
      /\ TypeOK /\ Root(c) \in Hosts
      /\ cbq \in Seq(Reply) /\ dlv[c] \in Seq(Reply) /\ chan[c] \in Seq(Reply)
  BY TokenTypes, CrawlAssumption, StoreAssumption
  DEF SystemTypeOK, CrawlTypeOK, Root
<1>1. CASE /\ UNCHANGED <<queues, sav, sites>>
           /\ \A s \in Slots : TookUp(s)' => TookUp(s)
           /\ \A u \in Urls : Mailed(c, u)' => Mailed(c, u)
           /\ cr'[c].pc \in Starting => cr[c].pc \in Starting
           /\ AtSomePage(c)' => AtSomePage(c) \/ cr[c].pc \in Starting
                                \/ \E u \in Urls : Mailed(c, u)
  <2>1. /\ QueueBegun(c)' = QueueBegun(c) /\ SavingAny' = SavingAny
        /\ \A p \in SaveSlots : KnowsSite(c, p)' = KnowsSite(c, p)
    BY <1>1 DEF QueueBegun, SavingAny, KnowsSite
  <2> QED
    BY <1>1, <2>1 DEF BegunFirst
<1>2. CASE DeliverReply \/ Forward(c)
  <2>1. UNCHANGED <<queues, hnd, sav, sites, cr>>
    BY <1>2 DEF DeliverReply, TakeReply, Forward, frontier, vars, tables, indexing
  <2>2. \A u \in Urls : Mailed(c, u)' => Mailed(c, u)
    BY <1>2, MailCame
  <2> QED
    BY <1>1, <2>1, <2>2 DEF TookUp, AtSomePage
<1>3. CASE Receive(c)
  <2>1. UNCHANGED <<queues, hnd, sav, sites>> /\ chan[c] # <<>>
    BY <1>3 DEF Receive, frontier, vars, tables, indexing
  <2>2. \A u \in Urls : Mailed(c, u)' => Mailed(c, u)
    BY <1>3, MailCame
  <2>3. /\ cr'[c].pc \in {"done", "navigate"}
        /\ cr'[c].pc = "navigate" => Head(chan[c]).url # End
    BY <1>0, <1>3 DEF Receive
  <2>4. PICK u : u = Head(chan[c]).url
    OBVIOUS
  <2>5. u \in Urls \cup {End}
    <3>1. Head(chan[c]) \in Reply
      BY <1>0, <2>1, HeadTailProperties
    <3> QED
      BY <2>4, <3>1 DEF Reply
  <2>6. \A q \in Seq(Reply) :
           q # <<>> /\ (Names(Tail(q), u) \/ Head(q).url = u) => Names(q, u)
    BY NamesOf
  <2>7. Mailed(c, u)
    BY <1>0, <2>1, <2>4, <2>6 DEF Mailed
  <2> QED
    <3>1. AtSomePage(c)' => \E v \in Urls : Mailed(c, v)
      BY <2>3, <2>4, <2>5, <2>7 DEF AtSomePage
    <3>2. cr'[c].pc \notin Starting
      BY <2>3 DEF Starting
    <3>3. \A s \in Slots : TookUp(s)' => TookUp(s)
      BY <2>1 DEF TookUp
    <3> QED
      BY <1>1, <2>1, <2>2, <3>1, <3>2, <3>3
<1>4. CASE \/ DeliverLen \/ ConsumeLen(c) \/ Navigate(c) \/ ExtractLinks(c)
           \/ Listen(c) \/ NavigateFails(c) \/ (\E j \in Jobs : Admit(j))
           \/ UNCHANGED sysvars
  <2>1. UNCHANGED <<queues, hnd, sav, sites, cbq, dlv, chan>>
    BY <1>4
    DEF DeliverLen, TakeLen, ConsumeLen, Navigate, ExtractLinks, Listen,
        NavigateFails, Admit, sysvars, crawling, frontier, vars, tables,
        replies, indexing
  <2>2. /\ cr'[c].pc \in Starting => cr[c].pc \in Starting
        /\ AtSomePage(c)' => AtSomePage(c) \/ cr[c].pc \in Starting
    BY <1>0, <1>4
    DEF DeliverLen, ConsumeLen, Navigate, ExtractLinks, Listen, NavigateFails,
        Admit, sysvars, crawling, AtSomePage, Starting
  <2> QED
    BY <1>1, <2>1, <2>2 DEF TookUp, Mailed
<1>5. CASE Start(c) \/ ForceDequeue(c) \/ PublishLinks(c)
  <2>1. PICK s \in Slots :
           \/ GetLen(s, Root(c)) \/ Dequeue(s, Root(c))
           \/ Enqueue(s, Root(c), out[c])
    BY <1>5 DEF Start, ForceDequeue, PublishLinks
  <2>2. /\ UNCHANGED <<queues, cbq>>
        /\ \A t \in Slots \ {s} : hnd'[t] = hnd[t]
        /\ hnd'[s].pc \in {"find_queue", "dq_queue", "count_nodes"}
    BY <1>0, <2>1, RequestEffect DEF tables, replies
  <2>3. /\ UNCHANGED <<dlv, chan, sav, sites>>
        /\ cr'[c].pc \in Starting => cr[c].pc \in Starting
        /\ AtSomePage(c)' => AtSomePage(c)
    BY <1>0, <1>5
    DEF Start, ForceDequeue, PublishLinks, indexing, AtSomePage, Starting
  <2>4. \A t \in Slots : TookUp(t)' => TookUp(t)
    BY <2>2 DEF TookUp
  <2> QED
    BY <1>1, <2>2, <2>3, <2>4 DEF Mailed
<1>6. CASE IndexPage(c)
  <2>1. PICK p \in SaveSlots :
           Save(p, [seed |-> Root(c), url |-> cr[c].url, from |-> wd[Job[c]]])
    BY <1>6 DEF IndexPage
  <2>2. /\ sav' = [sav EXCEPT ![p] =
                    [pc |-> "select_site", known |-> FALSE,
                     msg |-> [seed |-> Root(c), url |-> cr[c].url,
                              from |-> wd[Job[c]]]]]
        /\ UNCHANGED <<sites, webpages>>
    BY <2>1 DEF Save
  <2>3. sav'[p].pc = "select_site" /\ \A q \in SaveSlots \ {p} : sav'[q] = sav[q]
    BY <2>2 DEF SystemTypeOK, SaveTypeOK
  <2>4. UNCHANGED <<queues, hnd, cbq, dlv, chan>> /\ AtSomePage(c)
    BY <1>6 DEF IndexPage, frontier, vars, tables, replies, AtSomePage
  <2>5. cr'[c].pc = "receive"
    BY <1>0, <1>6 DEF IndexPage
  <2>6. Root(c) \in sites => QueueBegun(c)
    BY <2>4 DEF BegunFirst
  <2>7. \A q \in SaveSlots : KnowsSite(c, q)' => QueueBegun(c)
    BY <2>2, <2>3, <2>6 DEF KnowsSite, BegunFirst
  <2>8. /\ QueueBegun(c)' = QueueBegun(c)
        /\ \A u \in Urls : Mailed(c, u)' = Mailed(c, u)
        /\ \A s \in Slots : TookUp(s)' = TookUp(s)
    BY <2>4 DEF QueueBegun, Mailed, TookUp
  <2>9. queues'[Root(c)].live => QueueBegun(c)'
    BY <2>4, <2>8 DEF BegunFirst
  <2> QED
    BY <2>5, <2>7, <2>8, <2>9 DEF BegunFirst, AtSomePage, Starting
<1> QED
  BY <1>2, <1>3, <1>4, <1>5, <1>6, BegunFrontier, BegunSaving
  DEF Proceeds, CrawlerStep, LoopStep

\* The crawl is over, or will be as soon as its loop reads its mail.
AtEnd(c) == \/ cr[c].pc \in {"done", "past"}
            \/ cr[c].pc = "receive" /\ Mailed(c, End)

\* The page is neither in the table nor with a handler.
Gone(u) == ~Stored(u) /\ ~InSave(u)

\* The page that was thrown away is the last one, and nothing comes after it.
LastDropped(c) ==
    \A u \in sent : Gone(u) =>
       /\ ~queues[Root(c)].live /\ AtEnd(c) /\ ~SavingAny
       /\ \A v \in sent : Gone(v) => u = v

DropInv(c) == /\ sent \subseteq UrlsOf(Root(c))
              /\ Undisturbed => BegunFirst(c) /\ LastDropped(c)

LEMMA EndStays ==
    ASSUME SystemTypeOK, NEW c \in Crawlers, Crawlers = {c}, TokenInv(c),
           AtEnd(c), ~SavingAny, ~queues[Root(c)].live, Proceeds(c)
    PROVE  /\ AtEnd(c)' /\ ~SavingAny' /\ ~queues'[Root(c)].live
           /\ sent' = sent
<1>0. /\ cr \in [Crawlers -> [pc : CrawlPcs, url : Urls]] /\ TypeOK
      /\ cbq \in Seq(Reply) /\ dlv[c] \in Seq(Reply) /\ chan[c] \in Seq(Reply)
  BY TokenTypes DEF SystemTypeOK, CrawlTypeOK
<1>1. /\ cr[c].pc \in {"done", "past", "receive"}
      /\ cr[c].pc = "receive" => Mailed(c, End) /\ ~NoMail(c) /\ out[c] = {}
      /\ out[c] = {}
  <2>1. Mailed(c, End) => ~NoMail(c)
    <3>1. ~Names(<<>>, End)
      BY NamesOf
    <3> QED
      BY <3>1 DEF Mailed, NoMail
  <2> QED
    BY <2>1 DEF AtEnd, TokenInv
<1>2. ASSUME NEW s \in Slots, HandlerStep(s), ~Throw,
             UNCHANGED <<indexing, crawling>>
      PROVE  /\ AtEnd(c)' /\ ~SavingAny' /\ ~queues'[Root(c)].live
             /\ sent' = sent
  <2>1. ~CreateQueue(s)
    BY <1>1 DEF CreateQueue, TokenInv, HandlerPlace, OwingPcs
  <2>2. ~queues'[Root(c)].live
    BY <1>0, <1>2, <2>1, BeginsOnce
  <2>3. PICK m : m = [url |-> hnd[s].url, for |-> hnd[s].root]
    OBVIOUS
  <2>4. cbq' = cbq \/ cbq' = Append(cbq, m)
    BY <1>2, <2>3
    DEF HandlerStep, FindQueue, CreateQueue, ReloadQueue, CheckVisited,
        InsertUrl, FinishEnqueue, SelectQueue, SelectInProgress,
        SelectPending, UpdateInProgress, CountRows, SqlError, Publish,
        SetNodeToVisited, DeleteVisited, RemoveQueue, CountNodes, Quietly,
        replies
  <2>5. \A q \in Seq(Reply) : \A x :
           Names(Append(q, x), End) <=> Names(q, End) \/ x.url = End
    BY NamesOf
  <2>6. Names(Append(cbq, m), End) <=> Names(cbq, End) \/ m.url = End
    BY <1>0, <2>5
  <2>7. UNCHANGED <<cr, dlv, chan, sav, sent>>
    BY <1>2 DEF indexing, crawling
  <2> QED
    BY <2>2, <2>4, <2>6, <2>7 DEF AtEnd, Mailed, SavingAny
<1>3. CASE DeliverReply \/ Forward(c)
  <2>1. UNCHANGED <<cr, sav, queues, sent>>
    BY <1>3 DEF DeliverReply, TakeReply, Forward, frontier, vars, tables, indexing
  <2>2. Mailed(c, End) => Mailed(c, End)'
    BY <1>3, MailKept
  <2> QED
    BY <2>1, <2>2 DEF AtEnd, SavingAny
<1>4. CASE Receive(c)
  <2>1. /\ chan[c] # <<>> /\ cr[c].pc = "receive"
        /\ UNCHANGED <<sav, queues, sent>>
    BY <1>4 DEF Receive, frontier, vars, tables, indexing
  <2>2. Ended(c)'
    BY <1>1, <1>4, <2>1, CountReply DEF Ended
  <2>3. cr'[c].pc \in {"done", "navigate"}
    BY <1>0, <1>4 DEF Receive
  <2>4. ~Mailed(c, End)'
    <3>1. /\ Len(cbq) + Len(dlv[c]) + Len(chan[c]) <= 1
          /\ Len(cbq) \in Nat /\ Len(dlv[c]) \in Nat /\ Len(chan[c]) \in Nat
      BY TokenTypes DEF TokenInv
    <3>2. Len(chan[c]) # 0
      BY <1>0, <2>1, EmptySeq
    <3>7. \A k, m, n \in Nat : k + m + n <= 1 /\ n # 0 => k = 0 /\ m = 0
      OBVIOUS
    <3>3. Len(cbq) = 0 /\ Len(dlv[c]) = 0
      BY <3>1, <3>2, <3>7
    <3>4. cbq = <<>> /\ dlv[c] = <<>>
      BY <1>0, <3>3, EmptySeq
    <3>5. cbq' = <<>> /\ dlv'[c] = <<>> /\ chan'[c] = <<>>
      BY <1>4, <3>4 DEF Receive, frontier, vars, replies, SystemTypeOK,
                        CrawlTypeOK
    <3>6. ~Names(<<>>, End)
      BY NamesOf
    <3> QED
      BY <3>5, <3>6 DEF Mailed
  <2> QED
    BY <2>1, <2>2, <2>3, <2>4 DEF AtEnd, Ended, SavingAny
<1>5. CASE DeliverLen \/ Listen(c) \/ (\E j \in Jobs : Admit(j))
           \/ UNCHANGED sysvars
  <2>1. UNCHANGED <<sav, queues, sent, cbq, dlv, chan>> /\ cr'[c] = cr[c]
    BY <1>0, <1>1, <1>5
    DEF DeliverLen, TakeLen, Listen, Admit, sysvars, crawling, frontier, vars,
        tables, replies, indexing
  <2> QED
    BY <2>1 DEF AtEnd, Mailed, SavingAny
<1>6. ~(\/ Start(c) \/ ConsumeLen(c) \/ ForceDequeue(c) \/ Navigate(c)
        \/ ExtractLinks(c) \/ IndexPage(c) \/ PublishLinks(c)
        \/ NavigateFails(c))
  BY <1>1 DEF Start, ConsumeLen, ForceDequeue, Navigate, ExtractLinks, IndexPage,
              PublishLinks, NavigateFails
<1>7. ~\E p \in SaveSlots : SaveStep(p)
  BY DEF SavingAny, SaveStep, SelectSite, SelectRoot, InsertPage, InsertSite,
         InsertFirst
<1> QED
  BY <1>2, <1>3, <1>4, <1>5, <1>6, <1>7 DEF Proceeds, CrawlerStep, LoopStep

\* A page is dropped only when the crawl is over.
LEMMA DropsAtEnd ==
    ASSUME SystemTypeOK, NEW c \in Crawlers, TokenInv(c), SaveInv(c),
           CountInv(c), BegunFirst(c), Undisturbed, Proceeds(c),
           NEW p \in SaveSlots, Drops(p)
    PROVE  /\ AtEnd(c)' /\ ~SavingAny' /\ ~queues'[Root(c)].live
           /\ sent' = sent
           /\ \A q \in SaveSlots : Drops(q) => q = p
<1>0. /\ sav \in [SaveSlots -> Saver]
      /\ sav[p].pc = "select_queue" /\ sav[p].known
      /\ sav' = [sav EXCEPT ![p] = NotSaving]
      /\ ~queues[sav[p].msg.seed].live
  BY DEF Drops, SelectRoot, SystemTypeOK, SaveTypeOK
<1>1. /\ sav[p].msg.seed = Root(c) /\ cr[c].pc # "index"
      /\ \A q \in SaveSlots \ {p} : sav[q].pc = "idle"
  BY <1>0 DEF SaveInv, SaverPlace
<1>2. sav'[p].pc = "idle" /\ ~SavingAny'
  BY <1>0, <1>1 DEF NotSaving, SavingAny
<1>3. \A q \in SaveSlots : Drops(q) => q = p
  BY <1>1 DEF Drops, SelectRoot
<1>4. UNCHANGED <<frontier, crawling>>
  <2>1. sav' # sav
    BY <1>0, <1>2
  <2>2. ~IndexPage(c)
    BY <1>1 DEF IndexPage
  <2> QED
    BY <2>1, <2>2
    DEF Proceeds, indexing, DeliverReply, DeliverLen, Start, CrawlerStep,
        LoopStep, ConsumeLen, ForceDequeue, Receive, Navigate, ExtractLinks,
        Listen, Forward, PublishLinks, NavigateFails, Admit, sysvars
<1>5. UNCHANGED <<queues, cr, dlv, chan, cbq, sent>>
  BY <1>4 DEF frontier, vars, tables, replies, crawling
<1>6. Ended(c)
  <2>1. QueueBegun(c)
    BY <1>0 DEF BegunFirst, KnowsSite
  <2>2. queues[Root(c)].id \in Nat
    BY CrawlAssumption, StoreAssumption
    DEF Root, SystemTypeOK, TypeOK, StoreTypeOK, QueueRow
  <2> QED
    BY <1>0, <1>1, <2>1, <2>2
    DEF CountInv, QueueCounted, Undisturbed, QueueBegun
<1>7. Mailed(c, End) => cr[c].pc = "receive"
  <2>1. ~Names(<<>>, End)
    BY NamesOf
  <2> QED
    BY <1>1, <2>1 DEF Mailed, NoMail, TokenInv
<1>8. AtEnd(c)'
  BY <1>5, <1>6, <1>7 DEF Ended, AtEnd, Mailed
<1> QED
  BY <1>0, <1>1, <1>2, <1>3, <1>5, <1>8

\* Only a crawler that is at a page publishes its text.
LEMMA SentMove ==
    ASSUME NEW c \in Crawlers, Crawlers = {c}, [SystemNext]_sysvars
    PROVE  sent' = sent \/ (IndexPage(c) /\ sent' = sent \cup {cr[c].url})
<1>1. ASSUME NEW s \in Slots, DatabaseStep(s) PROVE sent' = sent
  BY <1>1 DEF DatabaseStep, LoseVolatile, crawling
<1>2. ASSUME NEW p \in SaveSlots, IndexingStep(p) PROVE sent' = sent
  BY <1>2 DEF IndexingStep, LoseVolatile, crawling
<1>3. CASE DeliverReply \/ DeliverLen \/ Start(c)
  BY <1>3 DEF DeliverReply, DeliverLen, Start
<1>4. CASE ConsumeLen(c) \/ ForceDequeue(c) \/ Receive(c) \/ Navigate(c)
           \/ ExtractLinks(c)
  BY <1>4 DEF ConsumeLen, ForceDequeue, Receive, Navigate, ExtractLinks
<1>5. CASE IndexPage(c)
  BY <1>5 DEF IndexPage
<1>6. CASE Listen(c) \/ Forward(c) \/ PublishLinks(c)
  BY <1>6 DEF Listen, Forward, PublishLinks
<1>7. CASE NavigateFails(c) \/ Panic(c)
  BY <1>7 DEF NavigateFails, Panic, LoseVolatile
<1>8. CASE SystemCrash \/ SystemRestart
  BY <1>8 DEF SystemCrash, SystemRestart, LoseVolatile, crawling
<1>9. CASE (\E j \in Jobs : Admit(j)) \/ Finished \/ UNCHANGED sysvars
  BY <1>9 DEF Admit, Finished, sysvars, crawling
<1> QED
  BY <1>1, <1>2, <1>3, <1>4, <1>5, <1>6, <1>7, <1>8, <1>9
  DEF SystemNext, CrawlerStep, LoopStep

\* A page that was sent stays with a handler, and then in the table, unless a
\* handler drops it.
LEMMA StaysStored ==
    ASSUME SystemTypeOK, PageInv, NEW c \in Crawlers, Crawlers = {c},
           SaveInv(c), [SystemNext]_sysvars, Proceeds(c),
           NEW u \in sent', u \in Urls, Gone(u)'
    PROVE  \/ u \in sent /\ Gone(u)
           \/ \E p \in SaveSlots : Drops(p) /\ sav[p].msg.url = u
<1>0. sent' = sent \/ (IndexPage(c) /\ sent' = sent \cup {cr[c].url})
  BY SentMove
<1>1. ASSUME NEW p \in SaveSlots, SaveStep(p), UNCHANGED <<frontier, crawling>>
      PROVE  \/ u \in sent /\ Gone(u)
             \/ Drops(p) /\ sav[p].msg.url = u
  <2>1. u \in sent
    BY <1>1 DEF crawling
  <2> QED
    BY <1>1, <2>1, SavesOrDrops DEF Gone
<1>2. CASE IndexPage(c)
  <2>1. PICK p \in SaveSlots :
           Save(p, [seed |-> Root(c), url |-> cr[c].url, from |-> wd[Job[c]]])
    BY <1>2 DEF IndexPage
  <2>2. /\ sav' = [sav EXCEPT ![p] =
                    [pc |-> "select_site", known |-> FALSE,
                     msg |-> [seed |-> Root(c), url |-> cr[c].url,
                              from |-> wd[Job[c]]]]]
        /\ sav[p].pc = "idle" /\ UNCHANGED <<sites, webpages>>
    BY <2>1 DEF Save
  <2>3. sav'[p].pc = "select_site" /\ sav'[p].msg.url = cr[c].url
    BY <2>2 DEF SystemTypeOK, SaveTypeOK
  <2>4. \A q \in SaveSlots \ {p} : sav'[q] = sav[q]
    BY <2>2 DEF SystemTypeOK, SaveTypeOK
  <2>5. InSave(u) => InSave(u)'
    BY <2>2, <2>4 DEF InSave
  <2>6. u = cr[c].url => InSave(u)'
    BY <2>3 DEF InSave
  <2>7. u \in sent /\ u # cr[c].url
    BY <1>0, <2>6 DEF Gone
  <2> QED
    BY <2>2, <2>5, <2>7 DEF Gone, Stored
<1>3. CASE UNCHANGED <<sav, webpages>> /\ ~IndexPage(c)
  BY <1>0, <1>3 DEF Gone, Stored, InSave
<1>4. CASE /\ ~IndexPage(c)
           /\ ~\E p \in SaveSlots : SaveStep(p) /\ UNCHANGED <<frontier, crawling>>
  <2>1. UNCHANGED <<sav, webpages>>
    BY <1>4
    DEF Proceeds, indexing, DeliverReply, DeliverLen, Start, CrawlerStep,
        LoopStep, ConsumeLen, ForceDequeue, Receive, Navigate, ExtractLinks,
        Listen, Forward, PublishLinks, NavigateFails, Admit, sysvars, frontier
  <2> QED
    BY <1>3, <1>4, <2>1
<1> QED
  BY <1>1, <1>2, <1>4

LEMMA DropStep ==
    ASSUME SystemTypeOK, PageInv, NEW c \in Crawlers, Crawlers = {c},
           TokenInv(c), HostInv(c), SaveInv(c), CountInv(c), DropInv(c),
           [SystemNext]_sysvars
    PROVE  DropInv(c)'
<1>0. cr[c].url \in UrlsOf(Root(c)) /\ sent \subseteq Urls
  BY DEF HostInv, DropInv, UrlsOf
<1>1. sent' = sent \/ (IndexPage(c) /\ sent' = sent \cup {cr[c].url})
  BY SentMove
<1>2. (sent \subseteq UrlsOf(Root(c)))'
  BY <1>0, <1>1 DEF DropInv
<1>3. ASSUME Undisturbed' PROVE BegunFirst(c)' /\ LastDropped(c)'
  <2>1. Undisturbed /\ Proceeds(c) /\ BegunFirst(c) /\ LastDropped(c)
    BY <1>3, UndisturbedProceeds DEF DropInv
  <2>2. BegunFirst(c)'
    BY <2>1, BegunStep
  <2>3. \A u \in sent' : Gone(u)' =>
           \/ u \in sent /\ Gone(u)
           \/ \E p \in SaveSlots : Drops(p) /\ sav[p].msg.url = u
    <3>1. \A u \in sent' : u \in Urls
      BY <1>2 DEF UrlsOf
    <3> QED
      BY <2>1, <3>1, StaysStored
  <2>4. CASE \E w \in sent : Gone(w)
    <3>1. ~queues[Root(c)].live /\ AtEnd(c) /\ ~SavingAny
      BY <2>1, <2>4 DEF LastDropped
    <3>2. /\ AtEnd(c)' /\ ~SavingAny' /\ ~queues'[Root(c)].live
          /\ sent' = sent
      BY <2>1, <3>1, EndStays
    <3>3. \A p \in SaveSlots : ~Drops(p)
      BY <3>1 DEF SavingAny, Drops, SelectRoot
    <3>4. \A u \in sent : Gone(u)' => Gone(u)
      BY <2>3, <3>2, <3>3
    <3> QED
      BY <2>1, <2>2, <3>2, <3>4 DEF LastDropped
  <2>5. CASE \A w \in sent : ~Gone(w)
    <3>2. \A u \in sent' : Gone(u)' =>
             \E p \in SaveSlots : Drops(p) /\ sav[p].msg.url = u
      BY <2>3, <2>5
    <3>3. ASSUME NEW p \in SaveSlots, Drops(p)
          PROVE  /\ AtEnd(c)' /\ ~SavingAny' /\ ~queues'[Root(c)].live
                 /\ \A q \in SaveSlots : Drops(q) => q = p
      BY <2>1, <3>3, DropsAtEnd
    <3> QED
      BY <2>2, <3>2, <3>3 DEF LastDropped
  <2> QED
    BY <2>4, <2>5
<1> QED
  BY <1>2, <1>3 DEF DropInv

LEMMA DropAlways ==
    ASSUME NEW c \in Crawlers, Crawlers = {c}
    PROVE  SystemSpec => []DropInv(c)
<1>3. SystemInit => DropInv(c)
  <2> SUFFICES ASSUME SystemInit PROVE DropInv(c)
    OBVIOUS
  <2>1. /\ ~queues[Root(c)].live /\ sites = {} /\ sent = {}
        /\ \A p \in SaveSlots : sav[p].pc = "idle"
        /\ \A s \in Slots : hnd[s].pc = "idle"
        /\ cr[c].pc = "new" /\ cbq = <<>> /\ dlv[c] = <<>> /\ chan[c] = <<>>
    <3>1. Root(c) \in Hosts /\ Idle.pc = "idle"
      BY CrawlAssumption, StoreAssumption DEF Root, Idle, Handling
    <3> QED
      BY <3>1
      DEF SystemInit, Init, StoreInit, IndexingInit, NotSaving, CrawlInit,
          Volatile
  <2>2. \A u : ~Mailed(c, u)
    <3> SUFFICES ASSUME NEW u PROVE ~Mailed(c, u)
      OBVIOUS
    <3>1. ~Names(<<>>, u)
      BY NamesOf
    <3> QED
      BY <2>1, <3>1 DEF Mailed
  <2>3. BegunFirst(c)
    BY <2>1, <2>2 DEF BegunFirst, SavingAny, AtSomePage, TookUp, KnowsSite
  <2> QED
    BY <2>1, <2>3 DEF DropInv, LastDropped
<1>4. /\ SystemTypeOK /\ PageInv /\ TokenInv(c) /\ HostInv(c) /\ SaveInv(c)
      /\ CountInv(c) /\ DropInv(c) /\ [SystemNext]_sysvars
      => DropInv(c)'
  BY DropStep
<1> QED
  BY <1>3, <1>4, SystemTypeCorrect, PageAlways, TokenAlways, OneCrawlerAlways,
     PTL DEF SystemSpec

\* Until something stops the system saveWebpage throws away at most one page
\* of the site, and only once its queue is gone (database.ts, saveWebpage).
THEOREM NoPageDroppedEarly ==
    ASSUME NEW c \in Crawlers, Crawlers = {c}
    PROVE  SystemSpec => []OnlyLastPageDropped
<1>1. ASSUME DropInv(c) PROVE OnlyLastPageDropped
  <2>0. SUFFICES ASSUME Undisturbed
                 PROVE  \A h \in Hosts :
                           LET D == Dropped \cap UrlsOf(h) IN
                           Cardinality(D) <= 1 /\ (D # {} => ~queues[h].live)
    BY DEF OnlyLastPageDropped
  <2>1. Dropped \subseteq {u \in sent : Gone(u)}
    BY DEF Dropped, Gone
  <2>2. \A u, v \in Dropped : u = v
    BY <1>1, <2>0, <2>1 DEF DropInv, LastDropped
  <2>3. \A u \in Dropped : HostOf[u] = Root(c) /\ ~queues[Root(c)].live
    BY <1>1, <2>0, <2>1 DEF DropInv, LastDropped, UrlsOf
  <2> SUFFICES ASSUME NEW h \in Hosts
               PROVE  LET D == Dropped \cap UrlsOf(h) IN
                      Cardinality(D) <= 1 /\ (D # {} => ~queues[h].live)
    OBVIOUS
  <2>4. CASE Dropped \cap UrlsOf(h) = {}
    BY <2>4, FS_EmptySet
  <2>5. ASSUME NEW u \in Dropped \cap UrlsOf(h)
        PROVE  /\ Cardinality(Dropped \cap UrlsOf(h)) <= 1
               /\ ~queues[h].live
    <3>1. Dropped \cap UrlsOf(h) = {u}
      BY <2>2, <2>5
    <3>2. Cardinality({u}) = 1
      BY FS_Singleton
    <3>3. ~queues[h].live
      BY <2>3, <2>5 DEF UrlsOf
    <3> QED
      BY <3>1, <3>2, <3>3
  <2> QED
    BY <2>4, <2>5
<1> QED
  BY <1>1, DropAlways, PTL
=============================================================================
