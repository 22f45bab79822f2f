--------------------------- MODULE SearchPipeline ---------------------------
(***************************************************************************)
(* A search: GET /search in the express server asks the search engine,     *)
(* which asks the database service for every webpage, ranks them and sends *)
(* the result back.  Both answers come in numbered segments.               *)
(*                                                                         *)
(* The engine works on one query at a time, but publishes a result in a    *)
(* goroutine while it goes on with the next.  Segments carry no name of    *)
(* their query.  The express server writes them to one CircularBuffer that *)
(* all searches in progress read.                                          *)
(*                                                                         *)
(* At least one page has been stored.  The engine's lists of bytes and the *)
(* ranking itself are abstracted to numbers of segments.                   *)
(***************************************************************************)
EXTENDS CircularBuffer, Sequences, FiniteSets

CONSTANTS
    Requests,   \* the searches; a search stands for its query as well
    None,
    DbSegs,     \* segments of the database service's answer
    Segs,       \* Segs[r]: segments of the ranked answer to r
    Prefetch    \* CMLTV_ACK: deliveries a channel may leave unacknowledged

Segment == [for : Requests, seq : Nat, total : Nat]

ASSUME SearchAssumption ==
    /\ None \notin Requests
    /\ Null \notin Segment
    /\ DbSegs \in Nat \ {0}
    /\ Segs \in [Requests -> Nat \ {0}]
    /\ Prefetch \in Nat \ {0}

VARIABLES
    \* The express server
    req,          \* req[r]: the handler of GET /search for r
    turn,         \* the search whose microtasks the event loop is running
    circleBuffer,
    unacked,      \* deliveries of searchIngressChannel not acknowledged
    \* Queues of the broker
    query_queue,  \* es_se_query_queue
    query_cbq,    \* es_se_query_cbq
    db_queue,     \* se_db_request_queue
    db_cbq,       \* se_db_request_cbq
    \* The search engine
    engine,       \* the loop of main and its DatabaseResponseHandler
    published,    \* published[r]: segments of r's answer that were sent, all
                  \* of them as long as no goroutine is sending any
    \* History
    overlapped,   \* has a search been started while another was in progress?
    dropped       \* requests of the engine that the database service dropped

express == <<req, turn, circleBuffer, unacked>>
broker  == <<query_queue, query_cbq, db_queue, db_cbq>>
vars    == <<express, broker, engine, published, overlapped, dropped>>

\* Mutated form of CreateSegments: the total counts one segment too many.
CreateSegmentsOver(r, n) ==
    [i \in 1..n |-> [for |-> r, seq |-> i - 1, total |-> n + 1]]

\* createSegments: segments 0 to n - 1, each with the number of all of them.
CreateSegments(r, n) ==
    [i \in 1..n |-> [for |-> r, seq |-> i - 1, total |-> n]]

Ranking == {r \in Requests : published[r] < Segs[r]}
InProgress == {r \in Requests : req[r].pc = "listening"}

Init ==
    /\ req = [r \in Requests |-> [pc |-> "new", got |-> <<>>]]
    /\ turn = None
    /\ circleBuffer = NewBuffer
    /\ unacked = <<>>
    /\ query_queue = <<>> /\ query_cbq = <<>>
    /\ db_queue = <<>> /\ db_cbq = <<>>
    /\ engine = [pc |-> "ready", query |-> None, received |-> 0]
    /\ published = Segs
    /\ overlapped = FALSE
    /\ dropped = {}

----------------------------------------------------------------------------
(* The express server: GET /search, listenIncomingSegments,                *)
(* SegmentGenerator.  A search that finds the buffer empty waits for       *)
(* another turn of the event loop; one that does not reads on, with no     *)
(* turn in between, until it has its answer or the buffer is empty.        *)

\* The query is published, and what the buffer holds is read at once.
Search(r) ==
    /\ turn = None
    /\ req[r].pc = "new"
    /\ query_queue' = Append(query_queue, r)
    /\ req' = [req EXCEPT ![r].pc = "listening"]
    /\ turn' = IF InUse(circleBuffer) THEN r ELSE None
    /\ overlapped' = (overlapped \/ InProgress # {})
    /\ UNCHANGED <<circleBuffer, unacked, query_cbq, db_queue, db_cbq,
                   engine, published, dropped>>

\* setImmediate has called the generator back.
Wake(r) ==
    /\ turn = None
    /\ req[r].pc = "listening"
    /\ InUse(circleBuffer)
    /\ turn' = r
    /\ UNCHANGED <<req, circleBuffer, unacked, broker, engine, published,
                   overlapped, dropped>>

\* The consumer callback of es_se_query_cbq.
Deliver ==
    /\ turn = None
    /\ query_cbq # <<>>
    /\ Len(unacked) < Prefetch
    /\ query_cbq' = Tail(query_cbq)
    /\ unacked' = Append(unacked, Head(query_cbq))
    /\ circleBuffer' = Written(circleBuffer, Head(query_cbq))
    /\ UNCHANGED <<req, turn, query_queue, db_queue, db_cbq, engine,
                   published, overlapped, dropped>>

\* The search takes m, goes on reading while there is something to read, and
\* otherwise gives up its turn.
Accept(r, m) ==
    /\ req' = [req EXCEPT ![r].got = Append(@, m)]
    /\ turn' = IF InUse(circleBuffer') THEN r ELSE None

\* The last segment.
Answered(r, m) ==
    /\ req' = [req EXCEPT ![r] = [pc |-> "answered", got |-> Append(@.got, m)]]
    /\ turn' = None

Fail(r) ==
    /\ req' = [req EXCEPT ![r].pc = "failed"]
    /\ turn' = None

\* Mutated form of AckAll: nothing is acknowledged.
AckAllNot == UNCHANGED <<unacked, query_cbq>>

\* ackAll() acknowledges every delivery of the channel, nackAll(true) puts them
\* back at the head of the queue: whichever search they were for.
AckAll == unacked' = <<>> /\ UNCHANGED query_cbq

NackAll == query_cbq' = unacked \o query_cbq /\ unacked' = <<>>

Read(r) ==
    LET m == ToRead(circleBuffer)
        n == Len(req[r].got)
    IN
    /\ turn = r
    /\ circleBuffer' = AfterRead(circleBuffer)
    /\ \/ /\ m # Null /\ m.seq = n /\ n + 1 # m.total
          /\ Accept(r, m)
          /\ UNCHANGED <<unacked, query_cbq>>
       \/ /\ m # Null /\ m.seq = n /\ n + 1 = m.total
          /\ Answered(r, m)
          /\ AckAll
       \/ /\ m # Null /\ m.seq # n
          /\ Fail(r)
          /\ NackAll
       \/ /\ m = Null                       \* TypeError on m.err
          /\ Fail(r)
          /\ UNCHANGED <<unacked, query_cbq>>
    /\ UNCHANGED <<query_queue, db_queue, db_cbq, engine, published,
                   overlapped, dropped>>

----------------------------------------------------------------------------
(* The search engine: main, DatabaseResponseHandler, PublishScoreRanking   *)

\* Mutated forms of TakeQuery: one serializer counts on over all queries; the
\* queries delivered so far are taken as one.
TakeQueryCounting ==
    /\ engine.pc = "ready"
    /\ query_queue # <<>>
    /\ engine' = [engine EXCEPT !.pc = "reading",
                                !.query = Head(query_queue)]
    /\ query_queue' = Tail(query_queue)
    /\ db_queue' = Append(db_queue, Head(query_queue))
    /\ UNCHANGED <<express, query_cbq, db_cbq, published, overlapped, dropped>>

TakeQueries ==
    /\ engine.pc = "ready"
    /\ query_queue # <<>>
    /\ engine' = [pc |-> "reading", query |-> Head(query_queue),
                  received |-> 0]
    /\ query_queue' = <<>>
    /\ db_queue' = Append(db_queue, Head(query_queue))
    /\ UNCHANGED <<express, query_cbq, db_cbq, published, overlapped, dropped>>

TakeQuery ==
    /\ engine.pc = "ready"
    /\ query_queue # <<>>
    /\ engine' = [pc |-> "reading", query |-> Head(query_queue),
                  received |-> 0]
    /\ query_queue' = Tail(query_queue)
    /\ db_queue' = Append(db_queue, Head(query_queue))
    /\ UNCHANGED <<express, query_cbq, db_cbq, published, overlapped, dropped>>

\* HandleIncomingSegments.  A segment out of sequence ends the process.
HandleSegment ==
    LET m == Head(db_cbq) IN
    /\ engine.pc = "reading"
    /\ db_cbq # <<>>
    /\ engine.received < Prefetch           \* acknowledged at the end only
    /\ db_cbq' = Tail(db_cbq)
    /\ engine' = IF m.seq # engine.received
                   THEN [engine EXCEPT !.pc = "panicked"]
                   ELSE [engine EXCEPT !.received = @ + 1,
                                       !.pc = IF m.seq + 1 = m.total
                                                THEN "ranking" ELSE @]
    /\ UNCHANGED <<express, query_queue, query_cbq, db_queue, published,
                   overlapped, dropped>>

\* The result is handed to a goroutine that publishes it.
Rank ==
    /\ engine.pc = "ranking"
    /\ published' = [published EXCEPT ![engine.query] = 0]
    /\ engine' = [engine EXCEPT !.pc = "ready"]
    /\ UNCHANGED <<express, broker, overlapped, dropped>>

PublishScoreRanking(r) ==
    /\ r \in Ranking
    /\ query_cbq' = Append(query_cbq,
                           CreateSegments(r, Segs[r])[published[r] + 1])
    /\ published' = [published EXCEPT ![r] = @ + 1]
    /\ UNCHANGED <<express, query_queue, db_queue, db_cbq, engine, overlapped,
                   dropped>>

----------------------------------------------------------------------------
(* The database service: SearchEngineHandler *)

\* All segments are published without an await in between.
AnswerDb ==
    /\ db_queue # <<>>
    /\ db_queue' = Tail(db_queue)
    /\ db_cbq' = db_cbq \o CreateSegments(Head(db_queue), DbSegs)
    /\ UNCHANGED <<express, query_queue, query_cbq, engine, published,
                   overlapped, dropped>>

\* A failing query is negatively acknowledged and not answered.
QueryFails ==
    /\ db_queue # <<>>
    /\ db_queue' = Tail(db_queue)
    /\ dropped' = dropped \cup {Head(db_queue)}
    /\ UNCHANGED <<express, query_queue, query_cbq, db_cbq, engine, published,
                   overlapped>>

----------------------------------------------------------------------------

ExpressStep(r) == Wake(r) \/ Read(r)
EngineStep == TakeQuery \/ HandleSegment \/ Rank

Next ==
    \/ \E r \in Requests :
          Search(r) \/ ExpressStep(r) \/ PublishScoreRanking(r)
    \/ Deliver \/ EngineStep \/ AnswerDb \/ QueryFails

Spec == Init /\ [][Next]_vars

\* Every process goes on; nobody must search and no query must fail.
FairSpec ==
    /\ Spec
    /\ \A r \in Requests : /\ WF_vars(ExpressStep(r))
                           /\ WF_vars(PublishScoreRanking(r))
    /\ WF_vars(Deliver) /\ WF_vars(EngineStep)
    /\ WF_vars(AnswerDb \/ QueryFails)

----------------------------------------------------------------------------
(* Properties *)

\* Answers fit in the windows of unacknowledged deliveries (CMLTV_ACK, 1000) and
\* in the buffer, which is smaller (new CircularBuffer(100)): nothing else in the
\* code keeps an answer of more segments from overwriting its own.
Fits == /\ DbSegs <= Prefetch
        /\ \A r \in Requests : Segs[r] <= Prefetch /\ Segs[r] <= Capacity

\* A search that was answered got all segments of the answer to its query and
\* no others, although nothing in a segment says so (express-server,
\* listenIncomingSegments): unless searches have overlapped.
OwnAnswer ==
    ~overlapped /\ Fits =>
       \A r \in Requests :
          /\ req[r].pc = "answered" => req[r].got = CreateSegments(r, Segs[r])
          /\ req[r].pc # "failed"

\* A search leaves nothing behind that the next one would take for its own
\* answer: no segment in any queue, none in the buffer, none to be requeued,
\* and the two indices of the buffer meet.
NothingLeftOver ==
    ~overlapped /\ Fits /\ InProgress = {} =>
       /\ query_queue = <<>> /\ query_cbq = <<>> /\ unacked = <<>>
       /\ ~InUse(circleBuffer)
       /\ circleBuffer.readIndex = circleBuffer.writeIndex
       /\ Ranking = {} /\ engine.pc = "ready"

\* "every read set previously read index as null, so when write comes across a
\* null value, it can write into it" (circular_buffer.ts:9): no segment that
\* was not read is overwritten, unless searches have overlapped or an answer has
\* more segments than the buffer has slots.
OnlyNullOverwritten ==
    [][~overlapped /\ Fits =>
         \A i \in Indices :
            circleBuffer.queue[i] # Null =>
               circleBuffer'.queue[i] \in {Null, circleBuffer.queue[i]}]_vars

\* However searches overlap, the engine never sees segments of two answers of
\* the database service mixed up, at which it would panic
\* (segment_serializer.go:67).
EngineNeverPanics == engine.pc # "panicked"

\* A search ends, unless the database service dropped a request, after which
\* the engine waits for its answer for ever.
SearchEnds ==
    Fits => \A r \in Requests :
       req[r].pc = "listening" ~>
          req[r].pc # "listening" \/ overlapped \/ dropped # {}

\* However searches overlap, the engine ranks every query it is sent: what
\* goes wrong in the express server does not reach it.
EveryQueryRanked ==
    Fits => \A r \in Requests :
       (\E i \in 1..Len(query_queue) : query_queue[i] = r) ~>
          \/ engine.pc = "ranking" /\ engine.query = r
          \/ dropped # {}
=============================================================================
