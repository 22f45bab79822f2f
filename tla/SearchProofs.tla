---------------------------- MODULE SearchProofs ----------------------------
(***************************************************************************)
(* Theorems about SearchPipeline, for every set of searches, every number  *)
(* of segments, every size of the buffer and of the window of              *)
(* unacknowledged deliveries.                                              *)
(***************************************************************************)
EXTENDS SearchPipeline, SequenceTheorems, TLAPS

----------------------------------------------------------------------------
(* Type correctness *)

Buffer == [queue      : [Indices -> Segment \cup {Null}],
           readIndex  : Indices,
           writeIndex : Indices]

ExpressTypeOK ==
    /\ req \in [Requests -> [pc  : {"new", "listening", "answered", "failed"},
                             got : Seq(Segment)]]
    /\ turn \in Requests \cup {None}
    /\ circleBuffer \in Buffer
    /\ unacked \in Seq(Segment)

BrokerTypeOK ==
    /\ query_queue \in Seq(Requests) /\ db_queue \in Seq(Requests)
    /\ query_cbq \in Seq(Segment) /\ db_cbq \in Seq(Segment)

EngineTypeOK ==
    /\ engine \in [pc       : {"ready", "reading", "ranking", "panicked"},
                   query    : Requests \cup {None},
                   received : Nat]
    /\ published \in [Requests -> Nat]
    /\ overlapped \in BOOLEAN

PipelineTypeOK == ExpressTypeOK /\ BrokerTypeOK /\ EngineTypeOK

LEMMA Segmented ==
    ASSUME NEW r \in Requests, NEW n \in Nat
    PROVE  /\ CreateSegments(r, n) \in Seq(Segment)
           /\ Len(CreateSegments(r, n)) = n
           /\ \A i \in 1..n : CreateSegments(r, n)[i]
                                 = [for |-> r, seq |-> i - 1, total |-> n]
<1>1. \A i \in 1..n : [for |-> r, seq |-> i - 1, total |-> n] \in Segment
  BY DEF Segment
<1> QED
  BY <1>1 DEF CreateSegments

LEMMA BufferType ==
    ASSUME NEW b \in Buffer, NEW m \in Segment
    PROVE  /\ NewBuffer \in Buffer
           /\ ToRead(b) \in Segment \cup {Null}
           /\ AfterRead(b) \in Buffer
           /\ Written(b, m) \in Buffer
<1>1. \A x \in Indices : (x + 1) % Capacity \in Indices
  BY CapacityAssumption DEF Indices
<1>2. 0 \in Indices
  BY CapacityAssumption DEF Indices
<1> QED
  BY <1>1, <1>2 DEF Buffer, NewBuffer, ToRead, AfterRead, Written

LEMMA InitPipelineType == Init => PipelineTypeOK
<1> SUFFICES ASSUME Init PROVE PipelineTypeOK
  OBVIOUS
<1>1. NewBuffer \in Buffer
  BY CapacityAssumption DEF NewBuffer, Buffer, Indices
<1>2. ExpressTypeOK
  BY <1>1 DEF Init, ExpressTypeOK
<1>3. BrokerTypeOK
  BY DEF Init, BrokerTypeOK
<1>4. EngineTypeOK
  <2>1. Segs \in [Requests -> Nat]
    BY SearchAssumption
  <2> QED
    BY <2>1 DEF Init, EngineTypeOK
<1> QED
  BY <1>2, <1>3, <1>4 DEF PipelineTypeOK

\* The type of a step that leaves two of the three processes alone.
LEMMA TypeKept ==
    ASSUME PipelineTypeOK
    PROVE  /\ UNCHANGED express => ExpressTypeOK'
           /\ UNCHANGED broker => BrokerTypeOK'
           /\ UNCHANGED <<engine, published, overlapped>> => EngineTypeOK'
BY DEF PipelineTypeOK, express, broker, ExpressTypeOK, BrokerTypeOK,
       EngineTypeOK

\* A search takes its turn on the buffer.
LEMMA ReadType ==
    ASSUME PipelineTypeOK, NEW r \in Requests, Read(r)
    PROVE  PipelineTypeOK'
<1> DEFINE m == ToRead(circleBuffer)
           Row == [pc  : {"new", "listening", "answered", "failed"},
                   got : Seq(Segment)]
<1>0. /\ req \in [Requests -> Row] /\ req[r] \in Row /\ circleBuffer \in Buffer
      /\ unacked \in Seq(Segment) /\ query_cbq \in Seq(Segment)
      /\ turn = r
  BY DEF PipelineTypeOK, ExpressTypeOK, BrokerTypeOK, Read
<1>1. m \in Segment \cup {Null} /\ AfterRead(circleBuffer) \in Buffer
  <2>1. [for |-> r, seq |-> 0, total |-> 0] \in Segment
    BY DEF Segment
  <2> QED
    BY <1>0, <2>1, BufferType
<1> HIDE DEF m
<1>2. unacked \o query_cbq \in Seq(Segment)
  BY <1>0, ConcatProperties
<1>3. \/ Accept(r, m) /\ m # Null
      \/ Answered(r, m) /\ m # Null
      \/ Fail(r)
  BY DEF Read, m
<1>4. \E f \in Row : req' = [req EXCEPT ![r] = f]
  <2>1. m # Null => Append(req[r].got, m) \in Seq(Segment)
    BY <1>0, <1>1
  <2>2. CASE Accept(r, m) /\ m # Null
    <3>1. [req[r] EXCEPT !.got = Append(@, m)] \in Row
      BY <1>0, <2>1, <2>2
    <3> QED
      BY <2>2, <3>1 DEF Accept
  <2>3. CASE Answered(r, m) /\ m # Null
    BY <2>1, <2>3 DEF Answered
  <2>4. CASE Fail(r)
    <3>1. [req[r] EXCEPT !.pc = "failed"] \in Row
      BY <1>0
    <3> QED
      BY <2>4, <3>1 DEF Fail
  <2> QED
    BY <1>3, <2>2, <2>3, <2>4
<1>5. req' \in [Requests -> Row]
  BY <1>0, <1>4
<1>6. turn' \in Requests \cup {None}
  BY <1>3 DEF Accept, Answered, Fail
<1>7. unacked' \in Seq(Segment) /\ query_cbq' \in Seq(Segment)
  <2>1. UNCHANGED <<unacked, query_cbq>> \/ AckAll \/ NackAll
    BY DEF Read
  <2>2. CASE NackAll
    BY <1>2, <2>2, EmptySeq DEF NackAll
  <2>3. CASE AckAll
    BY <1>0, <2>3, EmptySeq DEF AckAll
  <2> QED
    BY <1>0, <2>1, <2>2, <2>3
<1>8. /\ circleBuffer' = AfterRead(circleBuffer)
      /\ UNCHANGED <<query_queue, db_queue, db_cbq, engine, published,
                     overlapped>>
  BY DEF Read
<1>9. ExpressTypeOK'
  BY <1>1, <1>5, <1>6, <1>7, <1>8 DEF ExpressTypeOK
<1>10. BrokerTypeOK'
  BY <1>7, <1>8 DEF BrokerTypeOK, PipelineTypeOK
<1> QED
  BY <1>8, <1>9, <1>10, TypeKept DEF PipelineTypeOK

LEMMA ExpressType ==
    ASSUME PipelineTypeOK,
           (\E r \in Requests : Search(r) \/ Wake(r)) \/ Deliver
    PROVE  PipelineTypeOK'
<1>1. ASSUME NEW r \in Requests, Search(r) PROVE PipelineTypeOK'
  <2>1. req' = [req EXCEPT ![r] = [req[r] EXCEPT !.pc = "listening"]]
    BY <1>1 DEF Search
  <2>2. ExpressTypeOK'
    BY <1>1, <2>1 DEF PipelineTypeOK, ExpressTypeOK, Search
  <2>3. BrokerTypeOK'
    BY <1>1 DEF PipelineTypeOK, BrokerTypeOK, Search
  <2>4. engine' = engine /\ published' = published
    BY <1>1 DEF Search
  <2>5. overlapped' \in BOOLEAN
    BY <1>1, Zenon DEF Search
  <2> QED
    BY <2>2, <2>3, <2>4, <2>5 DEF PipelineTypeOK, EngineTypeOK
<1>2. ASSUME NEW r \in Requests, Wake(r) PROVE PipelineTypeOK'
  <2>1. ExpressTypeOK'
    BY <1>2 DEF Wake, PipelineTypeOK, ExpressTypeOK
  <2> QED
    BY <1>2, <2>1, TypeKept DEF Wake, PipelineTypeOK
<1>3. CASE Deliver
  <2>1. Head(query_cbq) \in Segment /\ Tail(query_cbq) \in Seq(Segment)
    BY <1>3, HeadTailProperties DEF Deliver, PipelineTypeOK, BrokerTypeOK
  <2>2. Written(circleBuffer, Head(query_cbq)) \in Buffer
    BY <2>1, BufferType DEF PipelineTypeOK, ExpressTypeOK
  <2>3. ExpressTypeOK'
    BY <1>3, <2>1, <2>2 DEF Deliver, PipelineTypeOK, ExpressTypeOK
  <2>4. BrokerTypeOK'
    BY <1>3, <2>1 DEF Deliver, PipelineTypeOK, BrokerTypeOK
  <2> QED
    BY <1>3, <2>3, <2>4, TypeKept DEF Deliver, PipelineTypeOK
<1> QED
  BY <1>1, <1>2, <1>3

LEMMA EngineType ==
    ASSUME PipelineTypeOK, EngineStep
    PROVE  PipelineTypeOK'
<1>1. CASE TakeQuery
  <2>1. Head(query_queue) \in Requests /\ Tail(query_queue) \in Seq(Requests)
    BY <1>1, HeadTailProperties DEF TakeQuery, PipelineTypeOK, BrokerTypeOK
  <2>2. BrokerTypeOK'
    BY <1>1, <2>1 DEF TakeQuery, PipelineTypeOK, BrokerTypeOK
  <2>3. EngineTypeOK'
    BY <1>1, <2>1 DEF TakeQuery, PipelineTypeOK, EngineTypeOK
  <2> QED
    BY <1>1, <2>2, <2>3, TypeKept DEF TakeQuery, PipelineTypeOK
<1>2. CASE HandleSegment
  <2>1. Tail(db_cbq) \in Seq(Segment)
    BY <1>2, HeadTailProperties DEF HandleSegment, PipelineTypeOK, BrokerTypeOK
  <2>2. BrokerTypeOK'
    BY <1>2, <2>1 DEF HandleSegment, PipelineTypeOK, BrokerTypeOK
  <2>3. engine \in [pc       : {"ready", "reading", "ranking", "panicked"},
                    query    : Requests \cup {None},
                    received : Nat]
    BY DEF PipelineTypeOK, EngineTypeOK
  <2>a. \/ engine' = [engine EXCEPT !.pc = "panicked"]
        \/ \E p \in {"ranking", "reading"} :
              engine' = [pc |-> p, query |-> engine.query,
                         received |-> engine.received + 1]
    BY <1>2, <2>3 DEF HandleSegment
  <2>4. published' = published /\ overlapped' = overlapped
    BY <1>2 DEF HandleSegment
  <2>5. engine' \in [pc       : {"ready", "reading", "ranking", "panicked"},
                     query    : Requests \cup {None},
                     received : Nat]
    BY <2>3, <2>a
  <2>6. EngineTypeOK'
    BY <2>4, <2>5 DEF PipelineTypeOK, EngineTypeOK
  <2> QED
    BY <1>2, <2>2, <2>6, TypeKept DEF HandleSegment, PipelineTypeOK
<1>3. CASE Rank
  <2>1. EngineTypeOK'
    BY <1>3 DEF Rank, PipelineTypeOK, EngineTypeOK
  <2> QED
    BY <1>3, <2>1, TypeKept DEF Rank, PipelineTypeOK
<1> QED
  BY <1>1, <1>2, <1>3 DEF EngineStep

LEMMA AnswerType ==
    ASSUME PipelineTypeOK,
           (\E r \in Requests : PublishScoreRanking(r)) \/ AnswerDb \/ QueryFails
    PROVE  PipelineTypeOK'
<1>1. ASSUME NEW r \in Requests, PublishScoreRanking(r) PROVE PipelineTypeOK'
  <2>1. published \in [Requests -> Nat] /\ published[r] < Segs[r]
    BY <1>1 DEF PublishScoreRanking, Ranking, PipelineTypeOK, EngineTypeOK
  <2>2. Segs[r] \in Nat /\ published[r] + 1 \in 1..Segs[r]
    BY <2>1, SearchAssumption
  <2>3. CreateSegments(r, Segs[r])[published[r] + 1] \in Segment
    BY <2>2, Segmented
  <2>4. BrokerTypeOK'
    BY <1>1, <2>3 DEF PublishScoreRanking, PipelineTypeOK, BrokerTypeOK
  <2>5. EngineTypeOK'
    BY <1>1, <2>1 DEF PublishScoreRanking, PipelineTypeOK, EngineTypeOK
  <2> QED
    BY <1>1, <2>4, <2>5, TypeKept DEF PublishScoreRanking, PipelineTypeOK
<1>2. CASE AnswerDb
  <2>1. Head(db_queue) \in Requests /\ Tail(db_queue) \in Seq(Requests)
    BY <1>2, HeadTailProperties DEF AnswerDb, PipelineTypeOK, BrokerTypeOK
  <2>2. CreateSegments(Head(db_queue), DbSegs) \in Seq(Segment)
    BY <2>1, Segmented, SearchAssumption
  <2>3. db_cbq \o CreateSegments(Head(db_queue), DbSegs) \in Seq(Segment)
    BY <2>2, ConcatProperties DEF PipelineTypeOK, BrokerTypeOK
  <2>4. BrokerTypeOK'
    BY <1>2, <2>1, <2>3 DEF AnswerDb, PipelineTypeOK, BrokerTypeOK
  <2> QED
    BY <1>2, <2>4, TypeKept DEF AnswerDb, PipelineTypeOK
<1>3. CASE QueryFails
  <2>1. Tail(db_queue) \in Seq(Requests)
    BY <1>3, HeadTailProperties DEF QueryFails, PipelineTypeOK, BrokerTypeOK
  <2>2. BrokerTypeOK'
    BY <1>3, <2>1 DEF QueryFails, PipelineTypeOK, BrokerTypeOK
  <2> QED
    BY <1>3, <2>2, TypeKept DEF QueryFails, PipelineTypeOK
<1> QED
  BY <1>1, <1>2, <1>3

LEMMA PipelineTypeStep == PipelineTypeOK /\ [Next]_vars => PipelineTypeOK'
<1> SUFFICES ASSUME PipelineTypeOK, [Next]_vars PROVE PipelineTypeOK'
  OBVIOUS
<1>1. CASE UNCHANGED vars
  BY <1>1, TypeKept DEF vars, PipelineTypeOK
<1>2. CASE Next
  BY <1>2, ReadType, ExpressType, EngineType, AnswerType
  DEF Next, ExpressStep
<1> QED
  BY <1>1, <1>2

\* Every variable of the pipeline keeps its type, however searches overlap.
THEOREM PipelineTypeCorrect == Spec => []PipelineTypeOK
BY InitPipelineType, PipelineTypeStep, PTL DEF Spec

----------------------------------------------------------------------------
(* The engine and the database service.  The engine asks only once it has  *)
(* the whole answer to the query before, so what is under way between the  *)
(* two is a suffix of one answer.                                          *)

\* Nothing is under way, the request is, or the rest of its answer.
Exchange ==
    \/ db_queue = <<>> /\ db_cbq = <<>>
    \/ /\ engine.pc = "reading" /\ engine.received = 0
       /\ Len(db_queue) = 1 /\ db_cbq = <<>>
    \/ /\ engine.pc = "reading"
       /\ db_queue = <<>>
       /\ Len(db_cbq) + engine.received = DbSegs
       /\ \A i \in 1..Len(db_cbq) :
             /\ db_cbq[i].seq + 1 = engine.received + i
             /\ db_cbq[i].total = DbSegs

EngineInv ==
    /\ PipelineTypeOK
    /\ Exchange
    /\ engine.pc # "panicked"

LEMMA EngineInvInit == Init => EngineInv
BY InitPipelineType DEF Init, EngineInv, Exchange

LEMMA EngineInvStep == EngineInv /\ [Next]_vars => EngineInv'
<1> SUFFICES ASSUME EngineInv, [Next]_vars PROVE EngineInv'
  OBVIOUS
<1>0. PipelineTypeOK /\ PipelineTypeOK'
  BY PipelineTypeStep DEF EngineInv
<1>t. /\ db_queue \in Seq(Requests) /\ db_cbq \in Seq(Segment)
      /\ engine \in [pc       : {"ready", "reading", "ranking", "panicked"},
                     query    : Requests \cup {None},
                     received : Nat]
  BY <1>0 DEF PipelineTypeOK, BrokerTypeOK, EngineTypeOK
<1> SUFFICES Exchange' /\ engine'.pc # "panicked"
  BY <1>0 DEF EngineInv
<1>e. Exchange /\ engine.pc # "panicked"
  BY DEF EngineInv
<1>1. CASE UNCHANGED <<engine, db_queue, db_cbq>>
  BY <1>e, <1>1 DEF Exchange
<1>2. CASE TakeQuery
  <2>1. db_queue = <<>> /\ db_cbq = <<>>
    BY <1>e, <1>2 DEF TakeQuery, Exchange
  <2>2. /\ engine'.pc = "reading" /\ engine'.received = 0
        /\ db_queue' = Append(db_queue, Head(query_queue)) /\ db_cbq' = <<>>
    BY <1>2, <2>1 DEF TakeQuery
  <2>3. Len(db_queue') = 1
    BY <2>1, <2>2
  <2> QED
    BY <2>2, <2>3 DEF Exchange
<1>3. CASE HandleSegment
  <2>1. /\ engine.pc = "reading" /\ db_cbq # <<>> /\ db_cbq' = Tail(db_cbq)
        /\ db_queue' = db_queue
    BY <1>3 DEF HandleSegment
  <2>2. /\ db_queue = <<>> /\ Len(db_cbq) + engine.received = DbSegs
        /\ \A i \in 1..Len(db_cbq) :
              /\ db_cbq[i].seq + 1 = engine.received + i
              /\ db_cbq[i].total = DbSegs
    BY <1>e, <2>1 DEF Exchange
  <2>3. /\ Len(db_cbq) \in Nat /\ Len(db_cbq) >= 1
        /\ Head(db_cbq) = db_cbq[1] /\ db_cbq[1] \in Segment
        /\ Len(db_cbq') \in Nat /\ Len(db_cbq') + 1 = Len(db_cbq)
        /\ \A i \in 1..Len(db_cbq') : db_cbq'[i] = db_cbq[i + 1]
    BY <1>t, <2>1, HeadTailProperties
  <2>4. Head(db_cbq).seq = engine.received /\ Head(db_cbq).total = DbSegs
    BY <1>t, <2>2, <2>3 DEF Segment
  <2>5. /\ engine'.received = engine.received + 1
        /\ engine'.pc = IF engine.received + 1 = DbSegs THEN "ranking"
                                                        ELSE "reading"
    BY <1>3, <1>t, <2>4 DEF HandleSegment
  <2>6. CASE Len(db_cbq') = 0
    <3>1. db_cbq' = <<>>
      BY <1>0, <2>6, EmptySeq DEF PipelineTypeOK, BrokerTypeOK
    <3> QED
      BY <2>1, <2>2, <2>5, <3>1 DEF Exchange
  <2>7. CASE Len(db_cbq') # 0
    <3>0. engine.received \in Nat /\ DbSegs \in Nat
      BY <1>t, SearchAssumption
    <3>1. engine'.pc = "reading" /\ Len(db_cbq') + engine'.received = DbSegs
      <4>1. Len(db_cbq) = Len(db_cbq') + 1 /\ Len(db_cbq') \in Nat
        BY <2>3
      <4>2. (Len(db_cbq') + 1) + engine.received = DbSegs
        BY <2>2, <4>1
      <4>3. \A l, g, d \in Nat : (l + 1) + g = d /\ l # 0 =>
               l + (g + 1) = d /\ g + 1 # d
        OBVIOUS
      <4>4. /\ Len(db_cbq') + (engine.received + 1) = DbSegs
            /\ engine.received + 1 # DbSegs
        BY <2>7, <3>0, <4>1, <4>2, <4>3
      <4> QED
        BY <2>5, <4>4
    <3>2. ASSUME NEW i \in 1..Len(db_cbq')
          PROVE  /\ db_cbq'[i].seq + 1 = engine'.received + i
                 /\ db_cbq'[i].total = DbSegs
      <4>1. i + 1 \in 1..Len(db_cbq) /\ i \in Nat
        BY <2>3
      <4>2. db_cbq'[i] = db_cbq[i + 1]
        BY <2>3
      <4>3. /\ db_cbq[i + 1].seq + 1 = engine.received + (i + 1)
            /\ db_cbq[i + 1].total = DbSegs
        BY <2>2, <4>1
      <4>4. engine.received + (i + 1) = engine'.received + i
        BY <2>5, <3>0, <4>1
      <4> QED
        BY <4>2, <4>3, <4>4
    <3> QED
      BY <2>1, <2>2, <3>1, <3>2 DEF Exchange
  <2> QED
    BY <2>6, <2>7
<1>4. CASE Rank
  BY <1>e, <1>t, <1>4 DEF Rank, broker, Exchange
<1>5. CASE AnswerDb
  <2> DEFINE answer == CreateSegments(Head(db_queue), DbSegs)
  <2>1. /\ engine.pc = "reading" /\ engine.received = 0 /\ Len(db_queue) = 1
        /\ db_cbq = <<>>
    BY <1>e, <1>5 DEF AnswerDb, Exchange
  <2>2. Head(db_queue) \in Requests /\ Len(Tail(db_queue)) = 0
           /\ Tail(db_queue) \in Seq(Requests)
    BY <1>t, <1>5, <2>1, HeadTailProperties DEF AnswerDb
  <2>3. db_queue' = <<>> /\ engine' = engine
    BY <1>5, <2>2, EmptySeq DEF AnswerDb
  <2>4. /\ answer \in Seq(Segment) /\ Len(answer) = DbSegs
        /\ \A i \in 1..DbSegs : answer[i].seq = i - 1 /\ answer[i].total = DbSegs
    <3>1. PICK r \in Requests : r = Head(db_queue)
      BY <2>2
    <3>2. /\ CreateSegments(r, DbSegs) \in Seq(Segment)
          /\ Len(CreateSegments(r, DbSegs)) = DbSegs
          /\ \A i \in 1..DbSegs : CreateSegments(r, DbSegs)[i]
                                     = [for |-> r, seq |-> i - 1, total |-> DbSegs]
      BY Segmented, SearchAssumption
    <3>3. \A i \in 1..DbSegs : /\ CreateSegments(r, DbSegs)[i].seq = i - 1
                              /\ CreateSegments(r, DbSegs)[i].total = DbSegs
      BY <3>2
    <3> QED
      BY <3>1, <3>2, <3>3
  <2>5. db_cbq' = answer
    <3>1. db_cbq' = <<>> \o answer
      BY <1>5, <2>1 DEF AnswerDb
    <3> HIDE DEF answer
    <3> QED
      BY <2>4, <3>1, ConcatEmptySeq
  <2> HIDE DEF answer
  <2>6. \A i \in 1..DbSegs : answer[i].seq + 1 = 0 + i /\ answer[i].total = DbSegs
    BY <2>4, SearchAssumption
  <2>7. Len(answer) + 0 = DbSegs
    BY <2>4, SearchAssumption
  <2> QED
    BY <1>e, <2>1, <2>3, <2>4, <2>5, <2>6, <2>7 DEF Exchange
<1>6. CASE QueryFails
  <2>1. Len(db_queue) = 1 /\ db_cbq = <<>>
    BY <1>e, <1>6 DEF QueryFails, Exchange
  <2>2. Len(Tail(db_queue)) = 0 /\ Tail(db_queue) \in Seq(Requests)
    BY <1>t, <1>6, <2>1, HeadTailProperties DEF QueryFails
  <2>3. db_queue' = <<>> /\ db_cbq' = <<>> /\ engine' = engine
    BY <1>6, <2>1, <2>2, EmptySeq DEF QueryFails
  <2> QED
    BY <1>e, <2>3 DEF Exchange
<1>7. CASE Deliver
  BY <1>1, <1>7 DEF Deliver
<1>8. ASSUME NEW r \in Requests,
             Search(r) \/ Wake(r) \/ Read(r) \/ PublishScoreRanking(r)
      PROVE  Exchange' /\ engine'.pc # "panicked"
  BY <1>1, <1>8 DEF Search, Wake, Read, PublishScoreRanking, broker
<1>9. CASE UNCHANGED vars
  BY <1>1, <1>9 DEF vars, broker
<1> QED
  BY <1>2, <1>3, <1>4, <1>5, <1>6, <1>7, <1>8, <1>9
  DEF Next, ExpressStep, EngineStep

\* However searches overlap, and although a query may never be answered, the
\* engine receives the segments of one answer of the database service in
\* sequence and does not panic (segment_serializer.go:67).
THEOREM EngineKeepsGoing == Spec => []EngineNeverPanics
<1>1. EngineInv => EngineNeverPanics
  BY DEF EngineInv, EngineNeverPanics
<1> QED
  BY <1>1, EngineInvInit, EngineInvStep, PTL DEF Spec

----------------------------------------------------------------------------
(* The buffer as a queue.  The n segments of the answer to r that come     *)
(* after the first d are those between the two indices.                    *)

Seg(r, i) == [for |-> r, seq |-> i - 1, total |-> Segs[r]]

Plus(i, n) == IF i + n < Capacity THEN i + n ELSE i + n - Capacity

\* The distance of slot i from the read index.
Offset(b, i) == IF b.readIndex <= i THEN i - b.readIndex
                                    ELSE i - b.readIndex + Capacity

Holds(b, r, d, n) ==
    /\ n <= Capacity
    /\ b.writeIndex = Plus(b.readIndex, n)
    /\ \A i \in Indices :
          b.queue[i] = IF Offset(b, i) < n THEN Seg(r, d + 1 + Offset(b, i))
                                           ELSE Null

LEMMA Successor ==
    ASSUME NEW i \in Indices
    PROVE  (i + 1) % Capacity = Plus(i, 1)
BY CapacityAssumption DEF Indices, Plus

LEMMA SegType == ASSUME NEW r \in Requests, NEW i \in Nat \ {0}
                 PROVE  Seg(r, i) \in Segment /\ Seg(r, i) # Null
<1>1. Segs[r] \in Nat /\ i - 1 \in Nat
  BY SearchAssumption
<1> QED
  BY <1>1, SearchAssumption DEF Seg, Segment

\* A segment that is written takes an empty slot and comes last.
LEMMA WriteHolds ==
    ASSUME NEW b \in Buffer, NEW r \in Requests, NEW d \in Nat, NEW n \in Nat,
           Holds(b, r, d, n), n < Capacity
    PROVE  /\ b.queue[b.writeIndex] = Null
           /\ Holds(Written(b, Seg(r, d + n + 1)), r, d, n + 1)
<1> DEFINE w == Written(b, Seg(r, d + n + 1))
<1>0. /\ Capacity \in Nat \ {0}
      /\ b.readIndex \in 0..(Capacity - 1) /\ b.writeIndex \in 0..(Capacity - 1)
      /\ b.writeIndex = Plus(b.readIndex, n)
      /\ \A i \in Indices : Offset(b, i) \in Nat
  BY CapacityAssumption DEF Buffer, Indices, Holds, Offset
<1>1. Offset(b, b.writeIndex) = n
  BY <1>0 DEF Offset, Plus
<1>2. \A i \in Indices : Offset(b, i) = n => i = b.writeIndex
  BY <1>0 DEF Offset, Plus, Indices
<1>3. /\ w.queue = [b.queue EXCEPT ![b.writeIndex] = Seg(r, d + n + 1)]
      /\ w.readIndex = b.readIndex
      /\ w.writeIndex = Plus(b.writeIndex, 1)
  BY Successor DEF Buffer, Written
<1> HIDE DEF w
<1>4. w.writeIndex = Plus(b.readIndex, n + 1)
  BY <1>0, <1>3 DEF Plus
<1>5. \A i \in Indices : Offset(w, i) = Offset(b, i)
  BY <1>3 DEF Offset
<1>6. ASSUME NEW i \in Indices
      PROVE  w.queue[i] = IF Offset(w, i) < n + 1
                            THEN Seg(r, d + 1 + Offset(w, i)) ELSE Null
  <2>1. b.queue \in [Indices -> Segment \cup {Null}] /\ b.writeIndex \in Indices
    BY DEF Buffer
  <2>2. CASE i = b.writeIndex
    <3>1. d + n + 1 = d + 1 + Offset(b, i) /\ Offset(w, i) < n + 1
      BY <1>1, <1>5, <2>2
    <3> QED
      BY <1>3, <1>5, <2>1, <2>2, <3>1
  <2>3. CASE i # b.writeIndex
    <3>1. w.queue[i] = b.queue[i]
      BY <1>3, <2>1, <2>3
    <3>2. Offset(b, i) < n <=> Offset(b, i) < n + 1
      BY <1>0, <1>2, <2>3
    <3> QED
      BY <1>5, <3>1, <3>2 DEF Holds
  <2> QED
    BY <2>2, <2>3
<1>7. b.queue[b.writeIndex] = Null
  BY <1>0, <1>1 DEF Holds, Indices
<1>8. n + 1 <= Capacity
  BY <1>0
<1> QED
  BY <1>3, <1>4, <1>6, <1>7, <1>8 DEF Holds, w

\* The read index is at the segment that comes first.
LEMMA ReadHolds ==
    ASSUME NEW b \in Buffer, NEW r \in Requests, NEW d \in Nat,
           NEW n \in Nat \ {0}, Holds(b, r, d, n)
    PROVE  ToRead(b) = Seg(r, d + 1) /\ Holds(AfterRead(b), r, d + 1, n - 1)
<1> DEFINE a == AfterRead(b)
<1>0. /\ Capacity \in Nat \ {0} /\ n <= Capacity
      /\ b.readIndex \in 0..(Capacity - 1)
      /\ \A i \in Indices : Offset(b, i) \in 0..(Capacity - 1)
  BY CapacityAssumption DEF Buffer, Indices, Holds, Offset
<1>1. Offset(b, b.readIndex) = 0 /\ b.readIndex \in Indices
  BY <1>0 DEF Offset, Indices
<1>2. ToRead(b) = Seg(r, d + 1)
  <2>1. d + 1 + Offset(b, b.readIndex) = d + 1 /\ Offset(b, b.readIndex) < n
    BY <1>1
  <2> QED
    BY <1>1, <2>1 DEF Holds, ToRead
<1>3. /\ a.queue = [b.queue EXCEPT ![b.readIndex] = Null]
      /\ a.readIndex = Plus(b.readIndex, 1)
      /\ a.writeIndex = b.writeIndex
  BY Successor DEF Buffer, AfterRead
<1> HIDE DEF a
<1>4. a.writeIndex = Plus(a.readIndex, n - 1)
  BY <1>0, <1>3 DEF Holds, Plus
<1>5. ASSUME NEW i \in Indices
      PROVE  a.queue[i] = IF Offset(a, i) < n - 1
                            THEN Seg(r, d + 1 + 1 + Offset(a, i)) ELSE Null
  <2>1. b.queue \in [Indices -> Segment \cup {Null}]
    BY DEF Buffer
  <2>2. CASE i = b.readIndex
    <3>1. Offset(a, i) = Capacity - 1
      BY <1>0, <1>3, <2>2 DEF Offset, Plus
    <3>2. ~(Offset(a, i) < n - 1)
      BY <1>0, <3>1
    <3> QED
      BY <1>3, <2>1, <2>2, <3>2
  <2>3. CASE i # b.readIndex
    <3>1. a.queue[i] = b.queue[i]
      BY <1>3, <2>1, <2>3
    <3>2. Offset(a, i) + 1 = Offset(b, i)
      <4>1. CASE b.readIndex + 1 < Capacity
        <5>1. a.readIndex = b.readIndex + 1
          BY <1>3, <4>1 DEF Plus
        <5>2. i \in Int /\ b.readIndex \in Int /\ Capacity \in Int
          BY <1>0 DEF Indices
        <5>3. a.readIndex <= i <=> b.readIndex <= i
          BY <2>3, <5>1, <5>2
        <5> QED
          BY <5>1, <5>2, <5>3 DEF Offset
      <4>2. CASE ~(b.readIndex + 1 < Capacity)
        <5>1. a.readIndex = 0 /\ b.readIndex = Capacity - 1
          BY <1>0, <1>3, <4>2 DEF Plus
        <5> QED
          BY <1>0, <2>3, <5>1 DEF Offset, Indices
      <4> QED
        BY <4>1, <4>2
    <3>3. Offset(a, i) \in Int
      BY <1>0, <1>3 DEF Offset, Plus, Indices
    <3>4. /\ Offset(a, i) < n - 1 <=> Offset(b, i) < n
          /\ d + 1 + 1 + Offset(a, i) = d + 1 + Offset(b, i)
      BY <3>2, <3>3
    <3> QED
      BY <3>1, <3>4 DEF Holds
  <2> QED
    BY <2>2, <2>3
<1>6. n - 1 <= Capacity
  BY <1>0
<1> QED
  BY <1>2, <1>4, <1>5, <1>6 DEF Holds, a

\* A search finds something to read exactly when the buffer holds something.
LEMMA InUseHolds ==
    ASSUME NEW b \in Buffer, NEW r \in Requests, NEW d \in Nat, NEW n \in Nat,
           Holds(b, r, d, n)
    PROVE  /\ InUse(b) <=> n > 0
           /\ n = 0 => /\ \A i \in Indices : b.queue[i] = Null
                       /\ b.readIndex = b.writeIndex
<1>1. \A i \in Indices : Offset(b, i) \in Nat
  BY CapacityAssumption DEF Buffer, Indices, Offset
<1>2. CASE n = 0
  <2>1. \A i \in Indices : b.queue[i] = Null
    BY <1>1, <1>2 DEF Holds
  <2>2. b.readIndex = b.writeIndex
    BY <1>2, CapacityAssumption DEF Holds, Plus, Buffer, Indices
  <2> QED
    BY <1>2, <2>1, <2>2 DEF InUse
<1>3. CASE n # 0
  <2>1. ToRead(b) = Seg(r, d + 1) /\ Seg(r, d + 1) # Null
    BY <1>3, ReadHolds, SegType
  <2>2. b.readIndex \in Indices
    BY DEF Buffer
  <2> QED
    BY <1>3, <2>1, <2>2 DEF InUse, ToRead
<1> QED
  BY <1>2, <1>3

\* An empty buffer holds nothing of any answer.
LEMMA EmptyHolds ==
    ASSUME NEW b \in Buffer, NEW r \in Requests,
           \A i \in Indices : b.queue[i] = Null, b.readIndex = b.writeIndex
    PROVE  Holds(b, r, 0, 0)
<1>1. \A i \in Indices : ~(Offset(b, i) < 0)
  BY CapacityAssumption DEF Buffer, Indices, Offset
<1>2. b.writeIndex = Plus(b.readIndex, 0)
  BY CapacityAssumption DEF Buffer, Indices, Plus
<1> QED
  BY <1>1, <1>2, CapacityAssumption DEF Holds

----------------------------------------------------------------------------
(* As long as searches do not overlap, and answers fit, everything under   *)
(* way is a part of the answer to the one search in progress.              *)

\* What has been sent of an answer, and is not acknowledged.
Sent == Len(unacked) + Len(query_cbq)

\* The query is in its queue, the engine works on it, or publishes its answer.
Asked(r) ==
    \/ /\ query_queue = <<r>> /\ engine.pc = "ready"
       /\ Sent = 0 /\ published = Segs
    \/ /\ query_queue = <<>> /\ engine.pc \in {"reading", "ranking"}
       /\ engine.query = r
       /\ Sent = 0 /\ published = Segs
    \/ /\ query_queue = <<>> /\ engine.pc = "ready"
       /\ Sent = published[r] /\ published[r] <= Segs[r]
       /\ \A q \in Requests \ {r} : published[q] = Segs[q]

\* Its segments are, in this order: read, in the buffer, in the queue.
Underway(r) ==
    /\ Len(req[r].got) <= Len(unacked)
    /\ \A i \in 1..Len(unacked) : unacked[i] = Seg(r, i)
    /\ \A i \in 1..Len(query_cbq) : query_cbq[i] = Seg(r, Len(unacked) + i)
    /\ Holds(circleBuffer, r, Len(req[r].got),
             Len(unacked) - Len(req[r].got))
    /\ turn = r => Len(req[r].got) < Len(unacked)

Handled(r) ==
    \/ req[r].pc = "new" /\ req[r].got = <<>>
    \/ /\ req[r].pc = "listening"
       /\ Len(req[r].got) < Segs[r]
       /\ \A i \in 1..Len(req[r].got) : req[r].got[i] = Seg(r, i)
    \/ req[r].pc = "answered" /\ req[r].got = CreateSegments(r, Segs[r])

\* Nothing is under way.
Quiet ==
    /\ query_queue = <<>> /\ query_cbq = <<>> /\ unacked = <<>>
    /\ \A i \in Indices : circleBuffer.queue[i] = Null
    /\ circleBuffer.readIndex = circleBuffer.writeIndex
    /\ published = Segs /\ engine.pc = "ready"

\* One search is in progress.
Busy(r) ==
    /\ InProgress = {r} /\ turn \in {r, None}
    /\ Asked(r) /\ Underway(r)

Calm ==
    /\ \A r \in Requests : Handled(r)
    /\ \/ InProgress = {} /\ turn = None /\ Quiet
       \/ \E r \in Requests : Busy(r)

CalmInv == EngineInv /\ (~overlapped /\ Fits => Calm)

LEMMA CalmInit == Init => Calm
<1> SUFFICES ASSUME Init PROVE Calm
  OBVIOUS
<1>1. InProgress = {} /\ \A r \in Requests : Handled(r)
  BY DEF Init, InProgress, Handled
<1>2. turn = None /\ Quiet
  BY CapacityAssumption DEF Init, Quiet, NewBuffer, Indices
<1> QED
  BY <1>1, <1>2 DEF Calm

\* What of the types the steps need.
LEMMA CalmTypes ==
    ASSUME PipelineTypeOK
    PROVE  /\ circleBuffer \in Buffer
           /\ unacked \in Seq(Segment) /\ query_cbq \in Seq(Segment)
           /\ Len(unacked) \in Nat /\ Len(query_cbq) \in Nat
           /\ query_queue \in Seq(Requests)
           /\ engine \in [pc       : {"ready", "reading", "ranking", "panicked"},
                          query    : Requests \cup {None},
                          received : Nat]
           /\ published \in [Requests -> Nat]
           /\ Segs \in [Requests -> Nat \ {0}]
           /\ req \in [Requests -> [pc  : {"new", "listening", "answered", "failed"},
                                    got : Seq(Segment)]]
           /\ \A r \in Requests : Len(req[r].got) \in Nat /\ Segs[r] \in Nat \ {0}
BY SearchAssumption
DEF PipelineTypeOK, ExpressTypeOK, BrokerTypeOK, EngineTypeOK

\* A step of the engine leaves what the express server has alone.
LEMMA EngineFrame ==
    ASSUME UNCHANGED <<express, query_cbq>>, NEW r \in Requests, Busy(r),
           \A q \in Requests : Handled(q), Asked(r)'
    PROVE  Calm'
<1>1. /\ req' = req /\ turn' = turn /\ circleBuffer' = circleBuffer
      /\ unacked' = unacked /\ query_cbq' = query_cbq
  BY DEF express
<1>2. InProgress' = InProgress
  BY <1>1 DEF InProgress
<1>3. Underway(r)'
  BY <1>1 DEF Busy, Underway
<1>4. \A q \in Requests : Handled(q)'
  BY <1>1 DEF Handled
<1> QED
  BY <1>1, <1>2, <1>3, <1>4 DEF Busy, Calm

LEMMA TakeCalm ==
    ASSUME PipelineTypeOK, PipelineTypeOK', Calm, TakeQuery
    PROVE  Calm'
<1>1. PICK r \in Requests : Busy(r)
  BY DEF Calm, Quiet, TakeQuery
<1>2. query_queue = <<r>> /\ Sent = 0 /\ published = Segs
  BY <1>1 DEF Busy, Asked, TakeQuery
<1>3. Head(query_queue) = r /\ Tail(query_queue) = <<>>
  <2>1. query_queue \in Seq(Requests) /\ Len(query_queue) = 1
        /\ query_queue[1] = r
    BY <1>2
  <2>2. Len(Tail(query_queue)) = 0 /\ Tail(query_queue) \in Seq(Requests)
        /\ Head(query_queue) = r
    BY <2>1, HeadTailProperties
  <2> QED
    BY <2>2, EmptySeq
<1>4. /\ query_queue' = <<>> /\ engine'.pc = "reading" /\ engine'.query = r
      /\ published' = published
  BY <1>3 DEF TakeQuery
<1>5. UNCHANGED <<express, query_cbq>>
  BY DEF TakeQuery
<1>6. Asked(r)'
  BY <1>2, <1>4, <1>5 DEF Asked, Sent, express
<1> QED
  BY <1>1, <1>5, <1>6, EngineFrame DEF Calm

LEMMA HandleCalm ==
    ASSUME PipelineTypeOK, PipelineTypeOK', Calm, HandleSegment,
           engine'.pc # "panicked"
    PROVE  Calm'
<1>1. PICK r \in Requests : Busy(r)
  BY DEF Calm, Quiet, HandleSegment
<1>2. /\ query_queue = <<>> /\ engine.query = r /\ Sent = 0
      /\ published = Segs
  BY <1>1 DEF Busy, Asked, HandleSegment
<1>3. engine'.query = r /\ engine'.pc \in {"reading", "ranking"}
  BY <1>2, CalmTypes DEF HandleSegment
<1>4. UNCHANGED <<express, query_cbq, query_queue, published>>
  BY DEF HandleSegment
<1>5. Asked(r)'
  BY <1>2, <1>3, <1>4 DEF Asked, Sent, express
<1> QED
  BY <1>1, <1>4, <1>5, EngineFrame DEF Calm

LEMMA RankCalm ==
    ASSUME PipelineTypeOK, PipelineTypeOK', Calm, Rank
    PROVE  Calm'
<1>1. PICK r \in Requests : Busy(r)
  BY DEF Calm, Quiet, Rank
<1>2. /\ query_queue = <<>> /\ engine.query = r /\ Sent = 0
      /\ published = Segs
  BY <1>1 DEF Busy, Asked, Rank
<1>3. engine'.pc = "ready" /\ published' = [Segs EXCEPT ![r] = 0]
  BY <1>2, CalmTypes DEF Rank
<1>4. UNCHANGED <<express, query_cbq, query_queue>>
  BY DEF Rank, broker
<1>5. published'[r] = 0 /\ \A q \in Requests \ {r} : published'[q] = Segs[q]
  BY <1>3, CalmTypes
<1>6. Asked(r)'
  <2>1. 0 <= Segs[r]
    BY CalmTypes
  <2> QED
    BY <1>2, <1>3, <1>4, <1>5, <2>1 DEF Asked, Sent, express
<1> QED
  BY <1>1, <1>4, <1>6, EngineFrame DEF Calm

LEMMA PublishCalm ==
    ASSUME PipelineTypeOK, PipelineTypeOK', Calm,
           NEW q \in Requests, PublishScoreRanking(q)
    PROVE  Calm'
<1> DEFINE k == published[q]
<1>0. /\ k \in Nat /\ k < Segs[q] /\ Segs[q] \in Nat
      /\ published' = [published EXCEPT ![q] = k + 1]
      /\ query_cbq' = Append(query_cbq, CreateSegments(q, Segs[q])[k + 1])
      /\ UNCHANGED <<express, query_queue, engine>>
  BY CalmTypes DEF PublishScoreRanking, Ranking
<1>1. PICK r \in Requests : Busy(r)
  BY <1>0, CalmTypes DEF Calm, Quiet
<1>2. /\ r = q /\ query_queue = <<>> /\ engine.pc = "ready" /\ Sent = k
      /\ \A p \in Requests \ {q} : published[p] = Segs[p]
  <2>1. published[q] # Segs[q]
    BY <1>0, CalmTypes
  <2>2. /\ query_queue = <<>> /\ engine.pc = "ready" /\ Sent = published[r]
        /\ \A p \in Requests \ {r} : published[p] = Segs[p]
    BY <1>1, <2>1 DEF Busy, Asked
  <2>3. r = q
    BY <2>1, <2>2
  <2> QED
    BY <2>2, <2>3
<1>3. CreateSegments(q, Segs[q])[k + 1] = Seg(q, k + 1)
  <2>1. k + 1 \in 1..Segs[q]
    BY <1>0
  <2> QED
    BY <1>0, <2>1, Segmented DEF Seg
<1> HIDE DEF k
<1>4. /\ Len(query_cbq') = Len(query_cbq) + 1
      /\ \A i \in 1..Len(query_cbq) : query_cbq'[i] = query_cbq[i]
      /\ query_cbq'[Len(query_cbq) + 1] = Seg(q, k + 1)
  BY <1>0, <1>3, CalmTypes
<1>5. Asked(q)'
  <2>1. Sent' = k + 1
    BY <1>0, <1>2, <1>4, CalmTypes DEF Sent, express
  <2>2. published'[q] = k + 1 /\ k + 1 <= Segs[q]
    BY <1>0, CalmTypes
  <2>3. \A p \in Requests \ {q} : published'[p] = Segs[p]
    BY <1>0, <1>2, CalmTypes
  <2> QED
    BY <1>0, <1>2, <2>1, <2>2, <2>3 DEF Asked
<1>6. UNCHANGED <<req, turn, circleBuffer, unacked>>
  BY <1>0 DEF express
<1>7. Underway(q)'
  <2>1. Underway(q)
    BY <1>1, <1>2 DEF Busy
  <2>2. ASSUME NEW i \in 1..Len(query_cbq')
        PROVE  query_cbq'[i] = Seg(q, Len(unacked) + i)
    <3>1. CASE i \in 1..Len(query_cbq)
      BY <1>4, <2>1, <3>1 DEF Underway
    <3>2. CASE i = Len(query_cbq) + 1
      <4>1. Len(unacked) + i = k + 1
        BY <1>0, <1>2, <3>2, CalmTypes DEF Sent
      <4> QED
        BY <1>4, <3>2, <4>1
    <3> QED
      BY <1>4, <3>1, <3>2, CalmTypes
  <2> QED
    BY <1>6, <2>1, <2>2 DEF Underway
<1>8. Busy(q)'
  BY <1>1, <1>2, <1>5, <1>6, <1>7 DEF Busy, InProgress
<1>9. \A p \in Requests : Handled(p)'
  BY <1>6 DEF Calm, Handled
<1> QED
  BY <1>8, <1>9 DEF Calm

\* What the database service does concerns the engine only.
LEMMA DatabaseCalm ==
    ASSUME Calm, AnswerDb \/ QueryFails \/ UNCHANGED vars
    PROVE  Calm'
<1>1. UNCHANGED <<express, query_queue, query_cbq, engine, published>>
  BY DEF AnswerDb, QueryFails, vars, broker
<1>2. InProgress' = InProgress /\ (Quiet => Quiet')
  BY <1>1 DEF express, InProgress, Quiet
<1>3. ASSUME NEW r \in Requests
      PROVE  (Handled(r) => Handled(r)') /\ (Busy(r) => Busy(r)')
  BY <1>1, <1>2
  DEF express, Handled, Busy, Asked, Underway, Sent
<1> QED
  BY <1>1, <1>2, <1>3 DEF express, Calm

\* The search that starts finds nothing under way.
LEMMA SearchCalm ==
    ASSUME PipelineTypeOK, Calm, NEW r \in Requests, Search(r), ~overlapped'
    PROVE  Calm'
<1>0. /\ InProgress = {} /\ Quiet /\ req[r].pc = "new"
      /\ req' = [req EXCEPT ![r] = [req[r] EXCEPT !.pc = "listening"]]
      /\ query_queue' = Append(query_queue, r)
      /\ turn' = IF InUse(circleBuffer) THEN r ELSE None
      /\ UNCHANGED <<circleBuffer, unacked, query_cbq, engine, published>>
  BY DEF Search, Calm, Busy
<1>1. req[r].got = <<>>
  BY <1>0 DEF Calm, Handled
<1>2. /\ req'[r].pc = "listening" /\ req'[r].got = <<>>
      /\ \A q \in Requests \ {r} : req'[q] = req[q]
  BY <1>0, <1>1, CalmTypes
<1>3. \A q \in Requests : Handled(q)'
  <2>1. ASSUME NEW q \in Requests \ {r} PROVE Handled(q)'
    BY <1>2 DEF Calm, Handled
  <2>2. Handled(r)'
    BY <1>2, CalmTypes DEF Handled
  <2> QED
    BY <2>1, <2>2
<1>4. InProgress' = {r}
  BY <1>0, <1>2 DEF InProgress
<1>5. turn' = None
  BY <1>0 DEF Quiet, InUse
<1>6. Asked(r)'
  <2>1. query_queue' = <<r>>
    BY <1>0 DEF Quiet
  <2> QED
    BY <1>0, <2>1 DEF Quiet, Asked, Sent
<1>7. Underway(r)'
  <2>1. Holds(circleBuffer, r, 0, 0)
    BY <1>0, CalmTypes, EmptyHolds DEF Quiet
  <2>2. unacked' = <<>> /\ query_cbq' = <<>> /\ circleBuffer' = circleBuffer
    BY <1>0 DEF Quiet
  <2>3. turn' # r
    BY <1>5, SearchAssumption
  <2> QED
    BY <1>2, <2>1, <2>2, <2>3 DEF Underway
<1> QED
  BY <1>3, <1>4, <1>5, <1>6, <1>7 DEF Busy, Calm

LEMMA WakeCalm ==
    ASSUME PipelineTypeOK, Calm, NEW r \in Requests, Wake(r)
    PROVE  Calm'
<1>1. Busy(r)
  BY DEF Wake, Calm, Busy, InProgress
<1>2. UNCHANGED <<req, circleBuffer, unacked, query_queue, query_cbq, engine,
                  published>>
  BY DEF Wake, broker
<1>3. Len(req[r].got) < Len(unacked)
  <2>1. /\ Len(req[r].got) <= Len(unacked)
        /\ Holds(circleBuffer, r, Len(req[r].got),
                 Len(unacked) - Len(req[r].got))
    BY <1>1 DEF Busy, Underway
  <2>2. Len(unacked) - Len(req[r].got) > 0
    BY <2>1, CalmTypes, InUseHolds DEF Wake
  <2> QED
    BY <2>2, CalmTypes
<1>4. Underway(r)'
  BY <1>1, <1>2, <1>3 DEF Busy, Underway
<1>5. Asked(r)' /\ InProgress' = InProgress /\ turn' = r
  BY <1>1, <1>2 DEF Busy, Asked, Sent, InProgress, Wake
<1>6. \A q \in Requests : Handled(q)'
  BY <1>2 DEF Calm, Handled
<1> QED
  BY <1>1, <1>4, <1>5, <1>6 DEF Busy, Calm

\* A delivery comes next in the answer, and the buffer has a slot for it.
LEMMA DeliverCalm ==
    ASSUME PipelineTypeOK, PipelineTypeOK', Calm, Fits, Deliver
    PROVE  Calm' /\ circleBuffer.queue[circleBuffer.writeIndex] = Null
<1>1. PICK r \in Requests : Busy(r)
  BY DEF Deliver, Calm, Quiet
<1> DEFINE d == Len(req[r].got)
           e == Len(unacked)
           m == Head(query_cbq)
<1>0. /\ turn = None /\ query_cbq # <<>>
      /\ query_cbq' = Tail(query_cbq)
      /\ unacked' = Append(unacked, m)
      /\ circleBuffer' = Written(circleBuffer, m)
      /\ UNCHANGED <<req, turn, query_queue, engine, published>>
  BY DEF Deliver
<1>2. /\ d \in Nat /\ e \in Nat /\ d <= e
      /\ \A i \in 1..e : unacked[i] = Seg(r, i)
      /\ \A i \in 1..Len(query_cbq) : query_cbq[i] = Seg(r, e + i)
      /\ Holds(circleBuffer, r, d, e - d)
  BY <1>1, CalmTypes DEF Busy, Underway
<1>3. /\ Len(query_cbq) \in Nat \ {0}
      /\ Len(query_cbq') = Len(query_cbq) - 1
      /\ \A i \in 1..Len(query_cbq') : query_cbq'[i] = query_cbq[i + 1]
      /\ m = query_cbq[1]
  BY <1>0, CalmTypes, HeadTailProperties
<1>4. m = Seg(r, e + 1)
  BY <1>2, <1>3
<1>5. Sent <= Segs[r] /\ Sent = e + Len(query_cbq) /\ Segs[r] <= Capacity
  <2>1. Sent <= Segs[r]
    BY <1>1, CalmTypes DEF Busy, Asked
  <2> QED
    BY <2>1 DEF Sent, Fits
<1>6. /\ circleBuffer.queue[circleBuffer.writeIndex] = Null
      /\ Holds(circleBuffer', r, d, e + 1 - d)
  <2>0. circleBuffer \in Buffer /\ Capacity \in Nat /\ Segs[r] \in Nat
    BY CalmTypes, CapacityAssumption
  <2>1. e - d \in Nat /\ e - d < Capacity
    BY <1>2, <1>3, <1>5, <2>0
  <2>2. d + (e - d) + 1 = e + 1 /\ (e - d) + 1 = e + 1 - d
    BY <1>2
  <2>3. /\ circleBuffer.queue[circleBuffer.writeIndex] = Null
        /\ Holds(Written(circleBuffer, Seg(r, d + (e - d) + 1)), r, d, (e - d) + 1)
    BY <1>2, <2>0, <2>1, WriteHolds
  <2> QED
    BY <1>0, <1>4, <2>2, <2>3
<1>7. /\ m \in Segment /\ Len(unacked') = e + 1 /\ unacked'[e + 1] = m
      /\ \A i \in 1..e : unacked'[i] = unacked[i]
  BY <1>0, CalmTypes, HeadTailProperties
<1> HIDE DEF m
<1>8. Underway(r)'
  <2>1. ASSUME NEW i \in 1..Len(unacked') PROVE unacked'[i] = Seg(r, i)
    BY <1>2, <1>4, <1>7
  <2>2. ASSUME NEW i \in 1..Len(query_cbq')
        PROVE  query_cbq'[i] = Seg(r, Len(unacked') + i)
    <3>1. i + 1 \in 1..Len(query_cbq) /\ e + (i + 1) = Len(unacked') + i
      BY <1>2, <1>3, <1>7
    <3> QED
      BY <1>2, <1>3, <3>1
  <2>3. turn' # r
    BY <1>0, SearchAssumption
  <2>4. /\ req'[r].got = req[r].got /\ d <= Len(unacked')
        /\ Holds(circleBuffer', r, d, Len(unacked') - d)
    <3>1. req' = req
      BY <1>0
    <3>2. d <= Len(unacked')
      BY <1>2, <1>7
    <3>3. Len(unacked') - d = e + 1 - d
      BY <1>7
    <3> QED
      BY <1>6, <3>1, <3>2, <3>3
  <2> QED
    BY <2>1, <2>2, <2>3, <2>4 DEF Underway
<1>9. Sent' = Sent
  BY <1>2, <1>3, <1>7 DEF Sent
<1>10. Asked(r)' /\ InProgress' = InProgress
  BY <1>0, <1>1, <1>9 DEF Busy, Asked, InProgress
<1>11. \A q \in Requests : Handled(q)'
  BY <1>0 DEF Calm, Handled
<1> QED
  BY <1>0, <1>1, <1>6, <1>8, <1>10, <1>11 DEF Busy, Calm

\* A search reads the segment that comes next in its answer; with the last
\* one, nothing is left.
LEMMA ReadCalm ==
    ASSUME PipelineTypeOK, PipelineTypeOK', Calm, NEW r \in Requests, Read(r)
    PROVE  Calm'
<1> DEFINE d == Len(req[r].got)
           e == Len(unacked)
           n == e - (d + 1)
           m == ToRead(circleBuffer)
<1>1. Busy(r)
  BY SearchAssumption DEF Read, Calm, Busy
<1>2. /\ d \in Nat /\ e \in Nat /\ d < e
      /\ Holds(circleBuffer, r, d, e - d)
      /\ Segs[r] \in Nat \ {0} /\ d < Segs[r]
      /\ req[r].pc = "listening"
      /\ \A i \in 1..d : req[r].got[i] = Seg(r, i)
  <2>1. req[r].pc = "listening"
    BY <1>1 DEF Busy, InProgress
  <2> QED
    BY <1>1, <2>1, CalmTypes DEF Read, Busy, Underway, Calm, Handled
<1>3. m = Seg(r, d + 1) /\ Holds(circleBuffer', r, d + 1, n) /\ n \in Nat
  <2>1. e - d \in Nat \ {0} /\ (e - d) - 1 = n /\ n \in Nat
    BY <1>2
  <2>2. /\ ToRead(circleBuffer) = Seg(r, d + 1)
        /\ Holds(AfterRead(circleBuffer), r, d + 1, (e - d) - 1)
    BY <1>2, <2>1, CalmTypes, ReadHolds
  <2> QED
    BY <2>1, <2>2 DEF Read
<1>4. m \in Segment /\ m # Null /\ m.seq = d /\ m.total = Segs[r]
  <2>1. d + 1 \in Nat \ {0} /\ (d + 1) - 1 = d
    BY <1>2
  <2>2. m \in Segment /\ m # Null
    BY <1>3, <2>1, SegType
  <2>3. m = [for |-> r, seq |-> d, total |-> Segs[r]]
    BY <1>3, <2>1 DEF Seg
  <2> QED
    BY <2>2, <2>3
<1>5. /\ \/ /\ d + 1 # Segs[r] /\ Accept(r, m)
            /\ UNCHANGED <<unacked, query_cbq>>
         \/ /\ d + 1 = Segs[r] /\ Answered(r, m) /\ AckAll
      /\ UNCHANGED <<query_queue, engine, published>>
  BY <1>4 DEF Read
<1>6. ASSUME NEW s \in Seq(Segment), s = Append(req[r].got, m)
      PROVE  Len(s) = d + 1 /\ \A i \in 1..(d + 1) : s[i] = Seg(r, i)
  BY <1>2, <1>3, <1>6, CalmTypes
<1>a. Append(req[r].got, m) \in Seq(Segment)
  BY <1>4, CalmTypes
<1>b. (circleBuffer \in Buffer)' /\ (InUse(circleBuffer') <=> n > 0)
      /\ (n = 0 => /\ \A i \in Indices : circleBuffer'.queue[i] = Null
                   /\ circleBuffer'.readIndex = circleBuffer'.writeIndex)
  <2>1. circleBuffer' \in Buffer
    BY DEF PipelineTypeOK, ExpressTypeOK
  <2> QED
    BY <1>2, <1>3, <2>1, InUseHolds
<1> HIDE DEF m
<1>7. CASE d + 1 # Segs[r]
  <2>1. /\ req' = [req EXCEPT ![r] = [req[r] EXCEPT !.got = Append(@, m)]]
        /\ turn' = IF InUse(circleBuffer') THEN r ELSE None
        /\ UNCHANGED <<unacked, query_cbq>>
    BY <1>5, <1>7 DEF Accept
  <2>2. /\ req'[r].pc = "listening" /\ req'[r].got = Append(req[r].got, m)
        /\ \A q \in Requests \ {r} : req'[q] = req[q]
    BY <1>2, <2>1, CalmTypes
  <2>3. Len(req'[r].got) = d + 1
        /\ \A i \in 1..(d + 1) : req'[r].got[i] = Seg(r, i)
    BY <1>6, <1>a, <2>2
  <2>4. Handled(r)'
    BY <1>2, <1>7, <2>2, <2>3 DEF Handled
  <2>5. \A q \in Requests : Handled(q)'
    BY <2>2, <2>4 DEF Calm, Handled
  <2>6. InProgress' = {r}
    BY <1>1, <2>2 DEF Busy, InProgress
  <2>7. Asked(r)'
    BY <1>1, <1>5, <2>1 DEF Busy, Asked, Sent
  <2>8. Underway(r)'
    <3>1. d + 1 <= e
      BY <1>2
    <3>2. turn' = r => d + 1 < e
      BY <1>2, <1>b, <2>1, SearchAssumption
    <3> QED
      BY <1>1, <1>3, <2>1, <2>3, <3>1, <3>2 DEF Busy, Underway
  <2> QED
    BY <2>1, <2>5, <2>6, <2>7, <2>8 DEF Busy, Calm
<1>8. CASE d + 1 = Segs[r]
  <2>1. /\ req' = [req EXCEPT ![r] = [pc |-> "answered", got |-> Append(@.got, m)]]
        /\ turn' = None /\ unacked' = <<>> /\ query_cbq' = query_cbq
    BY <1>5, <1>8 DEF Answered, AckAll
  <2>2. /\ req'[r].pc = "answered" /\ req'[r].got = Append(req[r].got, m)
        /\ \A q \in Requests \ {r} : req'[q] = req[q]
    BY <2>1, CalmTypes
  <2>3. req'[r].got = CreateSegments(r, Segs[r])
    <3>1. /\ req'[r].got \in Seq(Segment) /\ Len(req'[r].got) = Segs[r]
          /\ \A i \in 1..Segs[r] : req'[r].got[i] = Seg(r, i)
      BY <1>6, <1>8, <1>a, <2>2
    <3>2. /\ CreateSegments(r, Segs[r]) \in Seq(Segment)
          /\ Len(CreateSegments(r, Segs[r])) = Segs[r]
          /\ \A i \in 1..Segs[r] : CreateSegments(r, Segs[r])[i] = Seg(r, i)
      BY <1>2, Segmented DEF Seg
    <3> QED
      BY <3>1, <3>2, SeqEqual
  <2>4. \A q \in Requests : Handled(q)'
    BY <2>2, <2>3 DEF Calm, Handled
  <2>5. InProgress' = {}
    BY <1>1, <2>2 DEF Busy, InProgress
  <2>6. /\ Sent = Segs[r] /\ e = Segs[r] /\ Len(query_cbq) = 0
        /\ query_queue = <<>> /\ engine.pc = "ready" /\ Sent = published[r]
        /\ \A q \in Requests \ {r} : published[q] = Segs[q]
    BY <1>1, <1>2, <1>8, CalmTypes DEF Busy, Asked, Sent
  <2>7. published = Segs
    <3>1. \A q \in Requests : published[q] = Segs[q]
      BY <2>6
    <3>2. published \in [Requests -> Nat] /\ Segs \in [Requests -> Nat]
      BY CalmTypes
    <3> QED
      BY <3>1, <3>2
  <2>8. query_cbq = <<>> /\ n = 0
    BY <1>2, <1>8, <2>6, CalmTypes, EmptySeq
  <2>9. Quiet'
    BY <1>5, <1>b, <2>1, <2>6, <2>7, <2>8 DEF Quiet
  <2> QED
    BY <2>1, <2>4, <2>5, <2>9 DEF Calm
<1> QED
  BY <1>7, <1>8

LEMMA CalmStep ==
    ASSUME EngineInv, EngineInv', Calm, Fits, ~overlapped', [Next]_vars
    PROVE  Calm'
<1>0. PipelineTypeOK /\ PipelineTypeOK' /\ engine'.pc # "panicked"
  BY DEF EngineInv
<1>1. ASSUME NEW r \in Requests,
             Search(r) \/ Wake(r) \/ Read(r) \/ PublishScoreRanking(r)
      PROVE  Calm'
  BY <1>0, <1>1, SearchCalm, WakeCalm, ReadCalm, PublishCalm
<1>2. CASE TakeQuery \/ HandleSegment \/ Rank
  BY <1>0, <1>2, TakeCalm, HandleCalm, RankCalm
<1>3. CASE Deliver
  BY <1>0, <1>3, DeliverCalm
<1>4. CASE AnswerDb \/ QueryFails \/ UNCHANGED vars
  BY <1>4, DatabaseCalm
<1> QED
  BY <1>1, <1>2, <1>3, <1>4 DEF Next, ExpressStep, EngineStep

\* An overlap is not forgotten.
LEMMA OverlapStays == [Next]_vars /\ overlapped => overlapped'
BY DEF Next, vars, ExpressStep, EngineStep, Search, Wake, Read, Deliver,
       TakeQuery, HandleSegment, Rank, PublishScoreRanking, AnswerDb, QueryFails

LEMMA CalmInvInit == Init => CalmInv
BY CalmInit, EngineInvInit DEF CalmInv

LEMMA CalmInvStep == CalmInv /\ [Next]_vars => CalmInv'
<1> SUFFICES ASSUME CalmInv, [Next]_vars PROVE CalmInv'
  OBVIOUS
<1>1. EngineInv /\ EngineInv'
  BY EngineInvStep DEF CalmInv
<1>2. ASSUME ~overlapped', Fits PROVE Calm'
  <2>1. ~overlapped
    BY <1>2, OverlapStays
  <2> QED
    BY <1>1, <1>2, <2>1, CalmStep DEF CalmInv
<1>3. Fits' = Fits
  BY DEF Fits
<1> QED
  BY <1>1, <1>2, <1>3 DEF CalmInv

LEMMA CalmInvariant == Spec => []CalmInv
BY CalmInvInit, CalmInvStep, PTL DEF Spec

\* A search that no other overlaps, and whose answer fits in the buffer, gets
\* all segments of the answer to its query and no others, and never fails
\* (express-server, listenIncomingSegments).
THEOREM SearchGetsItsOwnAnswer == Spec => []OwnAnswer
<1>1. CalmInv => OwnAnswer
  BY DEF CalmInv, Calm, Handled, OwnAnswer
<1> QED
  BY <1>1, CalmInvariant, PTL

\* Such a search leaves nothing in a queue, in the buffer or in the window of
\* unacknowledged deliveries that the next one could take for its own.
THEOREM SearchLeavesNothing == Spec => []NothingLeftOver
<1>1. ASSUME CalmInv, ~overlapped, Fits, InProgress = {}
      PROVE  /\ query_queue = <<>> /\ query_cbq = <<>> /\ unacked = <<>>
             /\ ~InUse(circleBuffer)
             /\ circleBuffer.readIndex = circleBuffer.writeIndex
             /\ Ranking = {} /\ engine.pc = "ready"
  <2>1. Quiet
    BY <1>1 DEF CalmInv, Calm, Busy
  <2>2. Ranking = {}
    BY <2>1, SearchAssumption DEF Quiet, Ranking
  <2> QED
    BY <2>1, <2>2 DEF Quiet, InUse
<1>2. CalmInv => NothingLeftOver
  BY <1>1 DEF NothingLeftOver
<1> QED
  BY <1>2, CalmInvariant, PTL

\* The write index never comes to a segment that was not read
\* (circular_buffer.ts:9), unless searches have overlapped.
THEOREM WritesOnlyOverNull == Spec => OnlyNullOverwritten
<1> DEFINE A == ~overlapped /\ Fits =>
                   \A i \in Indices :
                      circleBuffer.queue[i] # Null =>
                         circleBuffer'.queue[i] \in {Null, circleBuffer.queue[i]}
<1>1. CalmInv /\ [Next]_vars => A
  <2> SUFFICES ASSUME CalmInv, [Next]_vars, ~overlapped, Fits,
                      NEW i \in Indices, circleBuffer.queue[i] # Null
               PROVE  circleBuffer'.queue[i] \in {Null, circleBuffer.queue[i]}
    OBVIOUS
  <2>0. /\ Calm /\ PipelineTypeOK /\ PipelineTypeOK' /\ circleBuffer \in Buffer
    BY EngineInvStep, CalmTypes DEF CalmInv, EngineInv
  <2>1. CASE Deliver
    <3>1. i # circleBuffer.writeIndex
      BY <2>0, <2>1, DeliverCalm
    <3>2. circleBuffer' = Written(circleBuffer, Head(query_cbq))
      BY <2>1 DEF Deliver
    <3> QED
      BY <2>0, <3>1, <3>2 DEF Written, Buffer
  <2>2. CASE \E r \in Requests : Read(r)
    <3>1. circleBuffer' = AfterRead(circleBuffer)
      BY <2>2 DEF Read
    <3> QED
      BY <2>0, <3>1 DEF AfterRead, Buffer
  <2>3. CASE UNCHANGED circleBuffer
    BY <2>3
  <2> QED
    BY <2>1, <2>2, <2>3
    DEF Next, vars, express, ExpressStep, EngineStep, Search, Wake, TakeQuery,
        HandleSegment, Rank, PublishScoreRanking, AnswerDb, QueryFails
<1> QED
  BY <1>1, CalmInvariant, PTL DEF Spec, OnlyNullOverwritten
=============================================================================
