------------------------- MODULE EngineAnswerProofs -------------------------
(***************************************************************************)
(* For every segment size and every length of the buffer, what a receiver  *)
(* has joined is what was cut: in one transfer, and in the two of a query, *)
(* from the database service to the engine and from the engine to the      *)
(* express server.  For every number of webpages, tokens and chunks, what  *)
(* races between the chunks leave of a ranking.  For every query, what its *)
(* tokens are together.                                                    *)
(***************************************************************************)
EXTENDS EngineAnswer, FiniteSetTheorems, SequenceTheorems, TLAPS

LOCAL INSTANCE SequencesExt

\* Where segment k ends, counted from one.
Bound(k) == Lesser(k * MSS, dataLength)

Made(k) == [sequenceNum |-> k - 1, totalSegments |-> TotalSegments,
            from |-> Bound(k - 1), to |-> Bound(k)]

\* The segments are those of the reference, in order, and the two positions are
\* the ends of the last and of the next.
CutInv ==
    /\ maker \in {"database", "engine"}
    /\ dataLength \in Nat
    /\ segments \in Seq(Payload)
    /\ Cut <= TotalSegments
    /\ \A k \in 1..Cut : segments[k] = Made(k)
    /\ currentIndex = Bound(Cut)
    /\ pointerPosition \in Nat
    /\ Lesser(pointerPosition, dataLength) = Bound(Cut + 1)
    /\ maker = "engine" => pointerPosition <= dataLength

ReceiveInv ==
    /\ receiver \in {"listening", "complete"}
    /\ segmentCount \in 0..Cut
    /\ receiver = "complete" => segmentCount = TotalSegments

SegInv == CutInv /\ ReceiveInv

----------------------------------------------------------------------------
(* Arithmetic *)

LEMMA Multiples ==
    ASSUME NEW k \in Nat
    PROVE  /\ k * MSS \in Nat
           /\ (k + 1) * MSS = k * MSS + MSS
           /\ 0 * MSS = 0
  BY SegmentsAssumption

\* The segments reach beyond the end of the buffer, those but the last do not.
LEMMA TotalCovers ==
    ASSUME NEW n \in Nat
    PROVE  /\ n \div MSS \in Nat
           /\ n < (n \div MSS + 1) * MSS
           /\ (n \div MSS) * MSS <= n
<1>1. MSS \in Nat /\ MSS > 0  BY SegmentsAssumption
<1> DEFINE q == n \div MSS
           r == n % MSS
<1>2. q \in Int /\ r \in 0..(MSS - 1)  BY <1>1
<1>3. n = (MSS * q) + r  BY <1>1, SMTT(30)
<1> HIDE DEF q, r
<1>4. q >= 0
  <2>1. CASE q < 0
    <3>1. MSS * q <= -MSS  BY <2>1, <1>1, <1>2, SMTT(30)
    <3> QED BY <3>1, <1>1, <1>2, <1>3
  <2> QED BY <2>1, <1>2
<1>5. q * MSS = MSS * q /\ (q + 1) * MSS = q * MSS + MSS /\ q * MSS \in Nat
  BY <1>1, <1>2, <1>4, SMTT(30)
<1> QED BY <1>1, <1>2, <1>3, <1>4, <1>5 DEF q

\* What the number of segments means for their bounds.
LEMMA Bounds ==
    ASSUME dataLength \in Nat
    PROVE  /\ TotalSegments \in Nat /\ TotalSegments >= 1
           /\ Bound(0) = 0
           /\ Bound(TotalSegments) = dataLength
           /\ \A k \in Nat : /\ Bound(k) \in 0..dataLength
                            /\ Bound(k) <= Bound(k + 1)
                            /\ Bound(k + 1) - Bound(k) <= MSS
<1>1. MSS \in Nat /\ MSS > 0  BY SegmentsAssumption
<1>2. TotalSegments \in Nat /\ TotalSegments >= 1
      /\ dataLength < TotalSegments * MSS
  BY TotalCovers, <1>1 DEF TotalSegments
<1>3. Bound(0) = 0  BY Multiples DEF Bound, Lesser
<1>4. Bound(TotalSegments) = dataLength
  BY <1>1, <1>2, Multiples DEF Bound, Lesser
<1>5. ASSUME NEW k \in Nat
      PROVE  /\ Bound(k) \in 0..dataLength
             /\ Bound(k) <= Bound(k + 1)
             /\ Bound(k + 1) - Bound(k) <= MSS
  BY <1>1, Multiples DEF Bound, Lesser
<1> QED BY <1>2, <1>3, <1>4, <1>5

\* One turn of either loop: the end of the segment after the next.
LEMMA NextEnd ==
    ASSUME NEW c \in Nat, NEW p \in Nat, dataLength \in Nat,
           Lesser(p, dataLength) = Bound(c + 1),
           NEW q, q = p + Lesser(MSS, dataLength - Bound(c + 1))
    PROVE  /\ q \in Nat
           /\ Lesser(q, dataLength) = Bound(c + 2)
           /\ p <= dataLength => q <= dataLength
<1>1. MSS \in Nat /\ MSS > 0  BY SegmentsAssumption
<1>2. (c + 1) * MSS \in Nat /\ (c + 2) * MSS = (c + 1) * MSS + MSS
  <2>1. c + 1 \in Nat /\ (c + 1) + 1 = c + 2  OBVIOUS
  <2> QED BY <2>1, Multiples
<1> QED BY <1>1, <1>2 DEF Bound, Lesser

----------------------------------------------------------------------------
(* The invariant *)

LEMMA InitSegInv == SegInit => SegInv
<1> SUFFICES ASSUME NEW m \in {"database", "engine"}, NEW n \in Lengths,
                    Buffered(m, n)
             PROVE  SegInv
  BY DEF SegInit
<1>1. MSS \in Nat /\ MSS > 0 /\ n \in Nat  BY SegmentsAssumption
<1>2. dataLength = n /\ maker = m /\ segments = <<>> /\ Cut = 0
  BY DEF Buffered, Cut
<1>3. Bound(1) = Lesser(MSS, n)
  BY <1>1, <1>2, Multiples DEF Bound
<1>4. pointerPosition \in Nat
      /\ Lesser(pointerPosition, dataLength) = Bound(1)
      /\ (maker = "engine" => pointerPosition <= dataLength)
  BY <1>1, <1>2, <1>3 DEF Buffered, Position, Lesser
<1>5. segments \in Seq(Payload) /\ 0 <= TotalSegments /\ currentIndex = Bound(0)
  BY <1>1, <1>2, Bounds DEF Buffered
<1> QED BY <1>1, <1>2, <1>4, <1>5 DEF SegInv, CutInv, ReceiveInv, Buffered

\* A turn of a loop, whichever: the segment from currentIndex to to, which is
\* where the reference ends it.
LEMMA CutStep ==
    ASSUME SegInv, Cut < TotalSegments, NEW to, to = Bound(Cut + 1),
           segments' = Append(segments, NewSegment(currentIndex, to)),
           currentIndex' = to,
           pointerPosition' = pointerPosition + Lesser(MSS, dataLength - to),
           UNCHANGED <<maker, dataLength, receiving>>
    PROVE  SegInv'
<1> USE DEF SegInv, CutInv, ReceiveInv, receiving
<1> DEFINE s == NewSegment(currentIndex, to)
<1>1. dataLength \in Nat /\ Cut \in Nat /\ segments \in Seq(Payload)
  BY DEF Cut
<1>2. TotalSegments' = TotalSegments /\ \A k : Bound(k)' = Bound(k)
  BY DEF TotalSegments, Bound
<1>3. /\ TotalSegments \in Nat
      /\ Bound(Cut) \in 0..dataLength /\ Bound(Cut + 1) \in 0..dataLength
  BY <1>1, Bounds
<1>4. s \in Payload /\ s = Made(Cut + 1)
  BY <1>1, <1>3 DEF Payload, NewSegment, Made
<1>5. segments' \in Seq(Payload) /\ Cut' = Cut + 1
  BY <1>1, <1>4 DEF Cut
<1>6. \A k \in 1..Cut' : segments'[k] = Made(k)'
  <2> TAKE k \in 1..Cut'
  <2>1. Made(k)' = Made(k)  BY <1>2 DEF Made
  <2>2. CASE k \in 1..Cut  BY <2>1, <2>2, <1>1 DEF Cut
  <2>3. CASE k = Cut + 1  BY <2>1, <2>3, <1>1, <1>4 DEF Cut
  <2>4. k \in 1..Cut \/ k = Cut + 1  BY <1>1, <1>5
  <2> HIDE DEF SegInv, CutInv, ReceiveInv
  <2> QED BY <2>2, <2>3, <2>4
<1>7. /\ pointerPosition' \in Nat
      /\ Lesser(pointerPosition', dataLength) = Bound(Cut + 2)
      /\ pointerPosition <= dataLength => pointerPosition' <= dataLength
  BY <1>1, NextEnd
<1>8. CutInv'
  <2>1. (Cut <= TotalSegments)'  BY <1>1, <1>2, <1>3, <1>5
  <2>2. currentIndex' = Bound(Cut')  BY <1>5
  <2>3. Bound(Cut' + 1) = Bound(Cut + 2)  BY <1>1, <1>5
  <2> QED BY <1>1, <1>2, <1>5, <1>6, <1>7, <2>1, <2>2, <2>3
<1>9. ReceiveInv'  BY <1>1, <1>2, <1>5
<1> QED BY <1>8, <1>9

LEMMA NextSegInv == SegInv /\ [SegStep]_segVars => SegInv'
<1> SUFFICES ASSUME SegInv, [SegStep]_segVars PROVE SegInv'  OBVIOUS
<1>1. ASSUME CutDatabase PROVE SegInv'
  BY <1>1, CutStep DEF CutDatabase, SegInv, CutInv
<1>2. ASSUME CutEngine PROVE SegInv'
  <2>1. pointerPosition = Bound(Cut + 1)
    BY <1>2 DEF CutEngine, SegInv, CutInv, Lesser
  <2> QED BY <1>2, <2>1, CutStep DEF CutEngine
<1>3. ASSUME Receive PROVE SegInv'
  <2>1. CutInv'
    BY <1>3 DEF SegInv, CutInv, Receive, cutting, Cut, TotalSegments, Made, Bound
  <2>2. segmentCount \in Nat /\ segmentCount + 1 \in 1..Cut /\ Cut \in Nat
    BY <1>3 DEF SegInv, CutInv, ReceiveInv, Receive, Cut
  <2>3. segments[segmentCount + 1] = Made(segmentCount + 1)
    BY <2>2 DEF SegInv, CutInv
  <2>4. /\ segments[segmentCount + 1].sequenceNum = segmentCount
        /\ segments[segmentCount + 1].totalSegments = TotalSegments
    <3>1. (segmentCount + 1) - 1 = segmentCount  BY <2>2
    <3> QED BY <2>3, <3>1 DEF Made
  <2>5. TotalSegments' = TotalSegments /\ Cut' = Cut
    BY <1>3 DEF Receive, cutting, TotalSegments, Cut
  <2>6. ReceiveInv'
    BY <1>3, <2>2, <2>4, <2>5 DEF SegInv, ReceiveInv, Receive
  <2> QED BY <2>1, <2>6 DEF SegInv
<1>4. ASSUME UNCHANGED segVars PROVE SegInv'
  BY <1>4 DEF SegInv, CutInv, ReceiveInv, segVars, cutting, receiving,
              Cut, TotalSegments, Made, Bound
<1> QED BY <1>1, <1>2, <1>3, <1>4 DEF SegStep

\* Whichever loop cuts, its segments are those of the reference at every step.
THEOREM SegInvariant == SegSpec => []SegInv
<1> QED BY InitSegInv, NextSegInv, PTL DEF SegSpec

----------------------------------------------------------------------------
(* What follows from it *)

\* The state of both loops and of the receiver keeps its types
\* (createSegments, HandleIncomingSegments).
LEMMA SegInvTypes == SegInv => SegTypeOK
<1> SUFFICES ASSUME SegInv PROVE SegTypeOK  OBVIOUS
<1>1. currentIndex \in 0..dataLength
  BY Bounds DEF SegInv, CutInv, Cut
<1> QED BY <1>1 DEF SegInv, CutInv, ReceiveInv, SegTypeOK, Cut

\* What a receiver has joined when it stops is the buffer that was cut, whoever
\* cut it, whatever its length and the segment size.
LEMMA SegInvJoined == SegInv => JoinedIsCut
<1> SUFFICES ASSUME SegInv, receiver = "complete" PROVE JoinedIsCut
  BY DEF JoinedIsCut
<1>1. dataLength \in Nat /\ Cut \in Nat
  BY DEF SegInv, CutInv, Cut
<1>2. Cut = TotalSegments /\ segmentCount = Cut /\ Cut >= 1
  BY <1>1, Bounds DEF SegInv, CutInv, ReceiveInv
<1>3. \A k \in 1..Cut : segments[k].from = Bound(k - 1)
                        /\ segments[k].to = Bound(k)
  <2> TAKE k \in 1..Cut
  <2>1. segments[k] = Made(k)  BY DEF SegInv, CutInv
  <2>2. Made(k).from = Bound(k - 1) /\ Made(k).to = Bound(k)  BY DEF Made
  <2> QED BY <2>1, <2>2
<1>4. segments[1].from = 0 /\ segments[Cut].to = dataLength
  <2>1. Bound(0) = 0 /\ Bound(Cut) = dataLength
    BY <1>1, <1>2, Bounds
  <2>2. 1 \in 1..Cut /\ Cut \in 1..Cut /\ 1 - 1 = 0
    BY <1>1, <1>2
  <2>3. segments[1].from = Bound(1 - 1)  BY <1>3, <2>2
  <2> QED BY <1>3, <2>1, <2>2, <2>3
<1>5. \A k \in 2..Cut : segments[k].from = segments[k - 1].to
  <2> TAKE k \in 2..Cut
  <2>1. k \in 1..Cut /\ k - 1 \in 1..Cut  BY <1>1
  <2> QED BY <1>3, <2>1
<1>6. ASSUME NEW k \in 1..Cut
      PROVE  segments[k].to - segments[k].from \in 0..MSS
  <2>1. k - 1 \in Nat /\ (k - 1) + 1 = k  BY <1>1
  <2>2. /\ Bound(k - 1) \in 0..dataLength
        /\ Bound(k - 1) <= Bound(k)
        /\ Bound(k) - Bound(k - 1) <= MSS
        /\ Bound(k) \in 0..dataLength
    BY <1>1, <2>1, Bounds
  <2> QED BY <1>3, <2>2, SegmentsAssumption
<1> QED BY <1>2, <1>4, <1>5, <1>6 DEF JoinedIsCut

\* No receiver sees a segment out of sequence and no slice of the engine passes
\* the end of its buffer (segment_serializer.go:67, :143).
LEMMA SegInvOrdered == SegInv => SegmentsInOrder
<1> SUFFICES ASSUME SegInv PROVE SegmentsInOrder  OBVIOUS
<1>1. ASSUME maker = "engine"
      PROVE  currentIndex <= pointerPosition /\ pointerPosition <= dataLength
  <2>1. dataLength \in Nat /\ Cut \in Nat /\ Bound(Cut) <= Bound(Cut + 1)
    BY Bounds DEF SegInv, CutInv, Cut
  <2> QED BY <1>1, <2>1 DEF SegInv, CutInv, Lesser
<1> QED BY <1>1 DEF SegInv, ReceiveInv, SegmentsInOrder

----------------------------------------------------------------------------
(* Both transfers of a query: the invariant holds of the composition       *)

\* A buffer of which nothing is cut satisfies the invariant.
LEMMA BeginSegInv ==
    ASSUME NEW m \in {"database", "engine"}, NEW n \in Nat, Begin(m, n)
    PROVE  SegInv'
<1>1. MSS \in Nat /\ MSS > 0  BY SegmentsAssumption
<1>2. /\ dataLength' = n /\ maker' = m /\ segments' = <<>>
      /\ Cut' = 0
  BY DEF Begin, Cut
<1>3. Bound(0)' = 0 /\ Bound(1)' = Lesser(MSS, n)
  BY <1>1, <1>2, Multiples DEF Bound, Lesser
<1>4. /\ pointerPosition' \in Nat
      /\ Lesser(pointerPosition', n) = Lesser(MSS, n)
      /\ m = "engine" => pointerPosition' <= n
  BY <1>1 DEF Begin, Position, Lesser
<1>5. TotalSegments' \in Nat
  <2>1. TotalSegments' = n \div MSS + 1  BY <1>2 DEF TotalSegments
  <2> QED BY <2>1, TotalCovers
<1>6. segments' \in Seq(Payload) /\ currentIndex' = 0
  BY <1>2 DEF Begin
<1>7. CutInv'
  BY <1>2, <1>3, <1>4, <1>5, <1>6 DEF CutInv
<1>8. ReceiveInv'  BY <1>2 DEF Begin, ReceiveInv
<1> QED BY <1>7, <1>8 DEF SegInv

LEMMA AnswerInit == Init => SegInv
<1> SUFFICES ASSUME Init PROVE SegInv  OBVIOUS
<1>1. SegInit  BY DEF Init, SegInit
<1> QED BY <1>1, InitSegInv

LEMMA AnswerNext == SegInv /\ [Next]_answerVars => SegInv'
<1> SUFFICES ASSUME SegInv, [Next]_answerVars PROVE SegInv'  OBVIOUS
<1>1. ASSUME Transfer PROVE SegInv'
  BY <1>1, NextSegInv DEF Transfer
<1>2. ASSUME Parse PROVE SegInv'
  BY <1>2, BeginSegInv DEF Parse
<1>3. ASSUME Rating PROVE SegInv'
  BY <1>3, NextSegInv DEF Rating
<1>4. ASSUME Answer PROVE SegInv'
  <2>1. PICK n \in Lengths : Begin("engine", n)  BY <1>4 DEF Answer
  <2> QED BY <2>1, BeginSegInv, SegmentsAssumption
<1>5. ASSUME UNCHANGED answerVars PROVE SegInv'
  BY <1>5, NextSegInv DEF answerVars
<1> QED BY <1>1, <1>2, <1>3, <1>4, <1>5 DEF Next

\* The invariant of Segments in the engine's and the database service's transfers.
THEOREM AnswerSegInvariant == Spec => []SegInv
<1> QED BY AnswerInit, AnswerNext, PTL DEF Spec

\* The state of both transfers keeps its types.
THEOREM AnswerSegTypeCorrect == Spec => []SegTypeOK
<1> QED BY AnswerSegInvariant, SegInvTypes, PTL

\* The engine parses the bytes the database service cut, and the express server
\* the bytes the engine cut.
THEOREM AnswerJoinedIsCut == Spec => []JoinedIsCut
<1> QED BY AnswerSegInvariant, SegInvJoined, PTL

\* Neither transfer panics on a sequence number or a slice
\* (segment_serializer.go:67, :143).
THEOREM AnswerSegmentsInOrder == Spec => []SegmentsInOrder
<1> QED BY AnswerSegInvariant, SegInvOrdered, PTL

----------------------------------------------------------------------------
(* Ranking *)

First == Less(Length, ChunkSize)

ChunkStates ==
    [pc : {"reading", "loading", "storing", "moving", "done"},
     from : Nat \cup {Unread}, to : Nat \cup {Unread},
     i : Nat, oldRating : [Tokens -> Nat]]

RankTypes ==
    /\ webpages \in [len : Nat, cap : Nat] /\ webpages.len <= webpages.cap
    /\ bounds \in [Tokens -> [start : Nat, end : Nat]]
    /\ chunk \in [Tokens -> [Chunks -> ChunkStates]]
    /\ tf \in [1..Length -> [Tokens -> Nat]]

\* No chunk of token t has moved the bounds.
Unmoved(t) == \A k \in Chunks : chunk[t][k].pc \notin {"moving", "done"}

\* A webpage that a chunk is past has a rating; what a chunk has read before the
\* bounds were moved are the first ones.
ChunkInv(t, k) ==
    LET c == chunk[t][k] IN
    /\ c.pc # "reading" => c.from # Unread /\ c.to # Unread
    /\ c.pc = "storing" => c.i < Length /\ c.i < c.to - c.from
    /\ \A d \in 1..Length : d <= c.i => \E u \in Tokens : tf[d][u] > 0
    /\ Unmoved(t) => c.from \in {Unread, 0} /\ c.to \in {Unread, First}

\* When the bounds have been moved some chunk is past the whole first chunk.
MoverInv(t) ==
    IF Unmoved(t) THEN bounds[t] = [start |-> 0, end |-> First]
                  ELSE \E k \in Chunks : chunk[t][k].i >= First

\* With one token and one chunk nobody else rates a webpage.
ExactInv ==
    Length < ChunkSize /\ Len(Tokenizer(query)) = 1 =>
       LET c == chunk[1][1] IN
       /\ \A d \in 1..Length : tf[d][1] = IF d <= c.i THEN 1 ELSE 0
       /\ c.pc = "storing" => c.oldRating = tf[c.i + 1]

RankInv ==
    /\ ranking \in {"idle", "waiting", "rated", "panicked"}
    /\ ranking # "idle" =>
          /\ RankTypes
          /\ \A t \in Tokens : MoverInv(t) /\ \A k \in Chunks : ChunkInv(t, k)
          /\ ExactInv
          /\ Tokens # {}
    /\ PanicsOnlyBeyondOneChunk
    /\ ranking = "rated" => ChunksDone

----------------------------------------------------------------------------

\* There is a chunk, and no other when the webpages do not fill it.
LEMMA ChunkCount ==
    ASSUME NEW n \in Nat
    PROVE  /\ TotalChunks(n) \in Nat /\ TotalChunks(n) >= 1
           /\ n < ChunkSize => TotalChunks(n) = 1
           /\ Less(n, ChunkSize) \in Nat
           /\ Less(n, ChunkSize) <= n
           /\ n < ChunkSize => Less(n, ChunkSize) = n
<1>1. ChunkSize \in Nat /\ ChunkSize > 0  BY RankingAssumption
<1>2. n \div ChunkSize \in Nat
  BY <1>1
<1>3. n < ChunkSize => n \div ChunkSize = 0
  BY <1>1
<1> QED BY <1>1, <1>2, <1>3 DEF TotalChunks, Less

\* A query has one token more than spaces among the bytes that are looked at.
LEMMA SomeToken ==
    ASSUME NEW q \in Seq(Bytes)
    PROVE  Len(Tokenizer(q)) \in Nat /\ Len(Tokenizer(q)) >= 1
<1> DEFINE heads  == {i \in 1..Len(q) : q[i] # "tail"}
           n      == LookedAt(q)
           spaces == {i \in 1..n : q[i] = "space"}
           last   == Cardinality(spaces) + 1
           cut(k) == CASE k = 0 -> 1 [] k = last -> n + 1 [] OTHER -> Nth(spaces, k)
<1>1. IsFiniteSet(heads)  BY FS_Interval, FS_Subset
<1>2. n \in Nat  BY <1>1, FS_CardinalityType DEF LookedAt
<1>3. IsFiniteSet(spaces)
  <2> HIDE DEF n
  <2>1. IsFiniteSet(1..n)  BY <1>2, FS_Interval
  <2>2. spaces \in SUBSET (1..n)  OBVIOUS
  <2> HIDE DEF spaces
  <2> QED BY <2>1, <2>2, FS_Subset
<1>4. Cardinality(spaces) \in Nat  BY <1>3, FS_CardinalityType
<1>5. Tokenizer(q) = [k \in 1..last |-> SubSeq(q, cut(k - 1), cut(k) - 1)]
  BY DEF Tokenizer
<1>6. last \in Nat /\ last >= 1  BY <1>4
<1> HIDE DEF last, cut
<1>7. Len(Tokenizer(q)) = last  BY <1>5, <1>6
<1> QED BY <1>6, <1>7

\* A step of chunk k of token t, which may leave the bounds of t and the ratings
\* otherwise than they were.
StepOf(t, k, new) ==
    /\ ranking = "waiting" /\ ranking' \in {"waiting", "panicked"}
    /\ new \in ChunkStates
    /\ chunk' \in [Tokens -> [Chunks -> ChunkStates]]
    /\ \A u \in Tokens, j \in Chunks :
          chunk'[u][j] = IF u = t /\ j = k THEN new ELSE chunk[u][j]
    /\ bounds' \in [Tokens -> [start : Nat, end : Nat]]
    /\ \A u \in Tokens : u # t => bounds'[u] = bounds[u]
    /\ tf' \in [1..Length -> [Tokens -> Nat]]
    /\ \A d \in 1..Length :
          (\E u \in Tokens : tf[d][u] > 0) => \E u \in Tokens : tf'[d][u] > 0
    /\ UNCHANGED <<query, webpages>>

LEMMA ChunkMove ==
    ASSUME RankInv, NEW t \in Tokens, NEW k \in Chunks, NEW new, StepOf(t, k, new),
           Unmoved(t)' => Unmoved(t),
           ChunkInv(t, k)', MoverInv(t)', ExactInv',
           ranking' = "panicked" => Length = 0 \/ Length >= ChunkSize
    PROVE  RankInv'
<1> USE DEF StepOf
<1>1. Tokens' = Tokens /\ Chunks' = Chunks /\ Length' = Length
      /\ First' = First /\ ChunkStates' = ChunkStates
  BY DEF Tokens, Chunks, Length, First, ChunkStates
<1>2. RankTypes'
  <2>1. webpages \in [len : Nat, cap : Nat] /\ webpages.len <= webpages.cap
    BY DEF RankInv, RankTypes
  <2> QED BY <1>1, <2>1 DEF RankTypes
<1>3. ASSUME NEW u \in Tokens, u # t
      PROVE  Unmoved(u)' = Unmoved(u) /\ MoverInv(u)'
  <2>1. \A j \in Chunks : chunk'[u][j] = chunk[u][j]  BY <1>3
  <2>2. Unmoved(u)' = Unmoved(u)  BY <1>1, <2>1 DEF Unmoved
  <2>3. MoverInv(u)  BY DEF RankInv
  <2>4. bounds'[u] = bounds[u]  BY <1>3
  <2> QED BY <1>1, <2>1, <2>2, <2>3, <2>4 DEF MoverInv
<1>4. ASSUME NEW u \in Tokens, NEW j \in Chunks, u # t \/ j # k
      PROVE  ChunkInv(u, j)'
  <2>1. chunk'[u][j] = chunk[u][j]  BY <1>4
  <2>2. Unmoved(u)' => Unmoved(u)  BY <1>3
  <2>3. ChunkInv(u, j)  BY DEF RankInv
  <2> QED BY <1>1, <2>1, <2>2, <2>3 DEF ChunkInv
<1>5. \A u \in Tokens' : MoverInv(u)' /\ \A j \in Chunks' : ChunkInv(u, j)'
  BY <1>1, <1>3, <1>4
<1>6. PanicsOnlyBeyondOneChunk'
  BY <1>1 DEF PanicsOnlyBeyondOneChunk
<1>7. Tokens # {}  BY DEF RankInv
<1> QED BY <1>1, <1>2, <1>5, <1>6, <1>7 DEF RankInv

----------------------------------------------------------------------------
(* The steps of a chunk *)

\* What the steps use of the types of their chunk.
LEMMA ChunkTypes ==
    ASSUME RankInv, Running, NEW t \in Tokens, NEW k \in Chunks
    PROVE  /\ RankTypes /\ MoverInv(t) /\ ChunkInv(t, k) /\ ExactInv
           /\ Length \in Nat /\ webpages.cap \in Nat /\ Length <= webpages.cap
           /\ First \in Nat /\ First <= Length
           /\ Length < ChunkSize => First = Length /\ Chunks = {1}
           /\ 1 \in Chunks /\ ranking = "waiting" /\ Unread \notin Nat
           /\ chunk[t][k] \in ChunkStates
           /\ bounds[t] \in [start : Nat, end : Nat]
<1>1. RankTypes /\ MoverInv(t) /\ ChunkInv(t, k) /\ ExactInv /\ ranking = "waiting"
  BY DEF RankInv, Running
<1>2. Length \in Nat /\ webpages.cap \in Nat /\ Length <= webpages.cap
  BY <1>1 DEF RankTypes, Length
<1>3. /\ First \in Nat /\ First <= Length
      /\ Length < ChunkSize => First = Length
  BY <1>2, ChunkCount DEF First
<1>4. /\ 1 \in Chunks
      /\ Length < ChunkSize => Chunks = {1}
  <2>1. TotalChunks(Length) \in Nat /\ TotalChunks(Length) >= 1
    BY <1>2, ChunkCount
  <2>2. Length < ChunkSize => TotalChunks(Length) = 1
    BY <1>2, ChunkCount
  <2> QED BY <2>1, <2>2 DEF Chunks
<1>5. Unread \notin Nat  BY RankingAssumption
<1>6. chunk[t][k] \in ChunkStates /\ bounds[t] \in [start : Nat, end : Nat]
  BY <1>1 DEF RankTypes
<1> QED BY <1>1, <1>2, <1>3, <1>4, <1>5, <1>6

\* A chunk enters a state before the bounds are moved: nobody's rating changes.
LEMMA ReadingMove ==
    ASSUME RankInv, Running, NEW t \in Tokens, NEW k \in Chunks, NEW new,
           StepOf(t, k, new), UNCHANGED <<bounds, tf>>,
           chunk[t][k].pc \in {"reading", "loading"},
           new.pc \in {"reading", "loading", "storing"}, new.i = chunk[t][k].i,
           new.pc # "reading" => new.from # Unread /\ new.to # Unread,
           Unmoved(t) => new.from \in {Unread, 0} /\ new.to \in {Unread, First},
           new.pc = "storing" =>
              new.i < Length /\ new.i < new.to - new.from /\ new.oldRating = tf[new.i + 1],
           ranking' = "panicked" => Length = 0 \/ Length >= ChunkSize
    PROVE  RankInv'
<1> USE DEF StepOf
<1>1. /\ Tokens' = Tokens /\ Chunks' = Chunks /\ Length' = Length /\ First' = First
      /\ Tokenizer(query)' = Tokenizer(query)
  BY DEF Tokens, Chunks, Length, First
<1>2. /\ MoverInv(t) /\ ChunkInv(t, k) /\ ExactInv /\ 1 \in Chunks
      /\ Length < ChunkSize => Chunks = {1}
  BY ChunkTypes
<1>3. /\ chunk'[t][k] = new
      /\ \A j \in Chunks : j # k => chunk'[t][j] = chunk[t][j]
      /\ \A j \in Chunks : chunk'[t][j].i = chunk[t][j].i
  OBVIOUS
<1>4. Unmoved(t)' <=> Unmoved(t)
  BY <1>1, <1>3 DEF Unmoved
<1>5. ChunkInv(t, k)'
  BY <1>1, <1>2, <1>3, <1>4 DEF ChunkInv
<1>6. MoverInv(t)'
  BY <1>1, <1>2, <1>3, <1>4 DEF MoverInv
<1>7. ExactInv'
  <2> SUFFICES ASSUME Length < ChunkSize, Len(Tokenizer(query)) = 1
               PROVE  /\ \A d \in 1..Length :
                            tf[d][1] = IF d <= chunk'[1][1].i THEN 1 ELSE 0
                      /\ chunk'[1][1].pc = "storing" =>
                            chunk'[1][1].oldRating = tf[chunk'[1][1].i + 1]
    BY <1>1 DEF ExactInv
  <2>1. t = 1 /\ k = 1  BY <1>2 DEF Tokens
  <2> QED BY <1>2, <1>3, <2>1 DEF ExactInv
<1> HIDE DEF StepOf
<1> QED BY <1>4, <1>5, <1>6, <1>7, ChunkMove

\* A chunk that fills its only slot has nobody to move the bounds before it reads.
LEMMA SliceStep ==
    ASSUME RankInv, Running, NEW t \in Tokens, NEW k \in Chunks,
           chunk[t][k].pc = "reading",
           NEW from \in Nat \cup {Unread}, NEW to \in Nat \cup {Unread},
           Slice(t, k, from, to), UNCHANGED <<query, webpages, bounds, tf>>,
           Unmoved(t) => from \in {Unread, 0} /\ to \in {Unread, First}
    PROVE  RankInv'
<1> DEFINE c == chunk[t][k]
           legal == from # Unread /\ to # Unread => from <= to /\ to <= webpages.cap
           pc == IF legal /\ Unread \notin {from, to} THEN "loading" ELSE c.pc
           new == [c EXCEPT !.from = from, !.to = to, !.pc = pc]
<1>1. /\ RankTypes /\ Length \in Nat /\ webpages.cap \in Nat /\ Length <= webpages.cap
      /\ First \in Nat
      /\ Length < ChunkSize => First = Length /\ Chunks = {1}
      /\ ranking = "waiting" /\ c \in ChunkStates
  BY ChunkTypes
<1>2. new \in ChunkStates /\ new.i = c.i /\ new.from = from /\ new.to = to /\ new.pc = pc
  BY <1>1 DEF ChunkStates
<1>3. /\ chunk' = [chunk EXCEPT ![t][k].from = from, ![t][k].to = to, ![t][k].pc = pc]
      /\ ranking' = IF legal THEN ranking ELSE "panicked"
  BY DEF Slice
<1>4. /\ chunk' \in [Tokens -> [Chunks -> ChunkStates]]
      /\ \A u \in Tokens, j \in Chunks :
            chunk'[u][j] = IF u = t /\ j = k THEN new ELSE chunk[u][j]
  <2>1. chunk \in [Tokens -> [Chunks -> ChunkStates]]  BY <1>1 DEF RankTypes
  <2>2. chunk' = [chunk EXCEPT ![t] = [chunk[t] EXCEPT ![k] = new]]
    <3> HIDE DEF pc
    <3> QED BY <1>3, <2>1, <1>1 DEF ChunkStates
  <2> HIDE DEF new
  <2> QED BY <1>2, <2>1, <2>2
<1>5. StepOf(t, k, new)
  <2> HIDE DEF new, legal
  <2> QED BY <1>1, <1>2, <1>3, <1>4 DEF StepOf, RankTypes
<1>6. ranking' = "panicked" => Length >= ChunkSize
  <2> SUFFICES ASSUME Length < ChunkSize PROVE legal
    BY <1>1, <1>3, RankingAssumption
  <2>1. Unmoved(t)  BY <1>1 DEF Unmoved
  <2> QED BY <1>1, <2>1
<1>7. pc \in {"reading", "loading"} /\ (pc # "reading" => from # Unread /\ to # Unread)
  OBVIOUS
<1> HIDE DEF new, pc, legal
<1> QED BY <1>1, <1>2, <1>5, <1>6, <1>7, ReadingMove

LEMMA ReadStep ==
    ASSUME RankInv, NEW t \in Tokens, NEW k \in Chunks, ReadStart(t, k) \/ ReadEnd(t, k)
    PROVE  RankInv'
<1>1. Running /\ chunk[t][k].pc = "reading"  BY DEF ReadStart, ReadEnd
<1>2. /\ chunk[t][k] \in ChunkStates /\ bounds[t] \in [start : Nat, end : Nat]
      /\ ChunkInv(t, k) /\ MoverInv(t)
  BY <1>1, ChunkTypes
<1>3. /\ chunk[t][k].from \in Nat \cup {Unread} /\ chunk[t][k].to \in Nat \cup {Unread}
      /\ bounds[t].start \in Nat /\ bounds[t].end \in Nat
  BY <1>2 DEF ChunkStates
<1>4. Unmoved(t) => /\ bounds[t].start = 0 /\ bounds[t].end = First
                    /\ chunk[t][k].from \in {Unread, 0}
                    /\ chunk[t][k].to \in {Unread, First}
  BY <1>2 DEF MoverInv, ChunkInv
<1>5. CASE ReadStart(t, k)
  BY <1>1, <1>3, <1>4, <1>5, SliceStep DEF ReadStart
<1>6. CASE ReadEnd(t, k)
  BY <1>1, <1>3, <1>4, <1>6, SliceStep DEF ReadEnd
<1> QED BY <1>5, <1>6

\* A step that changes neither chunks nor ratings.
LEMMA RankFrame ==
    ASSUME RankInv, UNCHANGED <<query, webpages, bounds, chunk, tf>>,
           \/ ranking' = ranking
           \/ ranking' = "panicked" /\ ranking # "idle"
              /\ (Length = 0 \/ Length >= ChunkSize)
           \/ ranking' = "rated" /\ ranking # "idle" /\ ChunksDone
    PROVE  RankInv'
<1>1. /\ Tokens' = Tokens /\ Chunks' = Chunks /\ Length' = Length
      /\ First' = First /\ ChunkStates' = ChunkStates
  BY DEF Tokens, Chunks, Length, First, ChunkStates
<1>2. \A t \in Tokens : Unmoved(t)' = Unmoved(t)  BY <1>1 DEF Unmoved
<1>3. RankTypes' = RankTypes  BY <1>1 DEF RankTypes
<1>4. \A t \in Tokens : MoverInv(t)' = MoverInv(t)  BY <1>1, <1>2 DEF MoverInv
<1>5. \A t \in Tokens, k \in Chunks : ChunkInv(t, k)' = ChunkInv(t, k)
  BY <1>1, <1>2 DEF ChunkInv
<1>6. ExactInv' = ExactInv  BY <1>1 DEF ExactInv
<1>7. ChunksDone' = ChunksDone  BY <1>1 DEF ChunksDone
<1>8. PanicsOnlyBeyondOneChunk'
  BY <1>1 DEF RankInv, PanicsOnlyBeyondOneChunk
<1>9. ranking' \in {"idle", "waiting", "rated", "panicked"}
      /\ (ranking' # "idle" => ranking # "idle")
      /\ (ranking' = "rated" => ChunksDone)
  BY DEF RankInv
<1> QED BY <1>1, <1>3, <1>4, <1>5, <1>6, <1>7, <1>8, <1>9 DEF RankInv

LEMMA LoadStep ==
    ASSUME RankInv, NEW t \in Tokens, NEW k \in Chunks, Load(t, k)
    PROVE  RankInv'
<1> DEFINE c == chunk[t][k]
           new == [c EXCEPT !.pc = "storing", !.oldRating = tf[c.i + 1]]
<1>0. Running /\ c.pc = "loading" /\ c.i < c.to - c.from  BY DEF Load
<1>1. /\ RankTypes /\ Length \in Nat /\ First \in Nat
      /\ ChunkInv(t, k) /\ c \in ChunkStates /\ ranking = "waiting"
      /\ Length < ChunkSize => First = Length /\ Chunks = {1}
  BY <1>0, ChunkTypes
<1>2. c.from # Unread /\ c.to # Unread /\ c.from \in Nat /\ c.to \in Nat /\ c.i \in Nat
  BY <1>0, <1>1 DEF ChunkInv, ChunkStates
<1>3. Unmoved(t) => c.from = 0 /\ c.to = First
  BY <1>1, <1>2 DEF ChunkInv
<1>4. CASE c.i < Length
  <2>1. /\ chunk' = [chunk EXCEPT ![t][k].pc = "storing",
                                  ![t][k].oldRating = tf[c.i + 1]]
        /\ UNCHANGED <<query, webpages, bounds, tf, ranking>>
    BY <1>4 DEF Load
  <2>2. tf[c.i + 1] \in [Tokens -> Nat]
    <3>1. \A a, n \in Nat : a < n => a + 1 \in 1..n  OBVIOUS
    <3>2. c.i + 1 \in 1..Length
      <4> HIDE DEF c
      <4> QED BY <3>1, <1>1, <1>2, <1>4
    <3>3. tf \in [1..Length -> [Tokens -> Nat]]  BY <1>1 DEF RankTypes
    <3> HIDE DEF c
    <3> QED BY <3>2, <3>3
  <2>3. /\ new \in ChunkStates /\ new.i = c.i /\ new.from = c.from /\ new.to = c.to
        /\ new.pc = "storing" /\ new.oldRating = tf[c.i + 1]
    BY <1>1, <2>2 DEF ChunkStates
  <2>4. /\ chunk' \in [Tokens -> [Chunks -> ChunkStates]]
        /\ \A u \in Tokens, j \in Chunks :
              chunk'[u][j] = IF u = t /\ j = k THEN new ELSE chunk[u][j]
    <3>1. chunk \in [Tokens -> [Chunks -> ChunkStates]]  BY <1>1 DEF RankTypes
    <3>2. chunk' = [chunk EXCEPT ![t] = [chunk[t] EXCEPT ![k] = new]]
      BY <2>1, <3>1, <1>1 DEF ChunkStates
    <3> HIDE DEF new
    <3> QED BY <2>3, <3>1, <3>2
  <2> HIDE DEF new
  <2>5. StepOf(t, k, new)  BY <1>1, <2>1, <2>3, <2>4 DEF StepOf, RankTypes
  <2> QED BY <1>0, <1>1, <1>2, <1>3, <1>4, <2>1, <2>3, <2>5, ReadingMove
<1>5. CASE ~(c.i < Length)
  <2>1. ranking' = "panicked" /\ UNCHANGED <<query, webpages, bounds, chunk, tf>>
    BY <1>5 DEF Load
  <2>2. Length >= ChunkSize
    <3> SUFFICES ASSUME Length < ChunkSize PROVE FALSE
      BY <1>1, RankingAssumption
    <3>1. Unmoved(t)  BY <1>0, <1>1 DEF Unmoved
    <3> QED BY <1>0, <1>1, <1>2, <1>3, <1>5, <3>1
  <2> QED BY <1>1, <2>1, <2>2, RankFrame
<1> QED BY <1>4, <1>5

LEMMA StoreStep ==
    ASSUME RankInv, NEW t \in Tokens, NEW k \in Chunks, Store(t, k)
    PROVE  RankInv'
<1> DEFINE c == chunk[t][k]
           new == [c EXCEPT !.pc = "loading", !.i = c.i + 1]
<1>0. Running /\ c.pc = "storing"  BY DEF Store
<1>1. /\ RankTypes /\ Length \in Nat /\ First \in Nat /\ MoverInv(t) /\ ExactInv
      /\ ChunkInv(t, k) /\ c \in ChunkStates /\ ranking = "waiting"
      /\ Length < ChunkSize => Chunks = {1}
      /\ 1 \in Chunks
  BY <1>0, ChunkTypes
<1>2. c.i \in Nat /\ c.i < Length /\ c.i + 1 \in 1..Length
      /\ c.oldRating \in [Tokens -> Nat]
  BY <1>0, <1>1 DEF ChunkInv, ChunkStates
<1>3. /\ tf' = [tf EXCEPT ![c.i + 1] = [c.oldRating EXCEPT ![t] = c.oldRating[t] + 1]]
      /\ chunk' = [chunk EXCEPT ![t][k].pc = "loading", ![t][k].i = c.i + 1]
      /\ UNCHANGED <<query, webpages, bounds, ranking>>
  <2>1. /\ tf' = [tf EXCEPT ![c.i + 1] = [c.oldRating EXCEPT ![t] = @ + 1]]
        /\ chunk' = [chunk EXCEPT ![t][k].pc = "loading", ![t][k].i = @ + 1]
        /\ UNCHANGED <<query, webpages, bounds, ranking>>
    BY DEF Store
  <2>2. chunk \in [Tokens -> [Chunks -> ChunkStates]]  BY <1>1 DEF RankTypes
  <2> QED BY <2>1, <2>2, <1>1 DEF ChunkStates
<1>4. /\ tf' \in [1..Length -> [Tokens -> Nat]]
      /\ tf'[c.i + 1] = [c.oldRating EXCEPT ![t] = c.oldRating[t] + 1]
      /\ tf'[c.i + 1][t] = c.oldRating[t] + 1 /\ tf'[c.i + 1][t] > 0
      /\ \A d \in 1..Length : d # c.i + 1 => tf'[d] = tf[d]
  <2>1. tf \in [1..Length -> [Tokens -> Nat]]  BY <1>1 DEF RankTypes
  <2>2. c.oldRating[t] + 1 \in Nat /\ c.oldRating[t] + 1 > 0  BY <1>2
  <2> QED BY <1>2, <1>3, <2>1, <2>2
<1>5. /\ new \in ChunkStates /\ new.i = c.i + 1 /\ new.from = c.from /\ new.to = c.to
      /\ new.pc = "loading" /\ new.oldRating = c.oldRating
  <2> DEFINE next == c.i + 1
  <2>1. next \in Nat  BY <1>2
  <2> HIDE DEF next
  <2>2. new = [c EXCEPT !.pc = "loading", !.i = next]  BY DEF next
  <2>3. [c EXCEPT !.pc = "loading", !.i = next] \in ChunkStates
    BY <1>1, <2>1 DEF ChunkStates
  <2>4. /\ new.i = next /\ new.from = c.from /\ new.to = c.to
        /\ new.pc = "loading" /\ new.oldRating = c.oldRating
    BY <1>1, <2>2 DEF ChunkStates
  <2> QED BY <2>2, <2>3, <2>4 DEF next
<1>6. /\ chunk' \in [Tokens -> [Chunks -> ChunkStates]]
      /\ \A u \in Tokens, j \in Chunks :
            chunk'[u][j] = IF u = t /\ j = k THEN new ELSE chunk[u][j]
  <2>1. chunk \in [Tokens -> [Chunks -> ChunkStates]]  BY <1>1 DEF RankTypes
  <2>2. chunk' = [chunk EXCEPT ![t] = [chunk[t] EXCEPT ![k] = new]]
    BY <1>3, <2>1, <1>1 DEF ChunkStates
  <2> HIDE DEF new
  <2> QED BY <1>5, <2>1, <2>2
<1> HIDE DEF new
<1>7. \A d \in 1..Length :
         (\E u \in Tokens : tf[d][u] > 0) => \E u \in Tokens : tf'[d][u] > 0
  BY <1>4
<1>8. StepOf(t, k, new)
  BY <1>1, <1>3, <1>4, <1>5, <1>6, <1>7 DEF StepOf, RankTypes
<1>9. /\ Tokens' = Tokens /\ Chunks' = Chunks /\ Length' = Length /\ First' = First
      /\ Tokenizer(query)' = Tokenizer(query)
  BY <1>3 DEF Tokens, Chunks, Length, First
<1>10. /\ chunk'[t][k] = new
       /\ \A j \in Chunks : j # k => chunk'[t][j] = chunk[t][j]
  BY <1>6
<1>11. Unmoved(t)' <=> Unmoved(t)
  BY <1>0, <1>5, <1>9, <1>10 DEF Unmoved
<1>12. ChunkInv(t, k)'
  <2>1. \A d \in 1..Length : d <= c.i + 1 => \E u \in Tokens : tf'[d][u] > 0
    <3> SUFFICES ASSUME NEW d \in 1..Length, d <= c.i + 1
                 PROVE  \E u \in Tokens : tf'[d][u] > 0
      OBVIOUS
    <3>1. CASE d = c.i + 1  BY <3>1, <1>4
    <3>2. CASE d # c.i + 1
      BY <3>2, <1>1, <1>2, <1>7 DEF ChunkInv
    <3> QED BY <3>1, <3>2
  <2> QED BY <2>1, <1>0, <1>1, <1>5, <1>9, <1>10, <1>11 DEF ChunkInv
<1>13. MoverInv(t)'
  <2>1. CASE Unmoved(t)
    BY <2>1, <1>1, <1>3, <1>9, <1>11 DEF MoverInv
  <2>2. CASE ~Unmoved(t)
    <3>1. PICK j \in Chunks : chunk[t][j].i >= First
      BY <2>2, <1>1 DEF MoverInv
    <3>2. chunk'[t][j].i >= First
      BY <3>1, <1>1, <1>2, <1>5, <1>10
    <3> QED BY <3>2, <2>2, <1>9, <1>11 DEF MoverInv
  <2> QED BY <2>1, <2>2
<1>14. ExactInv'
  <2> SUFFICES ASSUME Length < ChunkSize, Len(Tokenizer(query)) = 1
               PROVE  /\ \A d \in 1..Length :
                            tf'[d][1] = IF d <= chunk'[1][1].i THEN 1 ELSE 0
                      /\ chunk'[1][1].pc = "storing" =>
                            chunk'[1][1].oldRating = tf'[chunk'[1][1].i + 1]
    BY <1>9 DEF ExactInv
  <2>1. t = 1 /\ k = 1  BY <1>1 DEF Tokens
  <2>2. /\ \A d \in 1..Length : tf[d][1] = IF d <= c.i THEN 1 ELSE 0
        /\ c.oldRating = tf[c.i + 1]
    BY <2>1, <1>0, <1>1 DEF ExactInv
  <2>3. tf'[c.i + 1][1] = 1
    BY <2>1, <2>2, <1>2, <1>4
  <2>4. ASSUME NEW d \in 1..Length
        PROVE  tf'[d][1] = IF d <= c.i + 1 THEN 1 ELSE 0
    <3> HIDE DEF c
    <3>1. CASE d = c.i + 1  BY <1>2, <2>3, <3>1
    <3>2. CASE d # c.i + 1
      <4>1. tf'[d] = tf[d]  BY <1>4, <3>2
      <4>2. d <= c.i + 1 <=> d <= c.i  BY <1>1, <1>2, <3>2
      <4> QED BY <2>2, <4>1, <4>2
    <3> QED BY <3>1, <3>2
  <2>5. chunk'[1][1].i = c.i + 1 /\ chunk'[1][1].pc # "storing"
    BY <2>1, <1>5, <1>10
  <2> QED BY <2>4, <2>5
<1> QED BY <1>3, <1>1, <1>8, <1>11, <1>12, <1>13, <1>14, ChunkMove

\* A chunk that moves the bounds has gone through its slice; the first one of its
\* token to do so through the first chunk.
LEMMA MoveStartStep ==
    ASSUME RankInv, NEW t \in Tokens, NEW k \in Chunks, MoveStart(t, k)
    PROVE  RankInv'
<1> DEFINE c == chunk[t][k]
           new == [c EXCEPT !.pc = "moving"]
<1>0. Running /\ c.pc = "loading" /\ c.i >= c.to - c.from  BY DEF MoveStart
<1>1. /\ RankTypes /\ Length \in Nat /\ First \in Nat /\ MoverInv(t) /\ ExactInv
      /\ ChunkInv(t, k) /\ c \in ChunkStates /\ ranking = "waiting"
      /\ Length < ChunkSize => Chunks = {1}
      /\ bounds[t] \in [start : Nat, end : Nat]
  BY <1>0, ChunkTypes
<1>2. c.from \in Nat /\ c.to \in Nat /\ c.i \in Nat
  BY <1>0, <1>1 DEF ChunkInv, ChunkStates
<1>3. /\ bounds' = [bounds EXCEPT ![t].start = bounds[t].end + 1]
      /\ chunk' = [chunk EXCEPT ![t][k].pc = "moving"]
      /\ UNCHANGED <<query, webpages, tf, ranking>>
  BY DEF MoveStart
<1>4. /\ bounds' \in [Tokens -> [start : Nat, end : Nat]]
      /\ \A u \in Tokens : u # t => bounds'[u] = bounds[u]
  <2>1. bounds \in [Tokens -> [start : Nat, end : Nat]]  BY <1>1 DEF RankTypes
  <2>2. bounds[t].end + 1 \in Nat  BY <1>1
  <2> QED BY <1>3, <2>1, <2>2
<1>5. /\ new \in ChunkStates /\ new.i = c.i /\ new.from = c.from /\ new.to = c.to
      /\ new.pc = "moving" /\ new.oldRating = c.oldRating
  BY <1>1 DEF ChunkStates
<1>6. /\ chunk' \in [Tokens -> [Chunks -> ChunkStates]]
      /\ \A u \in Tokens, j \in Chunks :
            chunk'[u][j] = IF u = t /\ j = k THEN new ELSE chunk[u][j]
  <2>1. chunk \in [Tokens -> [Chunks -> ChunkStates]]  BY <1>1 DEF RankTypes
  <2>2. chunk' = [chunk EXCEPT ![t] = [chunk[t] EXCEPT ![k] = new]]
    BY <1>3, <2>1, <1>1 DEF ChunkStates
  <2> HIDE DEF new
  <2> QED BY <1>5, <2>1, <2>2
<1> HIDE DEF new
<1>7. StepOf(t, k, new)
  BY <1>1, <1>3, <1>4, <1>5, <1>6 DEF StepOf, RankTypes
<1>8. /\ Tokens' = Tokens /\ Chunks' = Chunks /\ Length' = Length /\ First' = First
      /\ Tokenizer(query)' = Tokenizer(query)
  BY <1>3 DEF Tokens, Chunks, Length, First
<1>9. /\ chunk'[t][k] = new
      /\ \A j \in Chunks : j # k => chunk'[t][j] = chunk[t][j]
      /\ \A j \in Chunks : chunk'[t][j].i = chunk[t][j].i
  BY <1>5, <1>6
<1>10. ~Unmoved(t)'
  BY <1>5, <1>8, <1>9 DEF Unmoved
<1>11. ChunkInv(t, k)'
  BY <1>0, <1>1, <1>3, <1>5, <1>8, <1>9, <1>10 DEF ChunkInv
<1>12. MoverInv(t)'
  <2>1. \E j \in Chunks : chunk[t][j].i >= First
    <3>1. CASE Unmoved(t)
      <4>1. c.from = 0 /\ c.to = First
        BY <3>1, <1>0, <1>1 DEF ChunkInv
      <4>2. c.i >= First
        BY <4>1, <1>0, <1>1, <1>2
      <4> QED BY <4>2
    <3>2. CASE ~Unmoved(t)
      BY <3>2, <1>1 DEF MoverInv
    <3> QED BY <3>1, <3>2
  <2>2. \E j \in Chunks : chunk'[t][j].i >= First
    BY <2>1, <1>9
  <2> QED BY <2>2, <1>8, <1>10 DEF MoverInv
<1>13. ExactInv'
  <2> SUFFICES ASSUME Length < ChunkSize, Len(Tokenizer(query)) = 1
               PROVE  /\ \A d \in 1..Length :
                            tf[d][1] = IF d <= chunk'[1][1].i THEN 1 ELSE 0
                      /\ chunk'[1][1].pc # "storing"
    BY <1>3, <1>8 DEF ExactInv
  <2>1. t = 1 /\ k = 1  BY <1>1 DEF Tokens
  <2> QED BY <2>1, <1>1, <1>5, <1>9 DEF ExactInv
<1> QED BY <1>1, <1>3, <1>7, <1>10, <1>11, <1>12, <1>13, ChunkMove

LEMMA MoveEndStep ==
    ASSUME RankInv, NEW t \in Tokens, NEW k \in Chunks, MoveEnd(t, k)
    PROVE  RankInv'
<1> DEFINE c == chunk[t][k]
           new == [c EXCEPT !.pc = "done"]
           s == bounds[t].start
           distance == IF s <= Length THEN Length - s ELSE s - Length
<1>0. Running /\ c.pc = "moving"  BY DEF MoveEnd
<1>1. /\ RankTypes /\ Length \in Nat /\ First \in Nat /\ MoverInv(t) /\ ExactInv
      /\ ChunkInv(t, k) /\ c \in ChunkStates /\ ranking = "waiting"
      /\ Length < ChunkSize => Chunks = {1}
      /\ bounds[t] \in [start : Nat, end : Nat]
  BY <1>0, ChunkTypes
<1>2. /\ bounds' = [bounds EXCEPT ![t].end = s + Less(distance, ChunkSize)]
      /\ chunk' = [chunk EXCEPT ![t][k].pc = "done"]
      /\ UNCHANGED <<query, webpages, tf, ranking>>
  BY DEF MoveEnd
<1>3. /\ bounds' \in [Tokens -> [start : Nat, end : Nat]]
      /\ \A u \in Tokens : u # t => bounds'[u] = bounds[u]
  <2>1. bounds \in [Tokens -> [start : Nat, end : Nat]]  BY <1>1 DEF RankTypes
  <2>2. s \in Nat  BY <1>1
  <2>3. distance \in Nat  BY <1>1, <2>2
  <2>4. Less(distance, ChunkSize) \in Nat  BY <2>3, RankingAssumption DEF Less
  <2>5. s + Less(distance, ChunkSize) \in Nat  BY <2>2, <2>4
  <2> HIDE DEF s, distance
  <2> QED BY <1>2, <2>1, <2>5
<1>4. /\ new \in ChunkStates /\ new.i = c.i /\ new.from = c.from /\ new.to = c.to
      /\ new.pc = "done" /\ new.oldRating = c.oldRating
  BY <1>1 DEF ChunkStates
<1>5. /\ chunk' \in [Tokens -> [Chunks -> ChunkStates]]
      /\ \A u \in Tokens, j \in Chunks :
            chunk'[u][j] = IF u = t /\ j = k THEN new ELSE chunk[u][j]
  <2>1. chunk \in [Tokens -> [Chunks -> ChunkStates]]  BY <1>1 DEF RankTypes
  <2>2. chunk' = [chunk EXCEPT ![t] = [chunk[t] EXCEPT ![k] = new]]
    BY <1>2, <2>1, <1>1 DEF ChunkStates
  <2> HIDE DEF new
  <2> QED BY <1>4, <2>1, <2>2
<1> HIDE DEF new
<1>6. StepOf(t, k, new)
  BY <1>1, <1>2, <1>3, <1>4, <1>5 DEF StepOf, RankTypes
<1>7. /\ Tokens' = Tokens /\ Chunks' = Chunks /\ Length' = Length /\ First' = First
      /\ Tokenizer(query)' = Tokenizer(query)
  BY <1>2 DEF Tokens, Chunks, Length, First
<1>8. /\ chunk'[t][k] = new
      /\ \A j \in Chunks : j # k => chunk'[t][j] = chunk[t][j]
      /\ \A j \in Chunks : chunk'[t][j].i = chunk[t][j].i
  BY <1>4, <1>5
<1>9. ~Unmoved(t) /\ ~Unmoved(t)'
  BY <1>0, <1>4, <1>7, <1>8 DEF Unmoved
<1>10. ChunkInv(t, k)'
  BY <1>0, <1>1, <1>2, <1>4, <1>7, <1>8, <1>9 DEF ChunkInv
<1>11. MoverInv(t)'
  BY <1>1, <1>7, <1>8, <1>9 DEF MoverInv
<1>12. ExactInv'
  <2> SUFFICES ASSUME Length < ChunkSize, Len(Tokenizer(query)) = 1
               PROVE  /\ \A d \in 1..Length :
                            tf[d][1] = IF d <= chunk'[1][1].i THEN 1 ELSE 0
                      /\ chunk'[1][1].pc # "storing"
    BY <1>2, <1>7 DEF ExactInv
  <2>1. t = 1 /\ k = 1  BY <1>1 DEF Tokens
  <2> QED BY <2>1, <1>1, <1>4, <1>8 DEF ExactInv
<1> QED BY <1>1, <1>2, <1>6, <1>9, <1>10, <1>11, <1>12, ChunkMove

----------------------------------------------------------------------------
(* A ranking from its start to its answer *)

\* The sends of the IDFs and the end of a ranking touch no chunk.
LEMMA WaitStep ==
    ASSUME RankInv, EmptyDatabase \/ Rate \/ \E t \in Tokens : SendIDF(t)
    PROVE  RankInv'
<1>1. CASE EmptyDatabase
  <2>1. /\ UNCHANGED <<query, webpages, bounds, chunk, tf>>
        /\ ranking' = "panicked" /\ ranking # "idle" /\ Length = 0
    BY <1>1 DEF EmptyDatabase
  <2> QED BY <2>1, RankFrame
<1>2. CASE Rate
  <2>1. /\ UNCHANGED <<query, webpages, bounds, chunk, tf>>
        /\ ranking' = "rated" /\ ranking # "idle" /\ ChunksDone
    BY <1>2 DEF Rate, Running
  <2> QED BY <2>1, RankFrame
<1>3. CASE \E t \in Tokens : SendIDF(t)
  <2>1. UNCHANGED <<query, webpages, bounds, chunk, tf, ranking>>
    BY <1>3 DEF SendIDF
  <2> QED BY <2>1, RankFrame
<1> QED BY <1>1, <1>2, <1>3

\* Every chunk starts before the first webpage, none of which has a rating.
LEMMA ParseStep ==
    ASSUME NEW q \in Seq(Bytes), NEW n \in Nat, NEW cap \in Nat, n <= cap,
           CalculateBMRatings(q, n, cap)
    PROVE  RankInv'
<1> DEFINE tokens == 1..Len(Tokenizer(q))
           total  == TotalChunks(n)
           first  == Less(n, ChunkSize)
           fresh  == [pc |-> "reading", from |-> Unread, to |-> Unread,
                      i |-> 0, oldRating |-> NoRating(q)]
<1>1. /\ query' = q /\ webpages' = [len |-> n, cap |-> cap]
      /\ bounds' = [t \in tokens |-> [start |-> 0, end |-> first]]
      /\ chunk' = [t \in tokens |-> [k \in 1..total |-> fresh]]
      /\ tf' = [d \in 1..n |-> NoRating(q)]
      /\ ranking' = "waiting"
  BY DEF CalculateBMRatings
<1>2. /\ Length' = n /\ First' = first /\ Tokens' = tokens /\ Chunks' = 1..total
      /\ ChunkStates' = [pc : {"reading", "loading", "storing", "moving", "done"},
                         from : Nat \cup {Unread}, to : Nat \cup {Unread},
                         i : Nat, oldRating : [tokens -> Nat]]
  BY <1>1 DEF Length, First, Tokens, Chunks, ChunkStates
<1>3. /\ total \in Nat /\ total >= 1 /\ first \in Nat /\ first <= n
  BY ChunkCount
<1>4. tokens # {}
  <2>1. Len(Tokenizer(q)) \in Nat /\ Len(Tokenizer(q)) >= 1  BY SomeToken
  <2>2. 1 \in tokens  BY <2>1
  <2> QED BY <2>2
<1>5. NoRating(q) \in [tokens -> Nat] /\ \A t \in tokens : NoRating(q)[t] = 0
  BY DEF NoRating
<1> HIDE DEF tokens, total, first
<1>6. fresh \in ChunkStates'
  <2> DEFINE rating == NoRating(q)
  <2>1. rating \in [tokens -> Nat]  BY <1>5
  <2> HIDE DEF rating
  <2> QED BY <1>2, <2>1 DEF rating
<1>7. RankTypes'
  <2>1. webpages' \in [len : Nat, cap : Nat] /\ webpages'.len <= webpages'.cap
    BY <1>1
  <2>2. bounds' \in [tokens -> [start : Nat, end : Nat]]
    BY <1>1, <1>3
  <2>3. chunk' \in [tokens -> [1..total -> ChunkStates']]
    <3> HIDE DEF fresh
    <3> QED BY <1>1, <1>6
  <2>4. tf' \in [1..n -> [tokens -> Nat]]
    BY <1>1, <1>5
  <2> QED BY <1>2, <2>1, <2>2, <2>3, <2>4 DEF RankTypes
<1>8. \A t \in tokens, k \in 1..total : chunk'[t][k] = fresh
  <2> HIDE DEF fresh
  <2> QED BY <1>1
<1>9. ASSUME NEW t \in tokens
      PROVE  MoverInv(t)' /\ \A k \in 1..total : ChunkInv(t, k)'
  <2>1. Unmoved(t)'
    BY <1>2, <1>8 DEF Unmoved
  <2>2. bounds'[t] = [start |-> 0, end |-> first]
    BY <1>1
  <2>3. MoverInv(t)'
    BY <1>2, <2>1, <2>2 DEF MoverInv
  <2>4. ASSUME NEW k \in 1..total
        PROVE  ChunkInv(t, k)'
    <3>1. /\ chunk'[t][k].pc = "reading" /\ chunk'[t][k].i = 0
          /\ chunk'[t][k].from = Unread /\ chunk'[t][k].to = Unread
      BY <1>8
    <3>2. \A d \in 1..n : ~(d <= 0)  OBVIOUS
    <3> QED BY <1>2, <3>1, <3>2 DEF ChunkInv
  <2> QED BY <2>3, <2>4
<1>10. ExactInv'
  <2> SUFFICES ASSUME Len(Tokenizer(q)) = 1
               PROVE  /\ \A d \in 1..n :
                            tf'[d][1] = IF d <= chunk'[1][1].i THEN 1 ELSE 0
                      /\ chunk'[1][1].pc # "storing"
    BY <1>1, <1>2 DEF ExactInv
  <2>1. 1 \in tokens /\ 1 \in 1..total  BY <1>3 DEF tokens
  <2>2. chunk'[1][1].pc = "reading" /\ chunk'[1][1].i = 0
    BY <2>1, <1>8
  <2>3. \A d \in 1..n : tf'[d][1] = 0
    BY <2>1, <1>1, <1>5
  <2>4. \A d \in 1..n : ~(d <= 0)  OBVIOUS
  <2> QED BY <2>2, <2>3, <2>4
<1>11. PanicsOnlyBeyondOneChunk'
  BY <1>1 DEF PanicsOnlyBeyondOneChunk
<1> QED BY <1>1, <1>2, <1>4, <1>7, <1>9, <1>10, <1>11 DEF RankInv

LEMMA IdleRank ==
    /\ RankIdle => RankInv
    /\ RankReset => RankInv'
<1>1. RankIdle => RankInv
  BY DEF RankIdle, RankInv, PanicsOnlyBeyondOneChunk
<1>2. RankReset => RankInv'
  BY DEF RankReset, RankInv, PanicsOnlyBeyondOneChunk
<1> QED BY <1>1, <1>2

LEMMA NextRank == RankInv /\ [Next]_answerVars => RankInv'
<1> SUFFICES ASSUME RankInv, [Next]_answerVars PROVE RankInv'
  OBVIOUS
<1>1. CASE UNCHANGED rankVars
  BY <1>1, RankFrame DEF rankVars
<1>2. CASE Parse
  <2>1. PICK s \in Searches, room \in 0..Slack :
           CalculateBMRatings(s.query, s.webpages, s.webpages + room)
    BY <1>2 DEF Parse
  <2>2. s.query \in Seq(Bytes) /\ s.webpages \in Nat
    BY RankingAssumption DEF Bytes
  <2>3. s.webpages + room \in Nat /\ s.webpages <= s.webpages + room
    BY <2>2, RankingAssumption
  <2> QED BY <2>1, <2>2, <2>3, ParseStep
<1>3. CASE RankStep
  <2>1. CASE EmptyDatabase \/ Rate \/ \E t \in Tokens : SendIDF(t)
    BY <2>1, WaitStep
  <2>2. CASE \E t \in Tokens, k \in Chunks : ChunkStep(t, k)
    BY <2>2, ReadStep, LoadStep, StoreStep, MoveStartStep, MoveEndStep DEF ChunkStep
  <2> QED BY <1>3, <2>1, <2>2 DEF RankStep
<1>4. CASE Answer
  BY <1>4, IdleRank DEF Answer
<1> QED BY <1>1, <1>2, <1>3, <1>4 DEF Next, Transfer, Rating, answerVars

THEOREM RankInvariant == Spec => []RankInv
<1>1. Init => RankInv  BY IdleRank DEF Init
<1> QED BY <1>1, NextRank, PTL DEF Spec

----------------------------------------------------------------------------

\* A query ends the search engine only when nothing is stored or the webpages
\* fill more than a chunk (score.go, CalculateBMRatings and TF).
THEOREM RankingPanicsOnlyBeyondOneChunk == Spec => []PanicsOnlyBeyondOneChunk
<1>1. RankInv => PanicsOnlyBeyondOneChunk  BY DEF RankInv
<1> QED BY <1>1, RankInvariant, PTL

\* When all chunks are done, one of each token has gone through the first
\* webpages, however their bounds were moved.
LEMMA DoneBeyondFirst ==
    ASSUME RankInv, ranking = "rated", NEW t \in Tokens
    PROVE  \E k \in Chunks : chunk[t][k].i >= First
<1>1. MoverInv(t) /\ RankTypes /\ ChunksDone  BY DEF RankInv
<1>2. Length \in Nat  BY <1>1 DEF RankTypes, Length
<1>3. 1 \in Chunks  BY <1>2, ChunkCount DEF Chunks
<1>4. ~Unmoved(t)  BY <1>1, <1>3 DEF Unmoved, ChunksDone
<1> QED BY <1>1, <1>4 DEF MoverInv

\* With one token and less than a chunk of webpages each webpage is counted once:
\* nobody else loads a rating between a load and its store (score.go, TF).
THEOREM SmallRankingIsExact == Spec => []SmallRankingExact
<1>1. RankInv => SmallRankingExact
  <2> SUFFICES ASSUME RankInv, ranking = "rated", Length < ChunkSize,
                      Len(Tokenizer(query)) = 1, NEW d \in 1..Length
               PROVE  tf[d][1] = 1
    BY DEF SmallRankingExact
  <2>1. ExactInv /\ RankTypes  BY DEF RankInv
  <2>2. Length \in Nat  BY <2>1 DEF RankTypes, Length
  <2>3. First = Length /\ Chunks = {1}
    BY <2>2, ChunkCount DEF First, Chunks
  <2>4. 1 \in Tokens  BY DEF Tokens
  <2>5. chunk[1][1].i >= Length  BY <2>3, <2>4, DoneBeyondFirst
  <2>6. chunk[1][1].i \in Nat  BY <2>1, <2>3, <2>4 DEF RankTypes, ChunkStates
  <2>7. d <= chunk[1][1].i  BY <2>2, <2>5, <2>6
  <2> QED BY <2>1, <2>7 DEF ExactInv
<1> QED BY <1>1, RankInvariant, PTL

\* Each of the first CHUNK_SIZE webpages has a rating when they are summed, though
\* chunks read bounds that others move and write back ratings that others have
\* changed (score.go, CalculateBMRatings and TF).
THEOREM FirstChunkIsRated == Spec => []FirstChunkRated
<1>1. RankInv => FirstChunkRated
  <2> SUFFICES ASSUME RankInv, ranking = "rated", NEW d \in 1..First
               PROVE  \E t \in Tokens : tf[d][t] > 0
    BY DEF FirstChunkRated, First
  <2>1. RankTypes /\ Tokens # {}  BY DEF RankInv
  <2>2. Length \in Nat  BY <2>1 DEF RankTypes, Length
  <2>3. First \in Nat /\ First <= Length  BY <2>2, ChunkCount DEF First
  <2>4. PICK t \in Tokens : TRUE  BY <2>1
  <2>5. PICK k \in Chunks : chunk[t][k].i >= First  BY DoneBeyondFirst
  <2>6. ChunkInv(t, k)  BY DEF RankInv
  <2>7. chunk[t][k].i \in Nat  BY <2>1 DEF RankTypes, ChunkStates
  <2>8. d \in 1..Length /\ d <= chunk[t][k].i  BY <2>2, <2>3, <2>5, <2>7
  <2> QED BY <2>6, <2>8 DEF ChunkInv
<1> QED BY <1>1, RankInvariant, PTL

----------------------------------------------------------------------------
(* The tokens of a query *)

\* Induction over the numbers of a set: were k the number that is missing, taking
\* one from each missing number up to k would lose none of them and miss k.
LEMMA UpFromZero ==
    ASSUME NEW P, 0 \in P, \A i \in Nat : i \in P => i + 1 \in P
    PROVE  \A k \in Nat : k \in P
<1> SUFFICES ASSUME NEW k \in Nat, k \notin P PROVE FALSE
  OBVIOUS
<1> DEFINE missing == {i \in 0..k : i \notin P}
           fewer   == missing \ {k}
           pred    == [i \in missing |-> i - 1]
<1>1. \A i \in missing : i \in 1..k /\ i - 1 \in fewer
  OBVIOUS
<1>2. IsFiniteSet(missing)
  <2>1. k \in Int /\ 0 \in Int  OBVIOUS
  <2>2. IsFiniteSet(0..k)  BY <2>1, FS_Interval
  <2>3. missing \in SUBSET (0..k)  OBVIOUS
  <2> HIDE DEF missing
  <2> QED BY <2>2, <2>3, FS_Subset
<1>3. k \in missing
  OBVIOUS
<1> HIDE DEF missing
<1>4. IsFiniteSet(fewer) /\ Cardinality(fewer) < Cardinality(missing)
  <2>1. IsFiniteSet(fewer) /\ Cardinality(fewer) = Cardinality(missing) - 1
    BY <1>2, <1>3, FS_RemoveElement
  <2>2. Cardinality(missing) \in Nat  BY <1>2, FS_CardinalityType
  <2> QED BY <2>1, <2>2
<1>5. pred \in [missing -> fewer]
  BY <1>1
<1>6. \A i, j \in missing : pred[i] = pred[j] => i = j
  BY <1>1
<1> HIDE DEF pred, fewer
<1>7. \E i, j \in missing : i # j /\ pred[i] = pred[j]
  BY <1>2, <1>4, <1>5, FS_PigeonHole
<1> QED BY <1>6, <1>7

\* How many positions there are up to i.
UpTo(S, i) == Cardinality({j \in S : j <= i})

\* They are none at zero, all of them at n, and one more at each of them.
Counted(n, S) ==
    /\ Cardinality(S) \in Nat
    /\ \A i \in Int : UpTo(S, i) \in Nat /\ UpTo(S, i) <= Cardinality(S)
    /\ UpTo(S, 0) = 0
    /\ UpTo(S, n) = Cardinality(S)
    /\ \A i \in Int : UpTo(S, i + 1) =
          IF i + 1 \in S THEN UpTo(S, i) + 1 ELSE UpTo(S, i)

LEMMA UpToCounts ==
    ASSUME NEW n \in Nat, NEW S, S \subseteq 1..n
    PROVE  Counted(n, S)
<1>0. \A j \in S : j \in Int /\ j >= 1 /\ j <= n  OBVIOUS
<1>1. IsFiniteSet(S) /\ Cardinality(S) \in Nat
  <2>1. n \in Int /\ 1 \in Int  OBVIOUS
  <2>2. IsFiniteSet(1..n)  BY <2>1, FS_Interval
  <2>3. S \in SUBSET (1..n)  OBVIOUS
  <2>4. IsFiniteSet(S)  BY <2>2, <2>3, FS_Subset
  <2> QED BY <2>4, FS_CardinalityType
<1>2. ASSUME NEW i \in Int
      PROVE  /\ IsFiniteSet({j \in S : j <= i})
             /\ UpTo(S, i) \in Nat /\ UpTo(S, i) <= Cardinality(S)
  <2> DEFINE T == {j \in S : j <= i}
  <2>1. T \subseteq S  OBVIOUS
  <2> HIDE DEF T
  <2>2. IsFiniteSet(T) /\ Cardinality(T) \in Nat /\ Cardinality(T) <= Cardinality(S)
    BY <1>1, <2>1, FS_Subset, FS_CardinalityType
  <2> QED BY <2>2 DEF UpTo, T
<1>3. UpTo(S, 0) = 0
  <2>1. \A j \in S : ~(j <= 0)  BY <1>0
  <2>2. {j \in S : j <= 0} = {}  BY <2>1
  <2> QED BY <2>2, FS_EmptySet DEF UpTo
<1>4. UpTo(S, n) = Cardinality(S)
  <2>1. {j \in S : j <= n} = S  BY <1>0
  <2> QED BY <2>1 DEF UpTo
<1>5. ASSUME NEW i \in Int
      PROVE  UpTo(S, i + 1) = IF i + 1 \in S THEN UpTo(S, i) + 1 ELSE UpTo(S, i)
  <2> DEFINE T == {j \in S : j <= i}
             U == {j \in S : j <= i + 1}
  <2>1. i + 1 \notin T  OBVIOUS
  <2>2. CASE i + 1 \in S
    <3>1. U = T \cup {i + 1}
      <4>1. \A j \in S : j <= i + 1 <=> j <= i \/ j = i + 1  BY <1>0
      <4> QED BY <2>2, <4>1
    <3>2. IsFiniteSet(T)  BY <1>2
    <3> HIDE DEF T, U
    <3>3. Cardinality(U) = Cardinality(T) + 1
      BY <2>1, <3>1, <3>2, FS_AddElement
    <3> QED BY <2>2, <3>3 DEF UpTo, T, U
  <2>3. CASE i + 1 \notin S
    <3>1. U = T
      <4>1. \A j \in S : j <= i + 1 <=> j <= i  BY <1>0, <2>3
      <4> QED BY <4>1
    <3> QED BY <2>3, <3>1 DEF UpTo
  <2> QED BY <2>2, <2>3
<1> QED BY <1>1, <1>2, <1>3, <1>4, <1>5 DEF Counted

\* The k-th position exists, and the first ones and no others are up to it.
LEMMA NthPosition ==
    ASSUME NEW n \in Nat, NEW S, S \subseteq 1..n, NEW k \in 1..Cardinality(S)
    PROVE  Nth(S, k) \in S /\ UpTo(S, Nth(S, k)) = k
<1>0. Counted(n, S)  BY UpToCounts
<1>1. /\ Cardinality(S) \in Nat
      /\ UpTo(S, 0) = 0 /\ UpTo(S, n) = Cardinality(S)
      /\ \A i \in Int : UpTo(S, i) \in Nat
      /\ \A i \in Int : UpTo(S, i + 1) =
            IF i + 1 \in S THEN UpTo(S, i) + 1 ELSE UpTo(S, i)
  BY <1>0 DEF Counted
<1> DEFINE found == {m \in Nat : UpTo(S, m) >= k => \E i \in S : UpTo(S, i) = k}
<1>2. 0 \in found
  <2>1. ~(0 >= k)  BY <1>1
  <2> QED BY <1>1, <2>1
<1>3. ASSUME NEW m \in Nat, m \in found
      PROVE  m + 1 \in found
  <2> SUFFICES ASSUME UpTo(S, m + 1) >= k
               PROVE  \E i \in S : UpTo(S, i) = k
    OBVIOUS
  <2>1. CASE UpTo(S, m) >= k
    BY <1>3, <2>1
  <2>2. CASE ~(UpTo(S, m) >= k)
    <3>1. m \in Int /\ UpTo(S, m) \in Nat /\ k \in Nat  BY <1>1
    <3>2. m + 1 \in S  BY <1>1, <2>2, <3>1
    <3>3. UpTo(S, m + 1) = UpTo(S, m) + 1  BY <1>1, <3>1, <3>2
    <3>4. UpTo(S, m + 1) = k  BY <2>2, <3>1, <3>3
    <3> QED BY <3>2, <3>4
  <2> QED BY <2>1, <2>2
<1> HIDE DEF found
<1>4. n \in found
  BY <1>2, <1>3, UpFromZero
<1>5. \E i \in S : UpTo(S, i) = k
  <2>1. UpTo(S, n) >= k  BY <1>1
  <2> QED BY <1>4, <2>1 DEF found
<1> QED BY <1>5 DEF Nth, UpTo

\* Further on there are no fewer, and behind a position there is one more.
LEMMA UpToGrows ==
    ASSUME NEW n \in Nat, NEW S, S \subseteq 1..n, NEW i \in Nat, NEW j \in S, i < j
    PROVE  UpTo(S, i) < UpTo(S, j)
<1>0. Counted(n, S)  BY UpToCounts
<1>1. /\ \A m \in Int : UpTo(S, m) \in Nat
      /\ \A m \in Int : UpTo(S, m + 1) =
            IF m + 1 \in S THEN UpTo(S, m) + 1 ELSE UpTo(S, m)
  BY <1>0 DEF Counted
<1> DEFINE above == {m \in Nat : UpTo(S, i) <= UpTo(S, i + m)}
<1>2. 0 \in above
  BY <1>1
<1>3. ASSUME NEW m \in Nat, m \in above
      PROVE  m + 1 \in above
  <2>1. i + m \in Int /\ i + (m + 1) = (i + m) + 1 /\ i \in Int  OBVIOUS
  <2>2. UpTo(S, i) \in Nat /\ UpTo(S, i + m) \in Nat
    BY <1>1, <2>1
  <2>3. UpTo(S, (i + m) + 1) \in {UpTo(S, i + m), UpTo(S, i + m) + 1}
    BY <1>1, <2>1
  <2> QED BY <1>3, <2>1, <2>2, <2>3
<1>4. \A m \in above : UpTo(S, i) <= UpTo(S, i + m)
  OBVIOUS
<1> HIDE DEF above
<1>5. \A m \in Nat : m \in above
  BY <1>2, <1>3, UpFromZero
<1>6. j \in Nat /\ (j - 1) - i \in Nat /\ i + ((j - 1) - i) = j - 1
      /\ (j - 1) + 1 = j /\ j - 1 \in Int
  OBVIOUS
<1>7. UpTo(S, i) <= UpTo(S, j - 1)
  BY <1>4, <1>5, <1>6
<1>8. UpTo(S, j) = UpTo(S, j - 1) + 1
  BY <1>1, <1>6
<1> QED BY <1>1, <1>6, <1>7, <1>8

----------------------------------------------------------------------------

\* The spaces among the bytes that are looked at, and the bytes that end the
\* tokens before the first, the k-th and the last one.
SpacesOf(q) == {i \in 1..LookedAt(q) : q[i] = "space"}
LastOf(q)   == Cardinality(SpacesOf(q)) + 1
CutOf(q, k) == CASE k = 0         -> 1
                 [] k = LastOf(q) -> LookedAt(q) + 1
                 [] OTHER         -> Nth(SpacesOf(q), k)

LEMMA TokenizerCuts ==
    ASSUME NEW q \in Seq(Bytes)
    PROVE  /\ LookedAt(q) \in 0..Len(q)
           /\ Cardinality(SpacesOf(q)) \in Nat
           /\ LastOf(q) \in Nat \ {0}
           /\ Tokenizer(q) = [k \in 1..LastOf(q) |->
                                SubSeq(q, CutOf(q, k - 1), CutOf(q, k) - 1)]
<1> DEFINE heads == {i \in 1..Len(q) : q[i] # "tail"}
<1>1. Len(q) \in Nat  OBVIOUS
<1>2. LookedAt(q) \in 0..Len(q)
  <2>1. IsFiniteSet(1..Len(q)) /\ Cardinality(1..Len(q)) = Len(q)
    <3>1. 1 \in Int /\ Len(q) \in Int  BY <1>1
    <3>2. IsFiniteSet(1..Len(q))  BY <3>1, FS_Interval
    <3>3. Cardinality(1..Len(q)) = IF 1 > Len(q) THEN 0 ELSE Len(q) - 1 + 1
      BY <3>1, FS_Interval
    <3> QED BY <1>1, <3>2, <3>3
  <2>2. heads \in SUBSET (1..Len(q))  OBVIOUS
  <2> HIDE DEF heads
  <2>3. /\ IsFiniteSet(heads) /\ Cardinality(heads) <= Len(q)
        /\ Cardinality(heads) \in Nat
    BY <2>1, <2>2, FS_Subset, FS_CardinalityType
  <2>4. LookedAt(q) = Cardinality(heads)  BY DEF LookedAt, heads
  <2> QED BY <1>1, <2>3, <2>4
<1>3. Cardinality(SpacesOf(q)) \in Nat
  <2>1. Counted(LookedAt(q), SpacesOf(q))  BY <1>2, UpToCounts DEF SpacesOf
  <2> QED BY <2>1 DEF Counted
<1>4. Tokenizer(q) = [k \in 1..LastOf(q) |->
                        SubSeq(q, CutOf(q, k - 1), CutOf(q, k) - 1)]
  BY DEF Tokenizer, SpacesOf, LastOf, CutOf
<1> QED BY <1>2, <1>3, <1>4 DEF LastOf

\* The cuts go on from left to right, and all spaces are at cuts.
LEMMA CutsInOrder ==
    ASSUME NEW q \in Seq(Bytes), NEW k \in 1..LastOf(q)
    PROVE  /\ CutOf(q, k - 1) \in 1..(LookedAt(q) + 1)
           /\ CutOf(q, k) \in CutOf(q, k - 1)..(LookedAt(q) + 1)
           /\ \A i \in SpacesOf(q) : ~(CutOf(q, k - 1) < i /\ i < CutOf(q, k))
<1> DEFINE n     == LookedAt(q)
           S     == SpacesOf(q)
           last  == LastOf(q)
           m     == k - 1
           from  == CutOf(q, k - 1)
           to    == CutOf(q, k)
<1>1. n \in Nat /\ Cardinality(S) \in Nat /\ last = Cardinality(S) + 1
  BY TokenizerCuts DEF LastOf
<1>2. S \subseteq 1..n  BY DEF SpacesOf
<1>3. /\ k = last => to = n + 1
      /\ k # last => to = Nth(S, k) /\ k \in 1..Cardinality(S)
      /\ k = 1 => from = 1
      /\ k # 1 => from = Nth(S, m) /\ m \in 1..Cardinality(S)
  BY <1>1 DEF CutOf
<1> HIDE DEF S, n, from, to, last
<1>4. /\ k # last => to \in S /\ UpTo(S, to) = k
      /\ k # 1 => from \in S /\ UpTo(S, from) = m
  BY <1>1, <1>2, <1>3, NthPosition
<1>5. \A i \in S : i \in 1..n  BY <1>2
<1>6. /\ \A i \in Int : UpTo(S, i) \in Nat /\ UpTo(S, i) <= Cardinality(S)
      /\ \A i \in Nat, j \in S : i < j => UpTo(S, i) < UpTo(S, j)
      /\ UpTo(S, 0) = 0
  <2>1. Counted(n, S)  BY <1>1, <1>2, UpToCounts
  <2>2. \A i \in Nat, j \in S : i < j => UpTo(S, i) < UpTo(S, j)
    BY <1>1, <1>2, UpToGrows
  <2> QED BY <2>1, <2>2 DEF Counted
<1>7. from \in 1..(n + 1)
  BY <1>1, <1>3, <1>4, <1>5
<1>8. to \in from..(n + 1)
  <2>1. CASE k = last  BY <1>1, <1>3, <1>7, <2>1
  <2>2. CASE k # last /\ k = 1  BY <1>1, <1>3, <1>4, <1>5, <2>2
  <2>3. CASE k # last /\ k # 1
    <3>1. to \in S /\ from \in S /\ UpTo(S, to) = k /\ UpTo(S, from) = k - 1
      BY <1>4, <2>3
    <3>2. ~(to < from)
      <4> SUFFICES ASSUME to < from PROVE FALSE  OBVIOUS
      <4>1. to \in Nat  BY <1>1, <1>5, <3>1
      <4>2. UpTo(S, to) < UpTo(S, from)  BY <1>6, <3>1, <4>1
      <4> QED BY <3>1, <4>2
    <3> QED BY <1>1, <1>5, <3>1, <3>2
  <2> QED BY <2>1, <2>2, <2>3
<1>9. ASSUME NEW i \in S, from < i, i < to
      PROVE  FALSE
  <2>1. i \in Nat /\ i >= 1 /\ i <= n  BY <1>1, <1>5
  <2>2. UpTo(S, i) \in Nat /\ UpTo(S, i) <= Cardinality(S)  BY <1>6, <2>1
  <2>3. UpTo(S, i) >= k
    <3>1. CASE k = 1
      <4>1. UpTo(S, 0) < UpTo(S, i)  BY <1>6, <2>1
      <4> QED BY <1>6, <2>2, <3>1, <4>1
    <3>2. CASE k # 1
      <4>1. from \in Nat /\ UpTo(S, from) = k - 1  BY <1>1, <1>4, <1>7, <3>2
      <4>2. UpTo(S, from) < UpTo(S, i)  BY <1>6, <1>9, <4>1
      <4> QED BY <2>2, <4>1, <4>2
    <3> QED BY <3>1, <3>2
  <2>4. UpTo(S, i) < k
    <3>1. CASE k = last  BY <1>1, <2>2, <3>1
    <3>2. CASE k # last
      <4>1. to \in S /\ UpTo(S, to) = k  BY <1>4, <3>2
      <4> QED BY <1>6, <1>9, <2>1, <4>1
    <3> QED BY <3>1, <3>2
  <2> QED BY <2>2, <2>3, <2>4
<1> QED BY <1>7, <1>8, <1>9 DEF from, to, S, n

----------------------------------------------------------------------------

\* A sequence that is joined to the first token, then to the second and so on, if
\* there is one, is what FlattenSeq computes.
Joins(f, ts) ==
    f = [i \in 1..Len(ts) |-> IF i = 1 THEN ts[i] ELSE f[i - 1] \o ts[i]]

LEMMA JoinedOnce ==
    ASSUME NEW ts, Len(ts) \in Nat \ {0}, NEW f, NEW g, Joins(f, ts), Joins(g, ts)
    PROVE  f[Len(ts)] = g[Len(ts)]
<1> DEFINE n == Len(ts)
           equal == {i \in Nat : i + 1 \in 1..n => f[i + 1] = g[i + 1]}
<1>1. \A i \in 1..n :
         /\ f[i] = IF i = 1 THEN ts[i] ELSE f[i - 1] \o ts[i]
         /\ g[i] = IF i = 1 THEN ts[i] ELSE g[i - 1] \o ts[i]
  <2>1. f = [i \in 1..n |-> IF i = 1 THEN ts[i] ELSE f[i - 1] \o ts[i]]
    BY DEF Joins
  <2>2. g = [i \in 1..n |-> IF i = 1 THEN ts[i] ELSE g[i - 1] \o ts[i]]
    BY DEF Joins
  <2> QED BY <2>1, <2>2, Zenon
<1> HIDE DEF n
<1>2. 0 \in equal
  BY <1>1
<1>3. ASSUME NEW i \in Nat, i \in equal
      PROVE  i + 1 \in equal
  <2> SUFFICES ASSUME (i + 1) + 1 \in 1..n
               PROVE  f[(i + 1) + 1] = g[(i + 1) + 1]
    OBVIOUS
  <2> DEFINE j == (i + 1) + 1
  <2>1. j \in 1..n /\ j # 1 /\ j - 1 = i + 1 /\ i + 1 \in 1..n
    BY DEF n
  <2>2. f[i + 1] = g[i + 1]  BY <1>3, <2>1
  <2> HIDE DEF j
  <2>3. f[j] = f[j - 1] \o ts[j] /\ g[j] = g[j - 1] \o ts[j]
    BY <1>1, <2>1
  <2>4. f[j] = g[j]  BY <2>1, <2>2, <2>3
  <2> QED BY <2>4 DEF j
<1>4. \A i \in equal : i + 1 \in 1..n => f[i + 1] = g[i + 1]
  OBVIOUS
<1> HIDE DEF equal
<1>5. \A i \in Nat : i \in equal
  BY <1>2, <1>3, UpFromZero
<1>6. n - 1 \in Nat /\ (n - 1) + 1 = n /\ n \in 1..n
  BY DEF n
<1> QED BY <1>4, <1>5, <1>6 DEF n

LEMMA FlattenSeqJoins ==
    ASSUME NEW ts, Len(ts) \in Nat \ {0}, NEW f, Joins(f, ts)
    PROVE  FlattenSeq(ts) = f[Len(ts)]
<1> DEFINE g == CHOOSE h : h = [i \in 1..Len(ts) |->
                                  IF i = 1 THEN ts[i] ELSE h[i - 1] \o ts[i]]
<1>1. g = [i \in 1..Len(ts) |-> IF i = 1 THEN ts[i] ELSE g[i - 1] \o ts[i]]
  BY DEF Joins
<1>2. FlattenSeq(ts) = g[Len(ts)]
  BY DEF FlattenSeq
<1> HIDE DEF g
<1>3. Joins(g, ts)  BY <1>1 DEF Joins
<1>4. f[Len(ts)] = g[Len(ts)]  BY <1>3, JoinedOnce
<1> QED BY <1>2, <1>4

----------------------------------------------------------------------------

\* The tokens of any query are together the bytes that are looked at: nothing is
\* left out between them and nothing is in two.
LEMMA TokensTogether ==
    ASSUME NEW q \in Seq(Bytes)
    PROVE  FlattenSeq(Tokenizer(q)) = SubSeq(q, 1, LookedAt(q))
<1> DEFINE ts   == Tokenizer(q)
           last == LastOf(q)
           n    == LookedAt(q)
           f    == [i \in 1..last |-> SubSeq(q, 1, CutOf(q, i) - 1)]
<1>1. /\ last \in Nat \ {0} /\ n \in 0..Len(q)
      /\ ts = [k \in 1..last |-> SubSeq(q, CutOf(q, k - 1), CutOf(q, k) - 1)]
  BY TokenizerCuts
<1>2. \A i \in 1..last : /\ CutOf(q, i - 1) \in 1..(n + 1)
                         /\ CutOf(q, i) \in CutOf(q, i - 1)..(n + 1)
  BY CutsInOrder
<1>3. CutOf(q, 0) = 1 /\ CutOf(q, last) = n + 1
  BY <1>1 DEF CutOf
<1> HIDE DEF ts, last, n
<1>4. Len(ts) = last
  BY <1>1
<1>5. \A i \in 1..last : f[i] = SubSeq(q, 1, CutOf(q, i) - 1)
  OBVIOUS
<1>6. ASSUME NEW i \in 1..last
      PROVE  f[i] = IF i = 1 THEN ts[i] ELSE f[i - 1] \o ts[i]
  <2>1. ts[i] = SubSeq(q, CutOf(q, i - 1), CutOf(q, i) - 1)
    BY <1>1
  <2>2. CASE i = 1
    <3>1. f[1] = SubSeq(q, 1, CutOf(q, 1) - 1)  BY <1>5, <2>2
    <3>2. 1 - 1 = 0  OBVIOUS
    <3>3. ts[1] = SubSeq(q, 1, CutOf(q, 1) - 1)  BY <1>3, <2>1, <2>2, <3>2
    <3> HIDE DEF f
    <3> QED BY <2>2, <3>1, <3>3
  <2>3. CASE i # 1
    <3> DEFINE a == CutOf(q, i - 1)
               b == CutOf(q, i)
    <3>1. i - 1 \in 1..last  BY <1>1, <2>3
    <3>2. f[i - 1] = SubSeq(q, 1, a - 1)  BY <1>5, <3>1
    <3>3. a \in 1..(n + 1) /\ b \in a..(n + 1)  BY <1>2
    <3>4. f[i] = SubSeq(q, 1, b - 1)  BY <1>5
    <3> HIDE DEF a, b
    <3>5. /\ 1 \in 1..(Len(q) + 1) /\ a - 1 \in (1 - 1)..Len(q)
          /\ b - 1 \in (a - 1)..Len(q) /\ (a - 1) + 1 = a
      BY <1>1, <3>3
    <3>6. SubSeq(q, 1, a - 1) \o SubSeq(q, (a - 1) + 1, b - 1) = SubSeq(q, 1, b - 1)
      BY <3>5, ConcatAdjacentSubSeq
    <3>7. SubSeq(q, 1, a - 1) \o ts[i] = SubSeq(q, 1, b - 1)
      BY <2>1, <3>5, <3>6 DEF a, b
    <3> QED BY <2>3, <3>2, <3>4, <3>7
  <2> QED BY <2>2, <2>3
<1>7. DOMAIN f = 1..last /\ f = [i \in 1..last |-> f[i]]
  OBVIOUS
<1> HIDE DEF f
<1>8. Joins(f, ts)
  BY <1>4, <1>6, <1>7 DEF Joins
<1>9. FlattenSeq(ts) = f[last]
  BY <1>1, <1>4, <1>8, FlattenSeqJoins
<1>10. f[last] = SubSeq(q, 1, n)
  <2>1. last \in 1..last /\ (n + 1) - 1 = n  BY <1>1
  <2> QED BY <1>3, <1>5, <2>1
<1> QED BY <1>9, <1>10 DEF ts, n

\* A space begins a token if it is in one.
LEMMA NoSpaceInside ==
    ASSUME NEW q \in Seq(Bytes), NEW t \in 1..Len(Tokenizer(q)),
           NEW i \in 2..Len(Tokenizer(q)[t])
    PROVE  Tokenizer(q)[t][i] # "space"
<1> DEFINE n == LookedAt(q)
           a == CutOf(q, t - 1)
           b == CutOf(q, t)
<1>1. /\ n \in 0..Len(q)
      /\ t \in 1..LastOf(q)
      /\ Tokenizer(q)[t] = SubSeq(q, a, b - 1)
  BY TokenizerCuts
<1>2. a \in 1..(n + 1) /\ b \in a..(n + 1)
  BY <1>1, CutsInOrder
<1>3. \A j \in SpacesOf(q) : ~(a < j /\ j < b)
  BY <1>1, CutsInOrder
<1> HIDE DEF a, b
<1>4. Len(SubSeq(q, a, b - 1)) = b - a
      /\ \A j \in 1..(b - a) : SubSeq(q, a, b - 1)[j] = q[a + j - 1]
  BY <1>1, <1>2
<1>5. i \in 1..(b - a) /\ a < a + i - 1 /\ a + i - 1 < b /\ a + i - 1 \in 1..n
  BY <1>1, <1>2, <1>4
<1>6. Tokenizer(q)[t][i] = q[a + i - 1]
  BY <1>1, <1>4, <1>5
<1>7. a + i - 1 \notin SpacesOf(q)
  BY <1>3, <1>5
<1> QED BY <1>5, <1>6, <1>7 DEF SpacesOf

LEMMA QueryTyped == Spec => [](query \in Seq(Bytes))
<1> DEFINE QueryInv == query \in Seq(Bytes)
<1>1. Init => QueryInv
  BY DEF Init, RankIdle
<1>2. QueryInv /\ [Next]_answerVars => QueryInv'
  <2> SUFFICES ASSUME QueryInv, [Next]_answerVars PROVE QueryInv'
    OBVIOUS
  <2>1. CASE Parse
    <3>1. PICK s \in Searches : query' = s.query
      BY <2>1 DEF Parse, CalculateBMRatings
    <3> QED BY <3>1, RankingAssumption DEF Bytes
  <2>2. CASE Answer
    BY <2>2 DEF Answer, RankReset
  <2>3. CASE query' = query
    BY <2>3
  <2>4. RankStep => query' = query
    <3>1. \A t \in Tokens, k \in Chunks : ChunkStep(t, k) => query' = query
      BY DEF ChunkStep, ReadStart, ReadEnd, Load, Store, MoveStart, MoveEnd
    <3> QED BY <3>1 DEF RankStep, EmptyDatabase, Rate, SendIDF
  <2>5. UNCHANGED rankVars => query' = query
    BY DEF rankVars
  <2> QED BY <2>1, <2>2, <2>3, <2>4, <2>5 DEF Next, Transfer, Rating, answerVars
<1> QED BY <1>1, <1>2, PTL DEF Spec

\* Whatever the query, one-byte letters or not: its tokens, put together again,
\* are the bytes of it that the loop looks at, and a space is in a token at most
\* as its first byte (score.go, Tokenizer).
THEOREM TokensMakeTheQuery == Spec => []TokensAreTheQuery
<1>1. query \in Seq(Bytes) => TokensAreTheQuery
  BY TokensTogether, NoSpaceInside DEF TokensAreTheQuery, Tokens
<1> QED BY <1>1, QueryTyped, PTL
=============================================================================
