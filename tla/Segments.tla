------------------------------ MODULE Segments ------------------------------
(***************************************************************************)
(* How a buffer of bytes travels: createSegments cuts it into numbered     *)
(* segments of at most MSS bytes, the receiver joins them again and        *)
(* acknowledges all of them with the last.  The database service           *)
(* (database/src/serializer) and the search engine                         *)
(* (internal/segment_serializer) have their own createSegments, which keep *)
(* the end of the next segment in different ways.                          *)
(*                                                                         *)
(* A payload is the interval of the buffer it was cut from: bytes from to  *)
(* to - 1.  Numbers in a header have 32 bits, which no answer exceeds.     *)
(***************************************************************************)
EXTENDS Integers, Sequences

CONSTANTS
    MSS,        \* maximum segment size, in bytes
    Lengths     \* the lengths a buffer may have

ASSUME SegmentsAssumption == MSS \in Nat \ {0} /\ Lengths \subseteq Nat

VARIABLES
    maker,            \* whose createSegments runs: "database" or "engine"
    dataLength,       \* length of the buffer
    segments,         \* segments made so far
    currentIndex,     \* where the next segment starts
    pointerPosition,  \* where it ends
    segmentCount,     \* segments received, which is the number expected next
    receiver          \* "listening", "complete" or "panicked"

cutting   == <<maker, dataLength, segments, currentIndex, pointerPosition>>
receiving == <<segmentCount, receiver>>
segVars   == <<cutting, receiving>>

Lesser(a, b) == IF a <= b THEN a ELSE b

Payload == [sequenceNum : Nat, totalSegments : Nat, from : Nat, to : Nat]

\* "+ 1 to store the remainder": a multiple of MSS gets an empty last segment.
TotalSegments == dataLength \div MSS + 1

Cut == Len(segments)
NewSegment(from, to) == [sequenceNum |-> Cut, totalSegments |-> TotalSegments,
                         from |-> from, to |-> to]

\* Mutated form of Position: both loops start like the database's.
PositionUnclipped(m, n) == MSS

Position(m, n) == IF m = "database" THEN MSS ELSE Lesser(MSS, n)

\* One transfer: a buffer of n bytes, of which nothing is cut yet.
Buffered(m, n) ==
    /\ maker = m
    /\ dataLength = n
    /\ segments = <<>>
    /\ currentIndex = 0
    /\ pointerPosition = Position(m, n)
    /\ segmentCount = 0
    /\ receiver = "listening"

----------------------------------------------------------------------------
(* The two loops *)

\* subarray ends with the buffer, whatever pointerPosition says.
CutDatabase ==
    LET to == Lesser(pointerPosition, dataLength) IN
    /\ maker = "database"
    /\ Cut < TotalSegments
    /\ segments' = Append(segments, NewSegment(currentIndex, to))
    /\ currentIndex' = to
    /\ pointerPosition' = pointerPosition + Lesser(MSS, dataLength - to)
    /\ UNCHANGED <<maker, dataLength, receiving>>

\* Mutated form of CutEngine: the slice is taken after the index has moved.
CutEngineMoved ==
    /\ maker = "engine"
    /\ Cut < TotalSegments
    /\ segments' = Append(segments, NewSegment(currentIndex + 1,
                                               pointerPosition))
    /\ currentIndex' = pointerPosition
    /\ pointerPosition' = pointerPosition
                            + Lesser(MSS, dataLength - pointerPosition)
    /\ UNCHANGED <<maker, dataLength, receiving>>

\* A slice beyond the buffer would panic: pointerPosition must never pass it.
CutEngine ==
    /\ maker = "engine"
    /\ Cut < TotalSegments
    /\ segments' = Append(segments, NewSegment(currentIndex, pointerPosition))
    /\ currentIndex' = pointerPosition
    /\ pointerPosition' = pointerPosition
                            + Lesser(MSS, dataLength - pointerPosition)
    /\ UNCHANGED <<maker, dataLength, receiving>>

----------------------------------------------------------------------------
(* HandleIncomingSegments and listenIncomingSegments.  Segments arrive in  *)
(* the order in which they are published: by the database service while it *)
(* cuts, by the engine when it has cut them all.                           *)

Receive ==
    LET s == segments[segmentCount + 1] IN
    /\ receiver = "listening"
    /\ segmentCount < Cut
    /\ maker = "engine" => Cut = TotalSegments
    /\ IF s.sequenceNum = segmentCount
         THEN /\ segmentCount' = segmentCount + 1
              /\ receiver' = IF segmentCount + 1 = s.totalSegments
                               THEN "complete" ELSE receiver
         ELSE receiver' = "panicked" /\ UNCHANGED segmentCount
    /\ UNCHANGED cutting

\* createSegments starts on another buffer.
Begin(m, n) ==
    /\ maker' = m
    /\ dataLength' = n
    /\ segments' = <<>>
    /\ currentIndex' = 0
    /\ pointerPosition' = Position(m, n)
    /\ segmentCount' = 0
    /\ receiver' = "listening"

SegStep == CutDatabase \/ CutEngine \/ Receive

SegInit == \E m \in {"database", "engine"}, n \in Lengths : Buffered(m, n)

SegSpec == SegInit /\ [][SegStep]_segVars

----------------------------------------------------------------------------
(* Properties *)

SegTypeOK ==
    /\ maker \in {"database", "engine"}
    /\ dataLength \in Nat
    /\ segments \in Seq(Payload)
    /\ currentIndex \in 0..dataLength
    /\ pointerPosition \in Nat
    /\ segmentCount \in 0..Len(segments)
    /\ receiver \in {"listening", "complete", "panicked"}

\* What a receiver has joined when it stops is the buffer that was cut: the
\* segments are all there are, they follow one another from its first byte to
\* its last (createSegments against HandleIncomingSegments), and none is
\* longer than MSS.
JoinedIsCut ==
    receiver = "complete" =>
       /\ segmentCount = Cut
       /\ Cut = TotalSegments
       /\ segments[1].from = 0 /\ segments[Cut].to = dataLength
       /\ \A k \in 2..Cut : segments[k].from = segments[k - 1].to
       /\ \A k \in 1..Cut : segments[k].to - segments[k].from \in 0..MSS

\* No receiver sees a segment out of sequence, and no slice passes the end of
\* the buffer, at which the engine would panic (segment_serializer.go:67, :143).
SegmentsInOrder ==
    /\ receiver # "panicked"
    /\ maker = "engine" => currentIndex <= pointerPosition
                           /\ pointerPosition <= dataLength
=============================================================================
