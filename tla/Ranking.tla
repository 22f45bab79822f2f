------------------------------- MODULE Ranking -------------------------------
(***************************************************************************)
(* Ranking the webpages for a query in the search engine                   *)
(* (internal/bm25/score.go).  CalculateBMRatings starts a goroutine per    *)
(* token for its IDF, and per token one goroutine per chunk of webpages    *)
(* for the term frequencies.  The chunk goroutines of a token share the    *)
(* bounds of the next chunk, which they write under a mutex and read       *)
(* outside it, and all of them add to the ratings without one.             *)
(*                                                                         *)
(* A rating is kept as the number of times each token was counted in it;   *)
(* the values themselves are floating point and not modelled.  A query is  *)
(* a sequence of bytes: a letter, a space, or the head and tail of a       *)
(* letter of two bytes.                                                    *)
(***************************************************************************)
EXTENDS Integers, Sequences, FiniteSets

LOCAL INSTANCE SequencesExt

CONSTANTS
    ChunkSize,      \* CHUNK_SIZE
    MaxTokenCount,  \* MAX_TOKEN_COUNT, the capacity of IDFChann
    Searches,       \* the queries considered, with the number of webpages found
    Slack,          \* how far the capacity of the slice may exceed its length
    Unread          \* a local variable that was not assigned

ASSUME RankingAssumption ==
    /\ ChunkSize \in Nat \ {0} /\ MaxTokenCount \in Nat /\ Slack \in Nat
    /\ \A s \in Searches : s.query \in Seq({"letter", "space", "head", "tail"})
                           /\ s.webpages \in Nat
    /\ Unread \notin Nat

VARIABLES
    query,
    webpages,   \* [len, cap] of the slice
    idf,        \* idf[t]: the goroutine of token t, "computing" or "sent"
    IDFChann,   \* tokens whose IDF is in the channel, in order
    bounds,     \* bounds[t]: start and end, shared by the chunks of t
    mux,        \* the chunk that holds the mutex, or <<>>
    chunk,      \* chunk[t][k]: a goroutine that calls TF
    tf,         \* tf[d][t]: how often t is counted in the TfRating of webpage d
    ranking     \* the calling goroutine: "idle", "waiting", "rated" or "panicked"

rankVars == <<query, webpages, idf, IDFChann, bounds, mux, chunk, tf, ranking>>

Less(a, b) == IF a <= b THEN a ELSE b

----------------------------------------------------------------------------
(* Tokenizer.  The loop counts runes but indexes bytes: it looks at as     *)
(* many bytes as there are runes, and the last token ends there.           *)

Bytes == {"letter", "space", "head", "tail"}

\* How many bytes the loop looks at: as many as there are runes.
LookedAt(q) == Cardinality({i \in 1..Len(q) : q[i] # "tail"})

\* The k-th of some positions, in order.
Nth(S, k) == CHOOSE i \in S : Cardinality({j \in S : j <= i}) = k

\* Mutated form of Tokenizer: a token starts behind the space and the space is
\* skipped, but the last one is cut where the loop index would be.
TokenizerSkipping(q) ==
    LET n      == LookedAt(q)
        spaces == {i \in 1..n : q[i] = "space"}
        last   == Cardinality(spaces) + 1
        cut(k) == CASE k = 0 -> 0 [] k = last -> n [] OTHER -> Nth(spaces, k)
    IN  [k \in 1..last |-> SubSeq(q, cut(k - 1) + 1, cut(k) - 1)]

Tokenizer(q) ==
    LET n      == LookedAt(q)
        spaces == {i \in 1..n : q[i] = "space"}
        last   == Cardinality(spaces) + 1
        cut(k) == CASE k = 0 -> 1 [] k = last -> n + 1 [] OTHER -> Nth(spaces, k)
    IN  [k \in 1..last |-> SubSeq(q, cut(k - 1), cut(k) - 1)]

Tokens == 1..Len(Tokenizer(query))

----------------------------------------------------------------------------

Length == webpages.len

\* Mutated form of TotalChunks: every webpage opens a chunk of its own.
TotalChunksPerWebpage(n) == Less(n, ChunkSize) + 1

\* int(min(len / CHUNK_SIZE, CHUNK_SIZE) + 1)
TotalChunks(n) == Less(n \div ChunkSize, ChunkSize) + 1

Chunks == 1..TotalChunks(Length)

NoRating(q) == [t \in 1..Len(Tokenizer(q)) |-> 0]

\* No query is being ranked.
RankIdle ==
    /\ query = <<>>
    /\ webpages = [len |-> 0, cap |-> 0]
    /\ idf = <<>> /\ IDFChann = <<>>
    /\ bounds = <<>> /\ mux = <<>> /\ chunk = <<>> /\ tf = <<>>
    /\ ranking = "idle"

RankReset ==
    /\ query' = <<>>
    /\ webpages' = [len |-> 0, cap |-> 0]
    /\ idf' = <<>> /\ IDFChann' = <<>>
    /\ bounds' = <<>> /\ mux' = <<>> /\ chunk' = <<>> /\ tf' = <<>>
    /\ ranking' = "idle"

\* CalculateBMRatings(q, webpages).  Its goroutines are all started before it
\* waits for any of them.
CalculateBMRatings(q, n, cap) ==
    LET tokens == 1..Len(Tokenizer(q)) IN
    /\ query' = q
    /\ webpages' = [len |-> n, cap |-> cap]
    /\ idf' = [t \in tokens |-> "computing"]
    /\ IDFChann' = <<>>
    /\ bounds' = [t \in tokens |-> [start |-> 0, end |-> Less(n, ChunkSize)]]
    /\ mux' = <<>>
    /\ chunk' = [t \in tokens |-> [k \in 1..TotalChunks(n) |->
                   [pc |-> "reading", from |-> Unread, to |-> Unread,
                    i |-> 0, oldRating |-> NoRating(q)]]]
    /\ tf' = [d \in 1..n |-> NoRating(q)]
    /\ ranking' = "waiting"

Running == ranking = "waiting" /\ Length > 0

\* An empty slice yields nil, which RankBM25Ratings dereferences.
EmptyDatabase ==
    /\ ranking = "waiting" /\ Length = 0
    /\ ranking' = "panicked"
    /\ UNCHANGED <<query, webpages, idf, IDFChann, bounds, mux, chunk, tf>>

\* The channel is only drained after all IDFs were sent.
SendIDF(t) ==
    /\ Running
    /\ idf[t] = "computing"
    /\ Len(IDFChann) < MaxTokenCount
    /\ IDFChann' = Append(IDFChann, t)
    /\ idf' = [idf EXCEPT ![t] = "sent"]
    /\ UNCHANGED <<query, webpages, bounds, mux, chunk, tf, ranking>>

----------------------------------------------------------------------------
(* One chunk: TF(term, docLen, webpages, int(start), int(end)), then the   *)
(* bounds of the next one.  The two reads come in either order.            *)

\* (*webpages)[start:end] with both bounds read: it panics unless
\* start <= end <= cap.
Slice(t, k, from, to) ==
    LET legal == from # Unread /\ to # Unread => from <= to /\ to <= webpages.cap
    IN
    /\ chunk' = [chunk EXCEPT ![t][k].from = from, ![t][k].to = to,
           ![t][k].pc = IF legal /\ Unread \notin {from, to} THEN "loading" ELSE @]
    /\ ranking' = IF legal THEN ranking ELSE "panicked"

ReadStart(t, k) ==
    /\ Running
    /\ chunk[t][k].pc = "reading" /\ chunk[t][k].from = Unread
    /\ Slice(t, k, bounds[t].start, chunk[t][k].to)
    /\ UNCHANGED <<query, webpages, idf, IDFChann, bounds, mux, tf>>

ReadEnd(t, k) ==
    /\ Running
    /\ chunk[t][k].pc = "reading" /\ chunk[t][k].to = Unread
    /\ Slice(t, k, chunk[t][k].from, bounds[t].end)
    /\ UNCHANGED <<query, webpages, idf, IDFChann, bounds, mux, tf>>

\* range yields indices of the slice, but the loop indexes the webpages: it
\* rates the first ones, however far on the chunk is.
Load(t, k) ==
    LET c == chunk[t][k] IN
    /\ Running
    /\ c.pc = "loading" /\ c.i < c.to - c.from
    /\ IF c.i < Length
         THEN /\ chunk' = [chunk EXCEPT ![t][k].pc = "storing",
                              ![t][k].oldRating = tf[c.i + 1]]
              /\ UNCHANGED ranking
         ELSE ranking' = "panicked" /\ UNCHANGED chunk
    /\ UNCHANGED <<query, webpages, idf, IDFChann, bounds, mux, tf>>

\* TfRating = numerator / denominator + oldRating
Store(t, k) ==
    LET c == chunk[t][k] IN
    /\ Running
    /\ c.pc = "storing"
    /\ tf' = [tf EXCEPT ![c.i + 1] = [c.oldRating EXCEPT ![t] = @ + 1]]
    /\ chunk' = [chunk EXCEPT ![t][k].pc = "loading", ![t][k].i = @ + 1]
    /\ UNCHANGED <<query, webpages, idf, IDFChann, bounds, mux, ranking>>

\* mux.Lock and start = end + 1
MoveStart(t, k) ==
    LET c == chunk[t][k] IN
    /\ Running
    /\ c.pc = "loading" /\ c.i >= c.to - c.from
    /\ mux = <<>>
    /\ mux' = <<t, k>>
    /\ bounds' = [bounds EXCEPT ![t].start = bounds[t].end + 1]
    /\ chunk' = [chunk EXCEPT ![t][k].pc = "moving"]
    /\ UNCHANGED <<query, webpages, idf, IDFChann, tf, ranking>>

\* Mutated form of MoveEnd: mux.Unlock is missing.
MoveEndLocked(t, k) ==
    /\ Running
    /\ chunk[t][k].pc = "moving"
    /\ chunk' = [chunk EXCEPT ![t][k].pc = "done"]
    /\ UNCHANGED <<query, webpages, idf, IDFChann, bounds, mux, tf, ranking>>

\* end = start + min(|start - len|, CHUNK_SIZE) and mux.Unlock
MoveEnd(t, k) ==
    LET s == bounds[t].start
        distance == IF s <= Length THEN Length - s ELSE s - Length
    IN
    /\ Running
    /\ chunk[t][k].pc = "moving"
    /\ bounds' = [bounds EXCEPT ![t].end = s + Less(distance, ChunkSize)]
    /\ mux' = <<>>
    /\ chunk' = [chunk EXCEPT ![t][k].pc = "done"]
    /\ UNCHANGED <<query, webpages, idf, IDFChann, tf, ranking>>

----------------------------------------------------------------------------

ChunksDone == \A t \in Tokens, k \in Chunks : chunk[t][k].pc = "done"

\* Mutated form of Rate: twg.Wait is missing.
RateEarly ==
    /\ Running
    /\ \A t \in Tokens : idf[t] = "sent"
    /\ ranking' = "rated"
    /\ UNCHANGED <<query, webpages, idf, IDFChann, bounds, mux, chunk, tf>>

\* twg.Wait, iwg.Wait, close, and the ratings summed over the IDFs.
Rate ==
    /\ Running
    /\ ChunksDone
    /\ \A t \in Tokens : idf[t] = "sent"
    /\ ranking' = "rated"
    /\ UNCHANGED <<query, webpages, idf, IDFChann, bounds, mux, chunk, tf>>

ChunkStep(t, k) ==
    \/ ReadStart(t, k) \/ ReadEnd(t, k) \/ Load(t, k)
    \/ Store(t, k) \/ MoveStart(t, k) \/ MoveEnd(t, k)

RankStep ==
    \/ EmptyDatabase \/ Rate
    \/ \E t \in Tokens : SendIDF(t) \/ \E k \in Chunks : ChunkStep(t, k)

----------------------------------------------------------------------------
(* Properties *)

\* A query ends the search engine only if nothing is stored, or if there are
\* so many webpages that several chunks race on their bounds (score.go:58): a
\* chunk that reads start after and end before another has moved them takes a
\* slice that ends before it starts.
PanicsOnlyBeyondOneChunk ==
    ranking = "panicked" => Length = 0 \/ Length >= ChunkSize

\* With one token and less than a chunk of webpages every webpage is rated
\* exactly once.
SmallRankingExact ==
    ranking = "rated" /\ Length < ChunkSize /\ Len(Tokenizer(query)) = 1 =>
       \A d \in 1..Length : tf[d][1] = 1

\* Whatever races on the bounds and on the ratings, each of the first
\* CHUNK_SIZE webpages is rated for some token when the ranking is summed: the
\* chunk that moves the bounds first has read them unmoved, and no store takes
\* away all that was added before.
FirstChunkRated ==
    ranking = "rated" =>
       \A d \in 1..Less(Length, ChunkSize) : \E t \in Tokens : tf[d][t] > 0

\* The tokens of a query, put together again, are its first bytes, one for each
\* of its characters (score.go, Tokenizer): nothing is lost or doubled at a cut,
\* every space cuts, and what is missing at the end is a byte for each letter of
\* two bytes, nothing if there is none.
TokensAreTheQuery ==
    /\ FlattenSeq(Tokenizer(query)) = SubSeq(query, 1, LookedAt(query))
    /\ \A t \in Tokens : \A i \in 2..Len(Tokenizer(query)[t]) :
          Tokenizer(query)[t][i] # "space"
=============================================================================
