------------------------- MODULE FrontierWorkProofs -------------------------
(***************************************************************************)
(* The service implements the work list of module Frontier, for serial     *)
(* clients, as long as no statement of dequeueURL fails and no crash comes *)
(* between the statements of setNodeToVisited: the initial states map to   *)
(* initial states, and every step maps to a step of the list or to a       *)
(* stutter.  A url is recorded when it is in visited_nodes, so that the    *)
(* DELETE of a split transaction is a stutter.                             *)
(***************************************************************************)
EXTENDS FrontierSerialProofs

(* What the mapping of `req` needs beyond Parts: a host has one reply under *)
(* way, and only a length is answered on the other queue.                   *)

OneReply ==
    \A i, j \in 1..Len(cbq) : cbq[i].for = cbq[j].for => i = j

KindOK(s) ==
    hnd[s].pc # "idle" => (hnd[s].kind = "getlen" <=> hnd[s].pc = "count_nodes")

WorkInv == Parts /\ OneReply /\ \A s \in Slots : KindOK(s)

----------------------------------------------------------------------------
(* The handlers of a request that is still owed its reply *)

\* A handler goes on without replying.
Working(s) ==
    /\ hnd[s].pc \in OwingPcs \ {"count_nodes"}
    /\ hnd'[s].pc \in OwingPcs \ {"count_nodes"}
    /\ hnd'[s].root = hnd[s].root /\ hnd'[s].kind = hnd[s].kind
    /\ \A t \in Slots \ {s} : hnd'[t] = hnd[t]
    /\ cbq' = cbq /\ svc' = svc

Reads(s) ==
    \/ FindQueue(s) \/ ReloadQueue(s) \/ CheckVisited(s) \/ FinishEnqueue(s)
    \/ SelectQueue(s) \/ SelectInProgress(s) \/ SelectPending(s)
    \/ CountRows(s)

LEMMA ReadsWorking ==
    ASSUME Parts, NEW s \in Slots, Reads(s)
    PROVE  Working(s) /\ UNCHANGED tables
<1>0. /\ hnd \in [Slots -> Handler] /\ hnd[s] \in Handler
      /\ HandlerOK(s) /\ hnd[s].kind # "enqueue_empty"
  BY DEF Parts, TypeOK, HandlerOK
<1>h. ASSUME NEW v, NEW pc \in {"dq_count", "dq_update"}, Hold(s, v, pc)
      PROVE  /\ \A t \in Slots \ {s} : hnd'[t] = hnd[t]
             /\ hnd'[s].root = hnd[s].root /\ hnd'[s].kind = hnd[s].kind
             /\ hnd'[s].pc = pc
  <2>1. hnd'[s] = [hnd[s] EXCEPT !.url = v, !.row = nodes[v].id, !.pc = pc]
    BY <1>0, <1>h DEF Hold
  <2>2. \A t \in Slots \ {s} : hnd'[t] = hnd[t]
    BY <1>0, <1>h DEF Hold
  <2> QED
    BY <1>0, <2>1, <2>2 DEF Handler
<1> USE <1>0 DEF Working, Handler, OwingPcs, DequeuePcs, Quietly, replies
<1>1. CASE FindQueue(s)
  BY <1>1 DEF FindQueue
<1>2. CASE ReloadQueue(s)
  BY <1>2 DEF ReloadQueue, HandlerOK, Goto
<1>3. CASE CheckVisited(s)
  BY <1>3 DEF CheckVisited
<1>4. CASE FinishEnqueue(s)
  BY <1>4 DEF FinishEnqueue
<1>5. CASE SelectQueue(s)
  BY <1>5 DEF SelectQueue, Answer
<1>6. CASE SelectInProgress(s)
  BY <1>6, <1>h DEF SelectInProgress, Goto
<1>7. CASE SelectPending(s)
  BY <1>7, <1>h DEF SelectPending, Answer
<1>8. CASE CountRows(s)
  BY <1>8 DEF CountRows, Goto
<1> QED
  BY <1>1, <1>2, <1>3, <1>4, <1>5, <1>6, <1>7, <1>8 DEF Reads

LEMMA WritesWorking ==
    ASSUME Parts, NEW s \in Slots,
           CreateQueue(s) \/ InsertUrl(s) \/ UpdateInProgress(s)
    PROVE  Working(s)
<1>0. hnd \in [Slots -> Handler] /\ hnd[s] \in Handler /\ HandlerOK(s)
  BY DEF Parts, TypeOK
<1> USE <1>0 DEF Working, Handler, OwingPcs, DequeuePcs, Quietly, replies
<1>1. CASE CreateQueue(s)
  <2>1. /\ hnd[s].pc = "create_queue" /\ Quietly
        /\ hnd' = [hnd EXCEPT ![s] = [hnd[s] EXCEPT !.pc = "reload_queue",
                                                    !.q = queues[hnd[s].root].id + 1]]
    BY <1>1 DEF CreateQueue, HandlerOK
  <2> QED
    BY <2>1
<1>2. CASE InsertUrl(s)
  BY <1>2 DEF InsertUrl, HandlerOK, Goto
<1>3. CASE UpdateInProgress(s)
  BY <1>3 DEF UpdateInProgress, Goto
<1> QED
  BY <1>1, <1>2, <1>3

LEMMA PublishEffect ==
    ASSUME Parts, NEW s \in Slots, Publish(s)
    PROVE  /\ hnd[s].pc = "publish" /\ svc' = svc /\ UNCHANGED tables
           /\ cbq' = Append(cbq, [url |-> hnd[s].url, for |-> hnd[s].root])
           /\ \A t \in Slots \ {s} : hnd'[t] = hnd[t]
           /\ hnd'[s].root = hnd[s].root /\ hnd'[s].kind = hnd[s].kind
           /\ hnd'[s].pc \in {"set_visited", "remove_queue"}
<1>1. /\ hnd \in [Slots -> Handler] /\ hnd[s] \in Handler
      /\ hnd[s].kind # "enqueue_empty"
  BY DEF Parts, TypeOK, HandlerOK
<1> QED
  BY <1>1 DEF Publish, Handler

LEMMA HandlerCases ==
    ASSUME ~SqlFaults, NEW s \in Slots, HandlerStep(s)
    PROVE  \/ Reads(s)
           \/ CreateQueue(s) \/ InsertUrl(s) \/ UpdateInProgress(s)
           \/ Publish(s) \/ SetNodeToVisited(s) \/ DeleteVisited(s)
           \/ RemoveQueue(s) \/ CountNodes(s)
BY DEF HandlerStep, Reads, SqlError

\* The two ways of setNodeToVisited: in one transaction, or its INSERT first.
LEMMA VisitedEffect ==
    ASSUME Parts, NEW s \in Slots, SetNodeToVisited(s)
    PROVE  LET u == hnd[s].url IN
           /\ hnd[s].pc = "set_visited" /\ HoldsLease(s) /\ u \notin visited_nodes
           /\ Quietly /\ \A t \in Slots \ {s} : hnd'[t] = hnd[t]
           /\ \/ SetVisited(u, hnd[s].row) /\ hnd'[s] = Idle
              \/ RecordVisited(u) /\ hnd'[s] = [hnd[s] EXCEPT !.pc = "delete_node"]
<1>1. /\ hnd \in [Slots -> Handler] /\ HandlerOK(s) /\ hnd[s].pc = "set_visited"
  BY DEF Parts, TypeOK, SetNodeToVisited
<1>2. HoldsLease(s)
  BY <1>1 DEF HandlerOK
<1>3. /\ hnd[s].url \in UrlsOf(hnd[s].root)
      /\ nodes[hnd[s].url].status = "in_progress"
      /\ QueueExists(hnd[s].root, hnd[s].q)
  BY <1>2 DEF HoldsLease
<1>4. hnd[s].url \notin visited_nodes
  BY <1>1, <1>3, NoneDeleting
<1>5. /\ Quietly
      /\ \/ SetVisited(hnd[s].url, hnd[s].row) /\ hnd' = [hnd EXCEPT ![s] = Idle]
         \/ RecordVisited(hnd[s].url) /\ Goto(s, "delete_node")
  BY <1>3, <1>4 DEF SetNodeToVisited
<1>6. CASE SetVisited(hnd[s].url, hnd[s].row) /\ hnd' = [hnd EXCEPT ![s] = Idle]
  BY <1>1, <1>2, <1>4, <1>5, <1>6
<1>7. CASE RecordVisited(hnd[s].url) /\ Goto(s, "delete_node")
  BY <1>1, <1>2, <1>4, <1>5, <1>7 DEF Goto
<1> QED
  BY <1>5, <1>6, <1>7

----------------------------------------------------------------------------
(* WorkInv is inductive *)

LEMMA WorkHandlerStep ==
    ASSUME WorkInv, ~SqlFaults, NEW s \in Slots, HandlerStep(s)
    PROVE  OneReply' /\ \A t \in Slots : KindOK(t)'
<1>0. Parts /\ Parts' /\ hnd \in [Slots -> Handler] /\ cbq \in Seq(Reply)
  BY HandlerPreserves DEF WorkInv, Parts, TypeOK
<1>1. ~Throw
  BY <1>0 DEF Throw, Stop, Parts, NeverThrows
<1>2. \A t \in Slots \ {s} : KindOK(t)'
  BY <1>0, <1>1, OnlyOwnSlot DEF WorkInv, KindOK, Parts
<1>3. CASE Working(s)
  BY <1>2, <1>3 DEF WorkInv, KindOK, OneReply, Working, OwingPcs, DequeuePcs
<1>4. CASE Publish(s)
  <2> DEFINE m == [url |-> hnd[s].url, for |-> hnd[s].root]
  <2>1. /\ hnd[s].pc = "publish" /\ cbq' = Append(cbq, m)
        /\ hnd'[s].kind = hnd[s].kind
        /\ hnd'[s].pc \in {"set_visited", "remove_queue"}
    BY <1>0, <1>4, PublishEffect
  <2>2. \A i \in 1..Len(cbq) : cbq[i].for # hnd[s].root
    BY <1>0, <2>1, NoReply DEF OwingPcs
  <2>3. /\ Len(cbq') = Len(cbq) + 1 /\ cbq'[Len(cbq) + 1] = m
        /\ \A i \in 1..Len(cbq) : cbq'[i] = cbq[i]
    BY <1>0, <2>1
  <2>4. OneReply'
    <3> SUFFICES ASSUME NEW i \in 1..Len(cbq) + 1, NEW j \in 1..Len(cbq) + 1,
                        cbq'[i].for = cbq'[j].for
                 PROVE  i = j
      BY <2>3 DEF OneReply
    <3>1. Len(cbq) \in Nat
      BY <1>0
    <3>2. CASE i \in 1..Len(cbq) /\ j \in 1..Len(cbq)
      BY <2>3, <3>2 DEF WorkInv, OneReply
    <3>3. CASE i \in 1..Len(cbq) /\ j = Len(cbq) + 1
      BY <2>2, <2>3, <3>3
    <3>4. CASE j \in 1..Len(cbq) /\ i = Len(cbq) + 1
      BY <2>2, <2>3, <3>4
    <3> QED
      BY <3>1, <3>2, <3>3, <3>4
  <2> QED
    BY <1>2, <2>1, <2>4 DEF WorkInv, KindOK
<1>5. CASE DeleteVisited(s) \/ RemoveQueue(s) \/ CountNodes(s)
  <2>1. hnd'[s] = Idle /\ cbq' = cbq
    BY <1>0, <1>5
    DEF DeleteVisited, RemoveQueue, CountNodes, Quietly, replies
  <2> QED
    BY <1>2, <2>1 DEF WorkInv, KindOK, OneReply, Idle, Handling
<1>6. CASE SetNodeToVisited(s)
  <2>1. /\ hnd[s] \in Handler /\ hnd[s].pc = "set_visited" /\ Quietly
        /\ \/ hnd'[s] = Idle
           \/ hnd'[s] = [hnd[s] EXCEPT !.pc = "delete_node"]
    BY <1>0, <1>6, VisitedEffect
  <2>2. /\ cbq' = cbq
        /\ \/ hnd'[s].pc = "idle"
           \/ hnd'[s].pc = "delete_node" /\ hnd'[s].kind = hnd[s].kind
    BY <2>1 DEF Handler, Idle, Handling, Quietly, replies
  <2> QED
    BY <1>2, <2>1, <2>2 DEF WorkInv, KindOK, OneReply
<1> QED
  BY <1>0, <1>3, <1>4, <1>5, <1>6, HandlerCases, ReadsWorking, WritesWorking

LEMMA WorkStep ==
    ASSUME WorkInv, ~SqlFaults, [SerialNext]_vars, [~CrashSplits]_vars
    PROVE  WorkInv'
<1>p. Parts'
  BY StepPreserves DEF WorkInv
<1>0. Parts /\ Parts' /\ hnd \in [Slots -> Handler] /\ cbq \in Seq(Reply)
  BY <1>p DEF WorkInv, Parts, TypeOK
<1> SUFFICES OneReply' /\ \A t \in Slots : KindOK(t)'
  BY <1>0 DEF WorkInv
<1>1. CASE \E s \in Slots : HandlerStep(s)
  BY <1>1, WorkHandlerStep
<1>2. CASE Crash
  BY <1>2 DEF Crash, Stop, KindOK, OneReply, Idle, Handling
<1>3. CASE Restart \/ TakeLen \/ UNCHANGED vars
  BY <1>3 DEF Restart, TakeLen, vars, replies, WorkInv, KindOK, OneReply
<1>4. CASE TakeReply
  <2>1. hnd' = hnd /\ cbq # <<>> /\ cbq' = Tail(cbq)
    BY <1>4 DEF TakeReply
  <2>2. \A i \in 1..Len(cbq') : i + 1 \in 1..Len(cbq) /\ cbq'[i] = cbq[i + 1]
    BY <1>0, <2>1
  <2>3. \A i, j \in 1..Len(cbq') : cbq'[i].for = cbq'[j].for => i + 1 = j + 1
    BY <2>2 DEF WorkInv, OneReply
  <2>4. OneReply'
    BY <1>0, <2>1, <2>3 DEF OneReply
  <2> QED
    BY <2>1, <2>4 DEF WorkInv, KindOK
<1>5. CASE SerialClient
  <2>1. PICK h \in Hosts, S \in SUBSET Urls, s \in Slots :
           Enqueue(s, h, S) \/ Dequeue(s, h) \/ GetLen(s, h)
    BY <1>5, AnyClient DEF AnyRequest
  <2>2. /\ UNCHANGED <<tables, replies, svc, restarts>>
        /\ \A t \in Slots \ {s} : hnd'[t] = hnd[t]
    BY <1>0, <2>1, RequestEffect DEF Parts
  <2>3. KindOK(s)'
    BY <1>0, <2>1 DEF Enqueue, Dequeue, GetLen, Request, Handling, KindOK
  <2> QED
    BY <2>2, <2>3 DEF replies, WorkInv, KindOK, OneReply
<1> QED
  BY <1>1, <1>2, <1>3, <1>4, <1>5 DEF SerialNext, ServiceStep

LEMMA WorkInit == Init => WorkInv
BY InitParts DEF Init, WorkInv, OneReply, KindOK, Idle, Handling

----------------------------------------------------------------------------
(* The state of a request in the work list *)

AskedOK ==
    \A h \in Hosts :
       /\ Asking(h) # {} => Asked(h) = "asked"
       /\ Asking(h) = {} /\ Answers(h) = {} => Asked(h) = "idle"
       /\ Asking(h) = {} => \A i \in Answers(h) : Asked(h) = cbq[i].url

LEMMA AskedIs == OneReply => AskedOK
<1> SUFFICES ASSUME OneReply, NEW h \in Hosts, NEW i \in Answers(h),
                    Asking(h) = {}
             PROVE  Asked(h) = cbq[i].url
  BY DEF AskedOK, Asked
<1>1. \A j \in Answers(h) : j = i
  BY DEF OneReply, Answers
<1>2. (CHOOSE j \in Answers(h) : TRUE) = i
  BY <1>1
<1> QED
  BY <1>2 DEF Asked

LEMMA AskedIsNext == OneReply' => AskedOK'
BY AskedIs, PTL

\* The step is not about host g.
LEMMA AskedFrame ==
    ASSUME WorkInv, WorkInv', NEW g \in Hosts,
           Asking(g)' = {} <=> Asking(g) = {},
           \/ cbq' = cbq
           \/ \E u, h : h # g /\ cbq' = Append(cbq, [url |-> u, for |-> h])
           \/ cbq # <<>> /\ cbq' = Tail(cbq) /\ cbq[1].for # g
    PROVE  Asked(g)' = Asked(g)
<1>0. cbq \in Seq(Reply) /\ AskedOK /\ AskedOK'
  BY AskedIs, AskedIsNext DEF WorkInv, Parts, TypeOK
<1>1. ASSUME NEW i \in Answers(g)
      PROVE  \E j \in Answers(g)' : cbq'[j].url = cbq[i].url
  <2>1. i \in 1..Len(cbq) /\ cbq[i].for = g
    BY DEF Answers
  <2>2. CASE cbq' = cbq
    BY <2>1, <2>2 DEF Answers
  <2>3. CASE \E u, h : h # g /\ cbq' = Append(cbq, [url |-> u, for |-> h])
    <3>1. i \in 1..Len(cbq') /\ cbq'[i] = cbq[i]
      BY <1>0, <2>1, <2>3
    <3> QED
      BY <2>1, <3>1 DEF Answers
  <2>4. CASE cbq # <<>> /\ cbq' = Tail(cbq) /\ cbq[1].for # g
    <3>1. i # 1
      BY <2>1, <2>4
    <3>2. i - 1 \in 1..Len(cbq') /\ cbq'[i - 1] = cbq[i]
      BY <1>0, <2>1, <2>4, <3>1
    <3> QED
      BY <2>1, <3>2 DEF Answers
  <2> QED
    BY <2>2, <2>3, <2>4
<1>2. ASSUME NEW j \in Answers(g)' PROVE Answers(g) # {}
  <2>1. j \in 1..Len(cbq') /\ cbq'[j].for = g
    BY DEF Answers
  <2>2. CASE cbq' = cbq
    BY <2>1, <2>2 DEF Answers
  <2>3. CASE \E u, h : h # g /\ cbq' = Append(cbq, [url |-> u, for |-> h])
    <3>1. j \in 1..Len(cbq) /\ cbq'[j] = cbq[j]
      BY <1>0, <2>1, <2>3
    <3> QED
      BY <2>1, <3>1 DEF Answers
  <2>4. CASE cbq # <<>> /\ cbq' = Tail(cbq) /\ cbq[1].for # g
    <3>1. j + 1 \in 1..Len(cbq) /\ cbq'[j] = cbq[j + 1]
      BY <1>0, <2>1, <2>4
    <3> QED
      BY <2>1, <3>1 DEF Answers
  <2> QED
    BY <2>2, <2>3, <2>4
<1>3. CASE Asking(g) # {}
  BY <1>0, <1>3 DEF AskedOK
<1>4. CASE Asking(g) = {} /\ Answers(g) = {}
  BY <1>0, <1>2, <1>4 DEF AskedOK
<1>5. CASE Asking(g) = {} /\ Answers(g) # {}
  <2>1. PICK i \in Answers(g) : TRUE
    BY <1>5
  <2>2. PICK j \in Answers(g)' : cbq'[j].url = cbq[i].url
    BY <1>1
  <2> QED
    BY <1>0, <1>5, <2>1, <2>2 DEF AskedOK
<1> QED
  BY <1>3, <1>4, <1>5

\* A handler that goes on without replying: its host stays "asked".
LEMMA WorkingAsked ==
    ASSUME WorkInv, WorkInv', NEW s \in Slots, Working(s)
    PROVE  /\ \A g \in Hosts : Asked(g)' = Asked(g)
           /\ Asked(hnd[s].root) = "asked"
<1>0. hnd[s].root \in Hosts /\ AskedOK /\ hnd[s].kind # "getlen"
  BY AskedIs DEF WorkInv, Parts, TypeOK, Handler, KindOK, Working, OwingPcs,
                 DequeuePcs
<1>1. \A g \in Hosts : Asking(g)' = Asking(g)
  BY <1>0 DEF Asking, Owing, Active, Working, OwingPcs, DequeuePcs
<1>2. s \in Asking(hnd[s].root)
  BY <1>0 DEF Asking, Owing, Active, Working, OwingPcs, DequeuePcs
<1> QED
  BY <1>0, <1>1, <1>2, AskedFrame DEF AskedOK, Working

\* A handler that has replied, or that answers with a length.
LEMMA DoneAsked ==
    ASSUME WorkInv, WorkInv', NEW s \in Slots, hnd[s].pc # "idle",
           hnd[s].pc \notin OwingPcs \/ hnd[s].kind = "getlen",
           \A t \in Slots \ {s} : hnd'[t] = hnd[t], cbq' = cbq,
           \/ hnd'[s] = Idle
           \/ hnd'[s].pc = "delete_node" /\ hnd'[s].root = hnd[s].root
    PROVE  /\ \A g \in Hosts : Asked(g)' = Asked(g)
           /\ Asked(hnd[s].root) # "asked"
<1>a. hnd[s].root \in Hosts /\ AskedOK /\ cbq \in Seq(Reply)
  BY AskedIs DEF WorkInv, Parts, TypeOK, Handler
<1>b. \A i \in 1..Len(cbq) : cbq[i] \in Reply
  BY <1>a
<1>0. /\ hnd[s].root \in Hosts /\ AskedOK
      /\ \A i \in 1..Len(cbq) : cbq[i].url \in Urls \cup {End}
  BY <1>a, <1>b DEF Reply
<1>1. \A g \in Hosts : Asking(g)' = Asking(g)
  BY DEF Asking, Owing, Active, Idle, Handling, OwingPcs, DequeuePcs
<1>2. Asking(hnd[s].root) = {}
  BY DEF Asking, Owing, Active, WorkInv, Parts, OneHandlerPerHost
<1>3. Asked(hnd[s].root) # "asked"
  BY <1>0, <1>2, WorkAssumption DEF AskedOK, Answers
<1> QED
  BY <1>1, <1>3, AskedFrame

\* A handler replies.
LEMMA PublishAsked ==
    ASSUME WorkInv, WorkInv', NEW s \in Slots, Publish(s),
           NEW h \in Hosts, h = hnd[s].root
    PROVE  /\ \A g \in Hosts \ {h} : Asked(g)' = Asked(g)
           /\ Asked(h) = "asked"
           /\ Asked(h)' = hnd[s].url
<1> DEFINE n == Len(cbq) + 1
<1>0. AskedOK /\ AskedOK' /\ Parts /\ cbq \in Seq(Reply)
  BY AskedIs, AskedIsNext DEF WorkInv, Parts, TypeOK
<1>1. /\ hnd[s].pc = "publish"
      /\ cbq' = Append(cbq, [url |-> hnd[s].url, for |-> h])
      /\ \A t \in Slots \ {s} : hnd'[t] = hnd[t]
      /\ hnd'[s].root = h
      /\ hnd'[s].pc \in {"set_visited", "remove_queue"}
  BY <1>0, PublishEffect
<1>2. \A g \in Hosts \ {h} : Asking(g)' = Asking(g)
  BY <1>1 DEF Asking, Owing, Active
<1>3. s \in Asking(h)
  BY <1>1 DEF Asking, Owing, Active, OwingPcs, WorkInv, KindOK
<1>4. Asking(h)' = {}
  BY <1>1 DEF Asking, Owing, Active, OwingPcs, DequeuePcs, WorkInv, Parts,
              OneHandlerPerHost
<1>5. n \in Answers(h)' /\ cbq'[n].url = hnd[s].url
  BY <1>0, <1>1 DEF Answers
<1>6. Asked(h)' = hnd[s].url
  BY <1>0, <1>4, <1>5 DEF AskedOK
<1> QED
  <2>1. ASSUME NEW g \in Hosts \ {h} PROVE Asked(g)' = Asked(g)
    <3>1. \E u, k : k # g /\ cbq' = Append(cbq, [url |-> u, for |-> k])
      BY <1>1
    <3> QED
      BY <1>2, <3>1, AskedFrame
  <2>2. Asked(h) = "asked"
    BY <1>0, <1>3 DEF AskedOK
  <2> QED
    BY <1>6, <2>1, <2>2

----------------------------------------------------------------------------
(* Every step maps to a step of the work list *)

\* The mappings of `leased` and of `req`.
Leased == WithStatus("in_progress") \ visited_nodes
Req    == [h \in Hosts |-> Asked(h)]

LEMMA SameReq ==
    ASSUME \A g \in Hosts : Asked(g)' = Asked(g)
    PROVE  Req' = Req
BY DEF Req

LEMMA QuietMaps ==
    ASSUME WorkInv, WorkInv', NEW s \in Slots, Reads(s) \/ CreateQueue(s)
    PROVE  UNCHANGED Work!vars
<1>1. Working(s)
  BY ReadsWorking, WritesWorking DEF WorkInv
<1>2. nodes' = nodes /\ visited_nodes' = visited_nodes /\ svc' = svc
  <2>1. CASE Reads(s)
    BY <1>1, <2>1, ReadsWorking DEF WorkInv, tables, Working
  <2>2. CASE CreateQueue(s)
    BY <1>1, <2>2 DEF CreateQueue, InsertQueue, WorkInv, Parts, HandlerOK, Working
  <2> QED
    BY <2>1, <2>2
<1>3. Req' = Req
  BY <1>1, WorkingAsked, SameReq
<1> QED
  BY <1>2, <1>3 DEF Work!vars, WithStatus, Leased, Req

LEMMA InsertMaps ==
    ASSUME WorkInv, WorkInv', NEW s \in Slots, InsertUrl(s)
    PROVE  Work!Next \/ UNCHANGED Work!vars
<1> DEFINE u == hnd[s].url
<1>0. /\ nodes \in [Urls -> NodeRow] /\ HandlerOK(s) /\ svc' = svc
      /\ Working(s)
  BY WritesWorking DEF WorkInv, Parts, TypeOK, StoreTypeOK, Working
<1>1. /\ hnd[s].pc = "insert_node" /\ u \in Urls /\ HostOf[u] = hnd[s].root
      /\ u \notin visited_nodes
  BY <1>0 DEF InsertUrl, HandlerOK, UrlsOf
<1>2. Req' = Req /\ Asked(HostOf[u]) = "asked"
  BY <1>0, <1>1, WorkingAsked, SameReq
<1>3. CASE UNCHANGED tables
  BY <1>0, <1>2, <1>3 DEF Work!vars, WithStatus, Leased, Req, tables
<1>4. CASE nodes[u].status = "none" /\ InsertNode(u)
  <2>1. visited_nodes' = visited_nodes
    BY <1>4 DEF InsertNode
  <2>2. \A v \in Urls : nodes'[v].status = IF v = u THEN "pending"
                                                    ELSE nodes[v].status
    BY <1>0, <1>1, <1>4 DEF InsertNode
  <2>3. /\ WithStatus("pending")' = WithStatus("pending") \cup {u}
        /\ Leased' = Leased
        /\ u \notin WithStatus("pending") \cup Leased
    BY <1>1, <1>4, <2>1, <2>2 DEF WithStatus, Leased
  <2>4. HostOf[u] \in Hosts
    BY <1>1, StoreAssumption
  <2>5. Work!Add(u)
    BY <1>0, <1>1, <1>2, <2>1, <2>3, <2>4 DEF Work!Add, Req, Leased
  <2> QED
    BY <1>1, <2>5 DEF Work!Next
<1> QED
  BY <1>0, <1>1, <1>3, <1>4 DEF InsertUrl, HandlerOK

LEMMA LeaseMaps ==
    ASSUME WorkInv, WorkInv', NEW s \in Slots, UpdateInProgress(s)
    PROVE  Work!Next
<1> DEFINE u == hnd[s].url
<1>0. /\ nodes \in [Urls -> NodeRow] /\ HandlerOK(s) /\ svc' = svc
      /\ Working(s) /\ hnd[s].pc = "dq_update"
  BY WritesWorking
  DEF WorkInv, Parts, TypeOK, StoreTypeOK, Working, UpdateInProgress
<1>1. /\ u \in Urls /\ HostOf[u] = hnd[s].root /\ HostOf[u] \in Hosts
      /\ nodes[u] = [status |-> "pending", id |-> hnd[s].row]
      /\ \A v \in Urls : HostOf[v] = HostOf[u] => nodes[v].status # "in_progress"
      /\ QueueExists(HostOf[u], hnd[s].q)
  BY <1>0, StoreAssumption DEF HandlerOK, UrlsOf
<1>2. Req' = Req /\ Asked(HostOf[u]) = "asked"
  BY <1>0, <1>1, WorkingAsked, SameReq
<1>3. /\ visited_nodes' = visited_nodes
      /\ nodes' = [nodes EXCEPT ![u].status = "in_progress"]
  BY <1>1 DEF UpdateInProgress, SetInProgress
<1>4. \A v \in Urls : nodes'[v].status = IF v = u THEN "in_progress"
                                                  ELSE nodes[v].status
  BY <1>0, <1>1, <1>3
<1>5. u \notin visited_nodes
  BY <1>0, <1>1, NoneDeleting DEF WorkInv, UrlsOf
<1>6. /\ u \in WithStatus("pending")
      /\ WithStatus("pending")' = WithStatus("pending") \ {u}
      /\ Leased' = Leased \cup {u}
      /\ Work!Of(HostOf[u], Leased) = {}
  BY <1>1, <1>3, <1>4, <1>5 DEF WithStatus, Work!Of, Leased
<1>7. Work!Lease(u)
  BY <1>0, <1>1, <1>2, <1>3, <1>6 DEF Work!Lease, Req, Leased
<1> QED
  BY <1>1, <1>7 DEF Work!Next

LEMMA PublishMaps ==
    ASSUME WorkInv, WorkInv', NEW s \in Slots, Publish(s)
    PROVE  Work!Next
<1> DEFINE h == hnd[s].root
           u == hnd[s].url
<1>0. /\ HandlerOK(s) /\ h \in Hosts /\ svc' = svc /\ UNCHANGED tables
      /\ hnd[s].pc = "publish"
  BY PublishEffect DEF WorkInv, Parts, TypeOK, Handler
<1>1. /\ \A g \in Hosts : Asked(g)' = IF g = h THEN u ELSE Asked(g)
      /\ Asked(h) = "asked"
  <2>1. PICK k \in Hosts : k = h
    BY <1>0
  <2>2. /\ \A g \in Hosts \ {k} : Asked(g)' = Asked(g)
        /\ Asked(k) = "asked"
        /\ Asked(k)' = u
    BY <2>1, PublishAsked
  <2> QED
    BY <2>1, <2>2
<1>2. Req' = [Req EXCEPT ![h] = u] /\ Req[h] = "asked"
  BY <1>0, <1>1 DEF Req
<1>3. /\ WithStatus("pending")' = WithStatus("pending")
      /\ Leased' = Leased
      /\ visited_nodes' = visited_nodes
  BY <1>0 DEF WithStatus, tables, Leased
<1>4. CASE u # End
  <2>1. u \in UrlsOf(h) /\ nodes[u].status = "in_progress"
    BY <1>0, <1>4 DEF HandlerOK, HoldsLease
  <2>2. u \in Urls /\ HostOf[u] = h /\ u \in Leased
    BY <1>0, <2>1, NoneDeleting DEF WorkInv, UrlsOf, WithStatus, Leased
  <2>3. Work!Give(u)
    BY <1>0, <1>2, <1>3, <2>2 DEF Work!Give, Req, Leased
  <2> QED
    BY <2>2, <2>3 DEF Work!Next
<1>5. CASE u = End
  <2>1. Rows(h) = {}
    BY <1>0, <1>5 DEF HandlerOK
  <2>2. /\ Work!Of(h, WithStatus("pending")) = {}
        /\ Work!Of(h, Leased) = {}
    BY <2>1 DEF Rows, UrlsOf, WithStatus, Work!Of, Leased
  <2>3. Work!GiveEnd(h)
    BY <1>0, <1>2, <1>3, <1>5, <2>2 DEF Work!GiveEnd, Req, Leased
  <2> QED
    BY <1>0, <2>3 DEF Work!Next
<1> QED
  BY <1>4, <1>5

\* Recording the url is a step of the list, whether the row goes with it or
\* later.
LEMMA RecordMaps ==
    ASSUME WorkInv, WorkInv', NEW s \in Slots, SetNodeToVisited(s)
    PROVE  Work!Next
<1> DEFINE u == hnd[s].url
<1>0. /\ nodes \in [Urls -> NodeRow] /\ hnd[s] \in Handler
      /\ hnd[s].pc = "set_visited" /\ HoldsLease(s) /\ u \notin visited_nodes
      /\ Quietly /\ \A t \in Slots \ {s} : hnd'[t] = hnd[t]
      /\ \/ SetVisited(u, hnd[s].row) /\ hnd'[s] = Idle
         \/ RecordVisited(u) /\ hnd'[s] = [hnd[s] EXCEPT !.pc = "delete_node"]
  BY VisitedEffect DEF WorkInv, Parts, TypeOK, StoreTypeOK
<1>1. /\ u \in Urls /\ HostOf[u] = hnd[s].root /\ HostOf[u] \in Hosts
      /\ nodes[u].status = "in_progress"
  BY <1>0, StoreAssumption DEF HoldsLease, UrlsOf
<1>2. \/ hnd'[s] = Idle
      \/ hnd'[s].pc = "delete_node" /\ hnd'[s].root = hnd[s].root
  BY <1>0 DEF Handler
<1>3. Req' = Req /\ Asked(HostOf[u]) # "asked"
  BY <1>0, <1>1, <1>2, DoneAsked, SameReq DEF OwingPcs, DequeuePcs, Quietly, replies
<1>4. /\ u \in Leased
      /\ WithStatus("pending")' = WithStatus("pending")
      /\ Leased' = Leased \ {u}
      /\ visited_nodes' = visited_nodes \cup {u}
  <2>1. u \in Leased
    BY <1>0, <1>1 DEF Leased, WithStatus
  <2>2. CASE SetVisited(u, hnd[s].row)
    <3>1. /\ visited_nodes' = visited_nodes \cup {u}
          /\ \A v \in Urls \ {u} : nodes'[v].status = nodes[v].status
      BY <1>0, <1>1, <2>2 DEF SetVisited
    <3>2. nodes'[u].status \in {"none", "in_progress"}
      BY <1>0, <1>1, <2>2 DEF SetVisited
    <3> QED
      BY <1>1, <2>1, <3>1, <3>2 DEF Leased, WithStatus
  <2>3. CASE RecordVisited(u)
    BY <1>1, <2>1, <2>3 DEF RecordVisited, Leased, WithStatus
  <2> QED
    BY <1>0, <2>1, <2>2, <2>3
<1>5. Work!Record(u)
  BY <1>0, <1>1, <1>3, <1>4 DEF Work!Record, Req, Leased, Quietly
<1> QED
  BY <1>1, <1>5 DEF Work!Next

\* The row that a split transaction deletes is recorded already.
LEMMA DeleteMaps ==
    ASSUME WorkInv, WorkInv', NEW s \in Slots, DeleteVisited(s)
    PROVE  UNCHANGED Work!vars
<1> DEFINE u == hnd[s].url
<1>0. /\ nodes \in [Urls -> NodeRow] /\ hnd \in [Slots -> Handler]
      /\ HandlerOK(s) /\ hnd[s].pc = "delete_node"
      /\ DeleteNode(u, hnd[s].row) /\ hnd' = [hnd EXCEPT ![s] = Idle] /\ Quietly
  BY DEF WorkInv, Parts, TypeOK, StoreTypeOK, DeleteVisited
<1>1. /\ u \in visited_nodes /\ u \in Urls
      /\ nodes[u] = [status |-> "in_progress", id |-> hnd[s].row]
  BY <1>0 DEF HandlerOK, HoldsLease, UrlsOf
<1>2. Req' = Req
  <2>1. /\ \A t \in Slots \ {s} : hnd'[t] = hnd[t]
        /\ hnd'[s] = Idle /\ cbq' = cbq
    BY <1>0 DEF Quietly, replies
  <2> QED
    BY <1>0, <2>1, DoneAsked, SameReq DEF OwingPcs, DequeuePcs
<1>3. /\ visited_nodes' = visited_nodes
      /\ \A v \in Urls \ {u} : nodes'[v].status = nodes[v].status
      /\ nodes'[u].status # "pending"
  BY <1>0, <1>1 DEF DeleteNode
<1>4. WithStatus("pending")' = WithStatus("pending") /\ Leased' = Leased
  BY <1>1, <1>3 DEF WithStatus, Leased
<1> QED
  BY <1>0, <1>2, <1>3, <1>4 DEF Work!vars, Req, Leased, Quietly

LEMMA ForgetMaps ==
    ASSUME WorkInv, WorkInv', NEW s \in Slots, RemoveQueue(s)
    PROVE  Work!Next
<1> DEFINE h == hnd[s].root
<1>0. /\ nodes \in [Urls -> NodeRow] /\ hnd \in [Slots -> Handler]
      /\ visited_nodes \subseteq Urls
      /\ HandlerOK(s) /\ h \in Hosts /\ hnd[s].pc = "remove_queue"
  BY DEF WorkInv, Parts, TypeOK, StoreTypeOK, Handler, RemoveQueue
<1>1. DeleteQueue(h) /\ hnd' = [hnd EXCEPT ![s] = Idle] /\ Quietly
  BY DEF RemoveQueue
<1>2. \A v \in Urls : HostOf[v] = h => nodes[v].status = "none"
  BY <1>0 DEF HandlerOK, Rows, UrlsOf
<1>3. Req' = Req /\ Asked(h) # "asked"
  <2>1. /\ \A t \in Slots \ {s} : hnd'[t] = hnd[t]
        /\ hnd'[s] = Idle /\ cbq' = cbq
    BY <1>0, <1>1 DEF Quietly, replies
  <2> QED
    BY <1>0, <2>1, DoneAsked, SameReq DEF OwingPcs, DequeuePcs
<1>4. \A v \in Urls : nodes'[v].status = nodes[v].status
  BY <1>0, <1>1, <1>2 DEF DeleteQueue, NodeRow
<1>5. visited_nodes' = visited_nodes \ Work!Of(h, visited_nodes)
  BY <1>0, <1>1 DEF DeleteQueue, Work!Of, UrlsOf
<1>6. /\ WithStatus("pending")' = WithStatus("pending")
      /\ Leased' = Leased
      /\ Work!Of(h, WithStatus("pending")) = {}
      /\ Work!Of(h, Leased) = {}
  BY <1>2, <1>4, <1>5 DEF WithStatus, Work!Of, Leased
<1>7. Work!Forget(h)
  BY <1>0, <1>1, <1>3, <1>5, <1>6 DEF Work!Forget, Req, Leased, Quietly
<1> QED
  BY <1>0, <1>7 DEF Work!Next

\* A length is not part of the work list.
LEMMA LengthMaps ==
    ASSUME WorkInv, WorkInv', NEW s \in Slots, CountNodes(s)
    PROVE  UNCHANGED Work!vars
<1>1. /\ hnd[s].pc = "count_nodes" /\ hnd[s].kind = "getlen"
      /\ \A t \in Slots \ {s} : hnd'[t] = hnd[t]
      /\ hnd'[s] = Idle /\ cbq' = cbq
      /\ UNCHANGED tables /\ svc' = svc
  BY DEF CountNodes, WorkInv, KindOK, Parts, TypeOK
<1>2. Req' = Req
  BY <1>1, DoneAsked, SameReq
<1> QED
  BY <1>1, <1>2 DEF Work!vars, WithStatus, Leased, Req, tables

LEMMA TakeMaps ==
    ASSUME WorkInv, WorkInv', TakeReply
    PROVE  Work!Next
<1> DEFINE m == cbq[1]
<1>0. /\ cbq # <<>> /\ cbq' = Tail(cbq) /\ cbq \in Seq(Reply)
      /\ hnd' = hnd /\ UNCHANGED tables /\ svc' = svc
      /\ AskedOK /\ AskedOK'
  BY AskedIs, AskedIsNext DEF TakeReply, WorkInv, Parts, TypeOK
<1>1. 1 \in 1..Len(cbq) /\ m \in Reply
  BY <1>0
<1> HIDE DEF m
<1>2. PICK h \in Hosts : h = m.for
  BY <1>1 DEF Reply
<1>3. m.url \notin {"idle", "asked"}
  BY <1>1, WorkAssumption DEF Reply
<1>4. \A g \in Hosts : Asking(g)' = Asking(g)
  BY <1>0 DEF Asking, Owing, Active
<1>5. Asking(h) = {}
  BY <1>1, <1>2
  DEF m, WorkInv, Parts, RepliesOK, Asking, Owing, OwingPcs, DequeuePcs
<1>6. Asked(h) = m.url
  <2>1. 1 \in Answers(h)
    BY <1>1, <1>2 DEF m, Answers
  <2> QED
    BY <1>0, <1>5, <2>1 DEF m, AskedOK
<1>7. Asked(h)' = "idle"
  <2>1. \A i \in 1..Len(cbq') : i + 1 \in 1..Len(cbq) /\ cbq'[i] = cbq[i + 1]
    BY <1>0
  <2>2. ASSUME NEW i \in 1..Len(cbq'), cbq'[i].for = h PROVE FALSE
    <3>1. i + 1 \in 1..Len(cbq) /\ cbq[i + 1].for = h
      BY <2>1, <2>2
    <3>2. i + 1 = 1
      BY <1>1, <1>2, <3>1 DEF m, WorkInv, OneReply
    <3> QED
      BY <3>2
  <2>3. Answers(h)' = {}
    BY <2>2 DEF Answers
  <2> QED
    BY <1>0, <1>4, <1>5, <2>3 DEF AskedOK
<1>8. \A g \in Hosts \ {h} : Asked(g)' = Asked(g)
  BY <1>0, <1>2, <1>4, AskedFrame DEF m
<1>9. Req' = [Req EXCEPT ![h] = "idle"] /\ Req[h] \notin {"idle", "asked"}
  BY <1>3, <1>6, <1>7, <1>8 DEF Req
<1>10. Work!Take(h)
  BY <1>0, <1>9 DEF Work!Take, Req, WithStatus, Leased, tables
<1> QED
  BY <1>10 DEF Work!Next

\* A request of a quiet host asks, unless it asks for the length.
LEMMA AskMaps ==
    ASSUME WorkInv, WorkInv', SerialClient
    PROVE  Work!Next \/ UNCHANGED Work!vars
<1>0. TypeOK /\ AskedOK /\ AskedOK'
  BY AskedIs, AskedIsNext DEF WorkInv, Parts
<1>1. PICK h \in Hosts : Quiet(h) /\ SomeRequest(h, (SUBSET UrlsOf(h)) \ {{}})
  BY DEF SerialClient
<1>2. PICK s \in Slots :
         \/ \E S \in (SUBSET UrlsOf(h)) \ {{}} : Enqueue(s, h, S)
         \/ Dequeue(s, h)
         \/ GetLen(s, h)
  BY <1>1 DEF SomeRequest
<1>3. /\ UNCHANGED <<tables, replies, svc>>
      /\ hnd[s].pc = "idle"
      /\ \A t \in Slots \ {s} : hnd'[t] = hnd[t]
      /\ hnd'[s].pc \in {"find_queue", "dq_queue", "count_nodes"}
      /\ hnd'[s].root = h
  BY <1>0, <1>2, RequestEffect
<1>4. KindOK(s)'
  BY DEF WorkInv
<1>5. \A g \in Hosts \ {h} : Asking(g)' = Asking(g)
  BY <1>3 DEF Asking, Owing, Active, OwingPcs, DequeuePcs
<1>6. \A g \in Hosts \ {h} : Asked(g)' = Asked(g)
  BY <1>3, <1>5, AskedFrame DEF replies
<1>7. Asking(h) = {} /\ Answers(h) = {}
  BY <1>1 DEF Quiet, Asking, Owing, Answers
<1>8. Asked(h) = "idle"
  BY <1>0, <1>7 DEF AskedOK
<1>9. CASE hnd'[s].pc = "count_nodes"
  <2>1. Asking(h)' = {}
    BY <1>3, <1>4, <1>7, <1>9
    DEF Asking, Owing, Active, OwingPcs, DequeuePcs, KindOK
  <2>2. Req' = Req
    BY <1>3, <1>6, <1>7, <2>1, AskedFrame, SameReq DEF replies
  <2> QED
    BY <1>3, <2>2 DEF Work!vars, WithStatus, Leased, Req, tables
<1>10. CASE hnd'[s].pc # "count_nodes"
  <2>1. s \in Asking(h)'
    BY <1>3, <1>4, <1>10
    DEF Asking, Owing, Active, OwingPcs, DequeuePcs, KindOK
  <2>2. Asked(h)' = "asked"
    BY <1>0, <2>1 DEF AskedOK
  <2>3. Req' = [Req EXCEPT ![h] = "asked"] /\ Req[h] = "idle"
    BY <1>6, <1>8, <2>2 DEF Req
  <2>4. Work!Ask(h)
    BY <1>3, <2>3 DEF Work!Ask, Req, WithStatus, Leased, tables
  <2> QED
    BY <2>4 DEF Work!Next
<1> QED
  BY <1>9, <1>10

\* A crash takes every request and every answer, and nothing of the list.
LEMMA CrashMaps ==
    ASSUME WorkInv, WorkInv', Crash
    PROVE  Work!Next
<1>0. AskedOK'
  BY AskedIsNext DEF WorkInv
<1>1. /\ svc = "up" /\ svc' = "crashed" /\ UNCHANGED tables /\ cbq' = <<>>
      /\ \A t \in Slots : hnd'[t].pc = "idle"
  BY DEF Crash, Stop, Idle, Handling
<1>2. \A g \in Hosts : Asking(g)' = {} /\ Answers(g)' = {}
  BY <1>1 DEF Asking, Owing, Active, Answers
<1>3. Req' = [h \in Hosts |-> "idle"]
  BY <1>0, <1>2 DEF Req, AskedOK
<1>4. Work!Crash
  BY <1>1, <1>3 DEF Work!Crash, Req, WithStatus, Leased, tables
<1> QED
  BY <1>4 DEF Work!Next

LEMMA RestartMaps ==
    ASSUME WorkInv, WorkInv', Restart
    PROVE  Work!Next
<1>1. /\ svc # "up" /\ svc' = "up" /\ UNCHANGED <<tables, hnd, cbq>>
  BY DEF Restart, replies
<1>2. Req' = Req
  BY <1>1, AskedFrame, SameReq DEF Asking, Owing, Active
<1>3. Work!Restart
  BY <1>1, <1>2 DEF Work!Restart, Req, WithStatus, Leased, tables
<1> QED
  BY <1>3 DEF Work!Next

LEMMA InitMaps == Init => Work!Init
<1> SUFFICES ASSUME Init PROVE Work!Init
  OBVIOUS
<1>1. /\ WithStatus("pending") = {} /\ Leased = {}
      /\ visited_nodes = {} /\ svc = "up" /\ cbq = <<>>
  BY DEF Init, StoreInit, WithStatus, Leased
<1>2. \A h \in Hosts : Asking(h) = {} /\ Answers(h) = {}
  BY <1>1 DEF Init, Asking, Owing, Active, Answers, Idle, Handling
<1>3. Req = [h \in Hosts |-> "idle"]
  BY <1>2, WorkInit, AskedIs DEF WorkInv, Req, AskedOK
<1> QED
  BY <1>1, <1>3 DEF Work!Init, Req, Leased

LEMMA StepMaps ==
    ASSUME WorkInv, WorkInv', ~SqlFaults, [SerialNext]_vars
    PROVE  [Work!Next]_Work!vars
<1>1. ASSUME NEW s \in Slots, HandlerStep(s)
      PROVE  [Work!Next]_Work!vars
  BY <1>1, HandlerCases, QuietMaps, InsertMaps, LeaseMaps, PublishMaps,
     RecordMaps, DeleteMaps, ForgetMaps, LengthMaps
<1>2. CASE Crash \/ Restart \/ TakeReply \/ SerialClient
  BY <1>2, CrashMaps, RestartMaps, TakeMaps, AskMaps
<1>3. CASE TakeLen \/ UNCHANGED vars
  <2>1. UNCHANGED <<tables, hnd, cbq, svc>>
    BY <1>3 DEF TakeLen, vars, replies
  <2>2. Req' = Req
    BY <2>1, AskedFrame, SameReq DEF Asking, Owing, Active
  <2> QED
    BY <2>1, <2>2 DEF Work!vars, WithStatus, Leased, Req, tables
<1> QED
  BY <1>1, <1>2, <1>3 DEF SerialNext, ServiceStep

----------------------------------------------------------------------------

\* For serial clients, with transactions that may be split over connections
\* but no crash between their statements, the database service is the work
\* list that module Frontier describes: it hands out one url of a host at a
\* time, no url twice before it declares the list exhausted, declares that
\* only when it is, and loses nothing of the list in a crash (database.ts and
\* rabbitmq/index.ts, CrawlerHandler).
THEOREM SplitsKeepWorkList ==
    ASSUME ~SqlFaults
    PROVE  SerialSpec /\ [][~CrashSplits]_vars => ImplementsWorkList
<1>1. WorkInv /\ [SerialNext]_vars /\ [~CrashSplits]_vars => WorkInv'
  BY WorkStep
<1>2. WorkInv /\ WorkInv' /\ [SerialNext]_vars => [Work!Next]_Work!vars
  BY StepMaps
<1>3. SerialSpec /\ [][~CrashSplits]_vars => Work!Spec
  BY <1>1, <1>2, WorkInit, InitMaps, PTL DEF SerialSpec, Work!Spec
<1> QED
  BY <1>3 DEF ImplementsWorkList

\* With whole transactions, it is that work list whatever the crashes.
THEOREM ServiceIsWorkList ==
    ASSUME ~SqlFaults, ~PoolSplits PROVE SerialSpec => ImplementsWorkList
<1>1. SerialSpec => []Parts
  BY SerialParts
<1>2. Parts => ~CrashSplits
  BY WholeCrash
<1> QED
  BY <1>1, <1>2, SplitsKeepWorkList, PTL
=============================================================================
