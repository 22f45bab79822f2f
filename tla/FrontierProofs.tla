--------------------------- MODULE FrontierProofs ---------------------------
(***************************************************************************)
(* Theorems about FrontierService, for every set of urls, hosts and        *)
(* handler slots and every value of the bounds.                            *)
(***************************************************************************)
EXTENDS FrontierService, TLAPS

\* Any client, serial or not.
AnyRequest ==
    \E h \in Hosts, S \in SUBSET Urls, s \in Slots :
       Enqueue(s, h, S) \/ Dequeue(s, h) \/ GetLen(s, h)

AnyNext == ServiceStep \/ TakeReply \/ TakeLen \/ AnyRequest

----------------------------------------------------------------------------
(* Type correctness.  It is not inductive alone: a statement about a node  *)
(* must not be reached with the End of an earlier answer in hand.          *)

HoldsUrl ==
    \A s \in Slots :
       hnd[s].pc \in {"insert_node", "dq_update", "dq_count", "set_visited",
                      "delete_node"}
          => hnd[s].url \in Urls

LEMMA IdleType == Idle \in Handler
<1>1. (CHOOSE h \in Hosts : TRUE) \in Hosts
  BY ServiceAssumption
<1> QED
  BY <1>1, StoreAssumption, ServiceAssumption
  DEF Idle, Handling, Handler, OwingPcs, DequeuePcs

LEMMA InitType == Init => TypeOK
<1> SUFFICES ASSUME Init PROVE TypeOK
  OBVIOUS
<1> QED
  BY IdleType, StoreAssumption, ServiceAssumption
  DEF Init, StoreInit, TypeOK, StoreTypeOK, QueueRow, NodeRow

\* Requests and consumed replies keep the type.
LEMMA ClientType ==
    ASSUME TypeOK, AnyRequest \/ TakeReply \/ TakeLen
    PROVE  TypeOK'
<1>1. CASE TakeReply
  BY <1>1 DEF TakeReply, TypeOK, StoreTypeOK, tables
<1>2. CASE TakeLen
  BY <1>2 DEF TakeLen, TypeOK, StoreTypeOK, tables
<1>3. CASE AnyRequest
  <2>1. PICK h \in Hosts, S \in SUBSET Urls, s \in Slots :
           Enqueue(s, h, S) \/ Dequeue(s, h) \/ GetLen(s, h)
    BY <1>3 DEF AnyRequest
  <2>2. \A pc \in OwingPcs, kind \in {"enqueue", "enqueue_empty", "dequeue", "getlen"} :
           Handling(pc, kind, h, S) \in Handler
               /\ Handling(pc, kind, h, {}) \in Handler
    BY <2>1, StoreAssumption DEF Handling, Handler
  <2>3. \E f \in Handler : hnd' = [hnd EXCEPT ![s] = f]
    BY <2>1, <2>2
    DEF Enqueue, Dequeue, GetLen, Request, OwingPcs, DequeuePcs
  <2>4. UNCHANGED <<tables, replies, svc, restarts>>
    BY <2>1 DEF Enqueue, Dequeue, GetLen, Request
  <2> QED
    BY <2>3, <2>4 DEF TypeOK, StoreTypeOK, tables, replies
<1> QED
  BY <1>1, <1>2, <1>3

\* A stop, from outside or by a throw, leaves a typed state.
LEMMA StopType ==
    ASSUME TypeOK, NEW how \in {"crashed", "threw"}, Stop(how), UNCHANGED tables
    PROVE  TypeOK'
BY IdleType DEF Stop, TypeOK, StoreTypeOK, tables

\* A step of a handler that rewrites its own record only.
LEMMA OwnStepType ==
    ASSUME TypeOK, NEW s \in Slots, NEW f \in Handler,
           hnd' = [hnd EXCEPT ![s] = f], Quietly, StoreTypeOK'
    PROVE  TypeOK'
BY DEF TypeOK, Quietly, replies

\* The SQL statements keep the tables typed.
LEMMA StoreType ==
    ASSUME StoreTypeOK
    PROVE  /\ UNCHANGED tables => StoreTypeOK'
           /\ \A h \in Hosts : queues[h].id < MaxQueues /\ InsertQueue(h)
                                  => StoreTypeOK'
           /\ \A u \in Urls : nodes[u].id < MaxRows /\ InsertNode(u)
                                  => StoreTypeOK'
           /\ \A u \in Urls : \A r, q : SetInProgress(u, r, q) => StoreTypeOK'
           /\ \A u \in Urls : \A r : SetVisited(u, r) => StoreTypeOK'
           /\ \A u \in Urls : RecordVisited(u) => StoreTypeOK'
           /\ \A u \in Urls : \A r : DeleteNode(u, r) => StoreTypeOK'
           /\ \A h \in Hosts : DeleteQueue(h) => StoreTypeOK'
<1> USE StoreAssumption DEF StoreTypeOK, QueueRow, NodeRow
<1>1. UNCHANGED tables => StoreTypeOK'
  BY DEF tables
<1>2. \A h \in Hosts : queues[h].id < MaxQueues /\ InsertQueue(h) => StoreTypeOK'
  BY DEF InsertQueue
<1>3. \A u \in Urls : nodes[u].id < MaxRows /\ InsertNode(u) => StoreTypeOK'
  BY DEF InsertNode
<1>4. \A u \in Urls : \A r, q : SetInProgress(u, r, q) => StoreTypeOK'
  BY DEF SetInProgress
<1>5. \A u \in Urls : \A r : SetVisited(u, r) => StoreTypeOK'
  BY DEF SetVisited
<1>6. ASSUME NEW h \in Hosts, DeleteQueue(h) PROVE StoreTypeOK'
  <2>1. \A u \in Urls : [nodes[u] EXCEPT !.status = "none"] \in NodeRow
    OBVIOUS
  <2>2. nodes' \in [Urls -> NodeRow]
    BY <1>6, <2>1 DEF DeleteQueue
  <2>3. queues' \in [Hosts -> QueueRow]
    BY <1>6 DEF DeleteQueue
  <2> QED
    BY <1>6, <2>2, <2>3 DEF DeleteQueue
<1>7. \A u \in Urls : RecordVisited(u) => StoreTypeOK'
  BY DEF RecordVisited
<1>8. \A u \in Urls : \A r : DeleteNode(u, r) => StoreTypeOK'
  BY DEF DeleteNode
<1> QED
  BY <1>1, <1>2, <1>3, <1>4, <1>5, <1>6, <1>7, <1>8

LEMMA HandlerType ==
    ASSUME TypeOK, HoldsUrl, NEW s \in Slots, HandlerStep(s)
    PROVE  TypeOK'
<1> DEFINE h == hnd[s].root
           u == hnd[s].url
           Own == \E f \in Handler : hnd' = [hnd EXCEPT ![s] = f]
<1>0. /\ hnd \in [Slots -> Handler] /\ hnd[s] \in Handler
      /\ h \in Hosts /\ u \in Urls \cup {End} /\ StoreTypeOK
  BY DEF TypeOK, Handler
<1> USE StoreAssumption, ServiceAssumption
<1>a. ASSUME Own, Quietly, UNCHANGED tables PROVE TypeOK'
  BY <1>0, <1>a, OwnStepType, StoreType
<1>b. ASSUME NEW pc \in OwingPcs \cup {"set_visited", "delete_node",
                                       "remove_queue"}, Goto(s, pc)
      PROVE  Own
  BY <1>0, <1>b DEF Goto, Handler
<1>c. ASSUME NEW v \in Urls \cup {End}, Answer(s, v) PROVE Own
  BY <1>0, <1>c DEF Answer, Handler, OwingPcs
<1>d. ASSUME NEW v \in Urls, NEW pc \in OwingPcs, Hold(s, v, pc) PROVE Own
  <2> DEFINE f == [hnd[s] EXCEPT !.url = v, !.row = nodes[v].id, !.pc = pc]
  <2>1. f \in Handler
    BY <1>0 DEF Handler, StoreTypeOK, NodeRow
  <2>2. hnd' = [hnd EXCEPT ![s] = f]
    BY <1>0, <1>d DEF Hold
  <2> QED
    BY <2>1, <2>2
<1>e. hnd' = [hnd EXCEPT ![s] = Idle] => Own
  BY IdleType
<1>1. CASE FindQueue(s)
  <2>1. Own
    BY <1>0, <1>1 DEF FindQueue, Handler, OwingPcs, StoreTypeOK, QueueRow
  <2> QED
    BY <1>1, <1>a, <2>1 DEF FindQueue
<1>2. CASE CreateQueue(s)
  <2>1. CASE queues[h].live /\ Throw
    BY <2>1, StopType DEF Throw
  <2>2. CASE ~(queues[h].live /\ Throw)
    <3> DEFINE f == [hnd[s] EXCEPT !.pc = "reload_queue",
                                   !.q = queues[h].id + 1]
    <3>a. queues[h].id + 1 \in 0..MaxQueues
      BY <1>0, <1>2, <2>2 DEF CreateQueue, StoreTypeOK, QueueRow
    <3>b. f \in Handler
      BY <1>0, <3>a DEF Handler, OwingPcs
    <3>c. hnd' = [hnd EXCEPT ![s] = f]
      BY <1>0, <1>2, <2>2 DEF CreateQueue
    <3>1. Own
      BY <3>b, <3>c
    <3>2. StoreTypeOK'
      BY <1>0, <1>2, <2>2, StoreType DEF CreateQueue
    <3> QED
      BY <1>2, <2>2, <3>1, <3>2, OwnStepType DEF CreateQueue
  <2> QED
    BY <2>1, <2>2
<1>3. CASE ReloadQueue(s)
  BY <1>3, <1>a, <1>b, StopType DEF ReloadQueue, Throw, OwingPcs
<1>4. CASE CheckVisited(s)
  <2>1. Own
    BY <1>0, <1>4 DEF CheckVisited, Handler, OwingPcs
  <2> QED
    BY <1>4, <1>a, <2>1 DEF CheckVisited
<1>5. CASE InsertUrl(s)
  <2>0. u \in Urls
    BY <1>5 DEF InsertUrl, HoldsUrl
  <2>1. CASE Throw
    BY <2>1, StopType DEF Throw
  <2>2. CASE ~Throw
    <3>1. Own
      BY <1>5, <2>2, <1>b DEF InsertUrl, OwingPcs
    <3>2. StoreTypeOK'
      BY <1>0, <1>5, <2>0, <2>2, StoreType DEF InsertUrl
    <3> QED
      BY <1>5, <2>2, <3>1, <3>2, OwnStepType DEF InsertUrl
  <2> QED
    BY <2>1, <2>2
<1>6. CASE FinishEnqueue(s)
  <2>1. Own
    BY <1>0, <1>6 DEF FinishEnqueue, Handler, OwingPcs, DequeuePcs
  <2> QED
    BY <1>6, <1>a, <2>1 DEF FinishEnqueue
<1>7. CASE SelectQueue(s)
  <2>1. Own
    BY <1>0, <1>7, <1>c
    DEF SelectQueue, Handler, OwingPcs, DequeuePcs, StoreTypeOK, QueueRow
  <2> QED
    BY <1>7, <1>a, <2>1 DEF SelectQueue
<1>8. CASE SelectInProgress(s)
  <2>1. Own
    BY <1>8, <1>b, <1>d
    DEF SelectInProgress, Select, UrlsOf, OwingPcs, DequeuePcs
  <2> QED
    BY <1>8, <1>a, <2>1 DEF SelectInProgress
<1>9. CASE SelectPending(s)
  <2>1. Own
    BY <1>9, <1>c, <1>d
    DEF SelectPending, Select, UrlsOf, OwingPcs, DequeuePcs
  <2> QED
    BY <1>9, <1>a, <2>1 DEF SelectPending
<1>10. CASE UpdateInProgress(s)
  <2>0. u \in Urls
    BY <1>10 DEF UpdateInProgress, HoldsUrl
  <2>1. Own
    BY <1>10, <1>b DEF UpdateInProgress, OwingPcs, DequeuePcs
  <2>2. StoreTypeOK'
    BY <1>0, <1>10, <2>0, StoreType DEF UpdateInProgress
  <2> QED
    BY <1>10, <2>1, <2>2, OwnStepType DEF UpdateInProgress
<1>11. CASE CountRows(s)
  <2>1. Own
    BY <1>11, <1>b DEF CountRows, OwingPcs
  <2> QED
    BY <1>11, <1>a, <2>1 DEF CountRows
<1>12. CASE SqlError(s)
  <2>1. Own
    BY <1>12, <1>c DEF SqlError
  <2> QED
    BY <1>12, <1>a, <2>1 DEF SqlError
<1>13. CASE Publish(s)
  <2>1. Own
    BY <1>0, <1>13, <1>e DEF Publish, Handler, OwingPcs
  <2>2. cbq' \in Seq(Reply)
    BY <1>0, <1>13 DEF Publish, Reply, TypeOK
  <2> QED
    BY <1>13, <2>1, <2>2 DEF Publish, TypeOK, StoreTypeOK, tables
<1>14. CASE SetNodeToVisited(s)
  <2>0. u \in Urls
    BY <1>14 DEF SetNodeToVisited, HoldsUrl
  <2>1. CASE Throw
    BY <2>1, StopType DEF Throw
  <2>2. CASE ~Throw
    <3>1. Own
      BY <1>14, <2>2, <1>b, <1>e DEF SetNodeToVisited
    <3>2. StoreTypeOK'
      BY <1>0, <1>14, <2>0, <2>2, StoreType DEF SetNodeToVisited
    <3> QED
      BY <1>14, <2>2, <3>1, <3>2, OwnStepType DEF SetNodeToVisited
  <2> QED
    BY <2>1, <2>2
<1>15. CASE RemoveQueue(s)
  BY <1>0, <1>15, <1>e, OwnStepType, StoreType DEF RemoveQueue
<1>16. CASE CountNodes(s)
  <2>1. Own
    BY <1>16, <1>e DEF CountNodes
  <2>2. len_cbq' \in Seq(LenMsg)
    BY <1>0, <1>16 DEF CountNodes, LenMsg, TypeOK
  <2> QED
    BY <1>16, <2>1, <2>2 DEF CountNodes, TypeOK, StoreTypeOK, tables
<1>17. CASE DeleteVisited(s)
  <2>0. u \in Urls
    BY <1>17 DEF DeleteVisited, HoldsUrl
  <2> QED
    BY <1>0, <1>17, <2>0, <1>e, OwnStepType, StoreType DEF DeleteVisited
<1> QED
  BY <1>1, <1>2, <1>3, <1>4, <1>5, <1>6, <1>7, <1>8, <1>9, <1>10, <1>11,
     <1>12, <1>13, <1>14, <1>15, <1>16, <1>17 DEF HandlerStep

LEMMA OutsideType ==
    ASSUME TypeOK, Crash \/ Restart
    PROVE  TypeOK'
<1>1. CASE Crash
  BY <1>1, StopType DEF Crash
<1>2. CASE Restart
  BY <1>2, ServiceAssumption
  DEF Restart, TypeOK, StoreTypeOK, tables, replies
<1> QED
  BY <1>1, <1>2

\* A handler rewrites its own record only, unless it throws.
LEMMA OnlyOwnSlot ==
    ASSUME TypeOK, NEW s \in Slots, HandlerStep(s)
    PROVE  Throw \/ (svc' = svc /\ \A t \in Slots \ {s} : hnd'[t] = hnd[t])
<1> USE DEF TypeOK, Quietly, Goto, Answer, Hold
<1>1. CASE FindQueue(s) \/ CheckVisited(s) \/ FinishEnqueue(s)
  BY <1>1 DEF FindQueue, CheckVisited, FinishEnqueue
<1>2. CASE CreateQueue(s) \/ ReloadQueue(s) \/ InsertUrl(s)
  BY <1>2 DEF CreateQueue, ReloadQueue, InsertUrl
<1>3. CASE SelectQueue(s) \/ SelectInProgress(s) \/ SelectPending(s)
  BY <1>3 DEF SelectQueue, SelectInProgress, SelectPending
<1>4. CASE UpdateInProgress(s) \/ CountRows(s) \/ SqlError(s)
  BY <1>4 DEF UpdateInProgress, CountRows, SqlError
<1>5. CASE Publish(s) \/ SetNodeToVisited(s) \/ DeleteVisited(s)
  BY <1>5 DEF Publish, SetNodeToVisited, DeleteVisited
<1>6. CASE RemoveQueue(s) \/ CountNodes(s)
  BY <1>6 DEF RemoveQueue, CountNodes
<1> QED
  BY <1>1, <1>2, <1>3, <1>4, <1>5, <1>6 DEF HandlerStep

\* A request rewrites one idle record and nothing else.
LEMMA RequestEffect ==
    ASSUME TypeOK, NEW s \in Slots, NEW h \in Hosts, NEW S,
           Enqueue(s, h, S) \/ Dequeue(s, h) \/ GetLen(s, h)
    PROVE  /\ UNCHANGED <<tables, replies, svc, restarts>>
           /\ hnd[s].pc = "idle"
           /\ \A t \in Slots \ {s} : hnd'[t] = hnd[t]
           /\ hnd'[s].pc \in {"find_queue", "dq_queue", "count_nodes"}
           /\ hnd'[s].root = h
BY DEF Enqueue, Dequeue, GetLen, Request, Handling, TypeOK

\* The url in hand is one whenever a statement about a node comes next.
LEMMA HoldsUrlStep ==
    ASSUME TypeOK, HoldsUrl, [AnyNext]_vars
    PROVE  HoldsUrl'
<1> SUFFICES ASSUME NEW t \in Slots,
                    hnd'[t].pc \in {"insert_node", "dq_update", "dq_count",
                                    "set_visited", "delete_node"}
             PROVE  hnd'[t].url \in Urls
  BY DEF HoldsUrl
<1>0. hnd \in [Slots -> Handler] /\ hnd[t] \in Handler
  BY DEF TypeOK
<1>a. CASE hnd'[t] = hnd[t]
  BY <1>a DEF HoldsUrl
<1>b. ~Throw
  BY DEF Throw, Stop, Idle, Handling
<1>1. ASSUME NEW s \in Slots, HandlerStep(s) PROVE hnd'[t].url \in Urls
  <2> SUFFICES ASSUME t = s PROVE hnd'[t].url \in Urls
    BY <1>1, <1>a, <1>b, OnlyOwnSlot
  <2> USE <1>0 DEF Handler
  <2>1. ~(FindQueue(s) \/ FinishEnqueue(s))
    BY DEF FindQueue, FinishEnqueue
  <2>2. ~(CreateQueue(s) \/ ReloadQueue(s) \/ InsertUrl(s))
    BY <1>b DEF CreateQueue, ReloadQueue, InsertUrl, Goto
  <2>3. CASE CheckVisited(s)
    BY <2>3 DEF CheckVisited, Handler
  <2>4. ~(SelectQueue(s) \/ CountRows(s) \/ SqlError(s))
    BY DEF SelectQueue, CountRows, SqlError, Answer, Goto
  <2>5. CASE SelectInProgress(s) \/ SelectPending(s)
    <3>1. ASSUME NEW v \in Urls, NEW pc, Hold(s, v, pc) PROVE hnd'[t].url \in Urls
      BY <3>1 DEF Hold
    <3>2. ~Goto(s, "dq_pending") /\ ~Answer(s, End)
      BY DEF Goto, Answer
    <3> QED
      BY <2>5, <3>1, <3>2 DEF SelectInProgress, SelectPending, Select, UrlsOf
  <2>6. CASE UpdateInProgress(s)
    BY <2>6 DEF UpdateInProgress, Goto, HoldsUrl
  <2>7. CASE Publish(s)
    BY <2>7 DEF Publish, Handler, Idle, Handling
  <2>8. ~(DeleteVisited(s) \/ RemoveQueue(s) \/ CountNodes(s))
    BY DEF DeleteVisited, RemoveQueue, CountNodes, Idle, Handling
  <2>9. CASE SetNodeToVisited(s)
    BY <1>b, <2>9 DEF SetNodeToVisited, Goto, Idle, Handling, HoldsUrl
  <2> QED
    BY <1>1, <2>1, <2>2, <2>3, <2>4, <2>5, <2>6, <2>7, <2>8, <2>9
    DEF HandlerStep
<1>2. CASE AnyRequest
  <2>1. PICK h \in Hosts, S \in SUBSET Urls, s \in Slots :
           Enqueue(s, h, S) \/ Dequeue(s, h) \/ GetLen(s, h)
    BY <1>2 DEF AnyRequest
  <2> QED
    BY <1>a, <2>1, RequestEffect
<1>3. CASE Crash
  BY <1>3 DEF Crash, Stop, Idle, Handling
<1>4. CASE TakeReply \/ TakeLen \/ Restart \/ UNCHANGED vars
  BY <1>4, <1>a DEF TakeReply, TakeLen, Restart, vars
<1> QED
  BY <1>1, <1>2, <1>3, <1>4 DEF AnyNext, ServiceStep

\* Every client of both specifications makes one of the requests AnyRequest.
LEMMA AnyClient ==
    /\ FreeClient => AnyRequest
    /\ SerialClient => AnyRequest
BY DEF FreeClient, SerialClient, SomeRequest, AnyRequest, UrlsOf, Dequeue, GetLen

LEMMA TypeStep ==
    ASSUME TypeOK, HoldsUrl, [AnyNext]_vars
    PROVE  TypeOK'
<1>1. CASE UNCHANGED vars
  BY <1>1 DEF vars, tables, replies, TypeOK, StoreTypeOK
<1> QED
  BY <1>1, ClientType, HandlerType, OutsideType DEF AnyNext, ServiceStep

\* Whatever the clients ask, every variable keeps its type: in particular no
\* handler reaches a statement about a node without a url in hand
\* (database.ts, rabbitmq/index.ts CrawlerHandler).
THEOREM TypeCorrect == Spec => []TypeOK
<1>1. Init => TypeOK /\ HoldsUrl
  BY InitType DEF Init, HoldsUrl, Idle, Handling
<1>2. TypeOK /\ HoldsUrl /\ [Next]_vars => (TypeOK /\ HoldsUrl)'
  BY AnyClient, TypeStep, HoldsUrlStep DEF Next, AnyNext
<1> QED
  BY <1>1, <1>2, PTL DEF Spec

THEOREM SerialTypeCorrect == SerialSpec => [](TypeOK /\ HoldsUrl)
<1>1. Init => TypeOK /\ HoldsUrl
  BY InitType DEF Init, HoldsUrl, Idle, Handling
<1>2. TypeOK /\ HoldsUrl /\ [SerialNext]_vars => (TypeOK /\ HoldsUrl)'
  BY AnyClient, TypeStep, HoldsUrlStep DEF SerialNext, AnyNext
<1> QED
  BY <1>1, <1>2, PTL DEF SerialSpec

----------------------------------------------------------------------------
(* What holds for any number of clients on a host, whatever statements of  *)
(* dequeueURL fail and however the pool splits transactions.               *)

\* Handlers deal with urls of their own host, and the row they hold is not
\* younger than the row that is there now: a row is never given an id twice.
OwnUrl(s) ==
    LET u == hnd[s].url IN
    /\ hnd[s].todo \subseteq UrlsOf(hnd[s].root)
    /\ hnd[s].pc \in {"insert_node", "dq_update", "dq_count", "set_visited",
                      "delete_node"} => u \in UrlsOf(hnd[s].root)
    /\ hnd[s].pc = "publish" => u \in UrlsOf(hnd[s].root) \cup {End}
    /\ hnd[s].pc \in {"dq_update", "dq_count", "publish", "set_visited",
                      "delete_node"} /\ u # End => hnd[s].row <= nodes[u].id

\* Between the two statements of a split transaction the row that is about to
\* be deleted is recorded, unless it has gone already.
RowRecorded(s) ==
    LET u == hnd[s].url IN
    hnd[s].pc = "delete_node" /\ nodes[u].id = hnd[s].row
       => nodes[u].status = "none" \/ u \in visited_nodes

FreeInv ==
    /\ TypeOK /\ NoOrphanRows
    /\ \A s \in Slots : OwnUrl(s) /\ RowRecorded(s)

\* What a step of the handler in slot s writes, if it does not throw.
Writes(s) ==
    LET h == hnd[s].root
        u == hnd[s].url
    IN
    \/ UNCHANGED tables
    \/ InsertQueue(h)
    \/ /\ u \in UrlsOf(h)
       /\ \/ SetInProgress(u, hnd[s].row, hnd[s].q)
          \/ DeleteNode(u, hnd[s].row) /\ hnd[s].pc = "delete_node"
          \/ /\ queues[h].live
             /\ \/ InsertNode(u)
                \/ SetVisited(u, hnd[s].row)
                \/ RecordVisited(u)
    \/ DeleteQueue(h)

LEMMA HandlerWrites ==
    ASSUME TypeOK, NEW s \in Slots, OwnUrl(s), HandlerStep(s)
    PROVE  Writes(s)
<1> USE DEF Writes
<1>1. CASE FindQueue(s) \/ CheckVisited(s) \/ FinishEnqueue(s)
  BY <1>1 DEF FindQueue, CheckVisited, FinishEnqueue
<1>2. CASE CreateQueue(s) \/ ReloadQueue(s)
  BY <1>2 DEF CreateQueue, ReloadQueue, Throw
<1>3. CASE InsertUrl(s)
  BY <1>3 DEF InsertUrl, Throw, OwnUrl, QueueExists
<1>4. CASE SelectQueue(s) \/ SelectInProgress(s) \/ SelectPending(s)
  BY <1>4 DEF SelectQueue, SelectInProgress, SelectPending
<1>5. CASE UpdateInProgress(s) \/ CountRows(s) \/ SqlError(s)
  BY <1>5 DEF UpdateInProgress, CountRows, SqlError, OwnUrl
<1>6. CASE Publish(s) \/ CountNodes(s)
  BY <1>6 DEF Publish, CountNodes
<1>7. CASE SetNodeToVisited(s)
  BY <1>7 DEF SetNodeToVisited, Throw, OwnUrl, QueueExists
<1>8. CASE DeleteVisited(s) \/ RemoveQueue(s)
  BY <1>8 DEF DeleteVisited, RemoveQueue, OwnUrl
<1> QED
  BY <1>1, <1>2, <1>3, <1>4, <1>5, <1>6, <1>7, <1>8 DEF HandlerStep

\* Ids only grow, and a row that is gone or recorded stays so while its url is
\* not given another.
Onwards ==
    \A u \in Urls :
       /\ nodes[u].id <= nodes'[u].id
       /\ /\ nodes'[u].id = nodes[u].id
          /\ nodes[u].status = "none" \/ u \in visited_nodes
          => nodes'[u].status = "none" \/ u \in visited_nodes'

\* LeavesRecorded of one step.
RecordedOnLeaving ==
    \A u \in Urls :
       nodes[u].status # "none" /\ nodes'[u].status = "none"
          => u \in visited_nodes' \/ ~queues'[HostOf[u]].live

LEMMA WritesKeep ==
    ASSUME TypeOK, NoOrphanRows, NEW s \in Slots, RowRecorded(s), Writes(s)
    PROVE  Onwards /\ NoOrphanRows' /\ RecordedOnLeaving
<1> DEFINE h == hnd[s].root
           u == hnd[s].url
<1>0. h \in Hosts /\ StoreTypeOK
  BY DEF TypeOK, Handler
<1> USE <1>0, StoreAssumption
    DEF Onwards, NoOrphanRows, RecordedOnLeaving, StoreTypeOK, QueueRow,
        NodeRow, UrlsOf
<1>1. CASE UNCHANGED tables
  BY <1>1 DEF tables
<1>2. CASE InsertQueue(h)
  BY <1>2 DEF InsertQueue
<1>3. CASE u \in UrlsOf(h) /\ SetInProgress(u, hnd[s].row, hnd[s].q)
  <2>1. CASE UNCHANGED nodes
    BY <1>3, <2>1 DEF SetInProgress
  <2>2. CASE /\ nodes[u].status # "none"
             /\ nodes' = [nodes EXCEPT ![u].status = "in_progress"]
    BY <1>3, <2>2 DEF SetInProgress
  <2> QED
    BY <1>3, <2>1, <2>2 DEF SetInProgress
<1>4. CASE /\ u \in UrlsOf(h) /\ hnd[s].pc = "delete_node"
           /\ DeleteNode(u, hnd[s].row)
  BY <1>4 DEF DeleteNode, RowRecorded
<1>5. CASE u \in UrlsOf(h) /\ queues[h].live /\ InsertNode(u)
  BY <1>5 DEF InsertNode
<1>6. CASE u \in UrlsOf(h) /\ queues[h].live /\ SetVisited(u, hnd[s].row)
  BY <1>6 DEF SetVisited
<1>7. CASE u \in UrlsOf(h) /\ queues[h].live /\ RecordVisited(u)
  BY <1>7 DEF RecordVisited
<1>8. CASE DeleteQueue(h)
  BY <1>8 DEF DeleteQueue
<1> QED
  BY <1>1, <1>2, <1>3, <1>4, <1>5, <1>6, <1>7, <1>8 DEF Writes

\* Another handler's step leaves the facts about a slot.
LEMMA BystanderKeeps ==
    ASSUME TypeOK, NEW t \in Slots, OwnUrl(t), RowRecorded(t),
           hnd'[t] = hnd[t], Onwards, StoreTypeOK'
    PROVE  OwnUrl(t)' /\ RowRecorded(t)'
<1>1. hnd[t] \in Handler /\ StoreTypeOK
  BY DEF TypeOK
<1>2. \A u \in Urls : nodes[u].id \in Nat /\ nodes'[u].id \in Nat
  BY <1>1, StoreAssumption DEF StoreTypeOK, NodeRow
<1>3. hnd[t].row \in Nat /\ hnd[t].url \in Urls \cup {End}
  BY <1>1, StoreAssumption DEF Handler
<1>4. OwnUrl(t)'
  BY <1>2, <1>3 DEF OwnUrl, Onwards, UrlsOf
<1>5. RowRecorded(t)'
  <2> SUFFICES ASSUME hnd[t].pc = "delete_node",
                      nodes'[hnd[t].url].id = hnd[t].row
               PROVE  nodes'[hnd[t].url].status = "none"
                         \/ hnd[t].url \in visited_nodes'
    BY DEF RowRecorded
  <2>1. hnd[t].url \in Urls /\ hnd[t].url # End
    BY ServiceAssumption DEF OwnUrl, UrlsOf
  <2>2. nodes[hnd[t].url].id = hnd[t].row
    BY <1>2, <1>3, <2>1 DEF OwnUrl, Onwards
  <2> QED
    BY <2>1, <2>2 DEF RowRecorded, Onwards
<1> QED
  BY <1>4, <1>5

\* A handler that has stopped knows nothing.
LEMMA StoppedKeeps ==
    ASSUME NEW t \in Slots, hnd'[t] = Idle
    PROVE  OwnUrl(t)' /\ RowRecorded(t)'
BY DEF OwnUrl, RowRecorded, Idle, Handling

LEMMA OwnStepKeeps ==
    ASSUME TypeOK, TypeOK', NEW s \in Slots, OwnUrl(s), HandlerStep(s), ~Throw,
           Onwards
    PROVE  OwnUrl(s)' /\ RowRecorded(s)'
<1> DEFINE h == hnd[s].root
           u == hnd[s].url
<1>0. /\ hnd \in [Slots -> Handler] /\ hnd[s] \in Handler
      /\ h \in Hosts /\ u \in Urls \cup {End} /\ StoreTypeOK
      /\ StoreTypeOK'
  BY DEF TypeOK, Handler
<1>i. \A v \in Urls : nodes[v].id \in Nat /\ nodes'[v].id \in Nat
  BY <1>0, StoreAssumption DEF StoreTypeOK, NodeRow
<1>j. hnd[s].row \in Nat
  BY <1>0, StoreAssumption DEF Handler
<1> USE <1>0, <1>i, <1>j, ServiceAssumption DEF OwnUrl, RowRecorded, UrlsOf, Quietly
<1>r. CASE hnd'[s] = Idle
  BY <1>r, StoppedKeeps
<1>g. ASSUME NEW pc \in {"create_queue", "check_visited", "remove_queue",
                         "dq_pending"}, Goto(s, pc)
      PROVE  OwnUrl(s)' /\ RowRecorded(s)'
  BY <1>g DEF Goto
<1>a. ASSUME Answer(s, End) PROVE OwnUrl(s)' /\ RowRecorded(s)'
  BY <1>a DEF Answer
<1>h. ASSUME NEW v \in UrlsOf(h), NEW pc \in {"dq_update", "dq_count"},
             Hold(s, v, pc), UNCHANGED tables
      PROVE  OwnUrl(s)' /\ RowRecorded(s)'
  BY <1>h DEF Hold, tables
<1>1. CASE FindQueue(s)
  BY <1>1 DEF FindQueue
<1>2. CASE CreateQueue(s)
  <2>1. hnd'[s] = [hnd[s] EXCEPT !.pc = "reload_queue", !.q = queues[h].id + 1]
    BY <1>2 DEF CreateQueue
  <2> QED
    BY <2>1
<1>12. CASE ReloadQueue(s)
  BY <1>12, <1>g DEF ReloadQueue
<1>13. CASE FinishEnqueue(s)
  <2>1. /\ hnd'[s].todo = hnd[s].todo /\ hnd'[s].root = hnd[s].root
        /\ hnd'[s].url = End /\ hnd'[s].pc \in {"publish", "dq_queue"}
    BY <1>13 DEF FinishEnqueue
  <2> QED
    BY <2>1
<1>3. CASE CheckVisited(s)
  BY <1>3 DEF CheckVisited
<1>4. CASE InsertUrl(s)
  BY <1>4, <1>g DEF InsertUrl
<1>5. CASE SelectQueue(s) \/ SqlError(s)
  <2>1. CASE Answer(s, End)
    BY <1>a, <2>1
  <2>2. CASE ~Answer(s, End)
    <3>1. SelectQueue(s) /\ queues[h].live
      BY <1>5, <2>2 DEF SelectQueue, SqlError
    <3>2. hnd'[s] = [hnd[s] EXCEPT !.q = queues[h].id, !.pc = "dq_in_progress"]
      BY <3>1 DEF SelectQueue
    <3> QED
      BY <3>2
  <2> QED
    BY <2>1, <2>2
<1>6. CASE SelectInProgress(s) \/ SelectPending(s)
  BY <1>6, <1>a, <1>g, <1>h DEF SelectInProgress, SelectPending, Select
<1>7. CASE UpdateInProgress(s)
  <2>1. hnd'[s] = [hnd[s] EXCEPT !.pc = "dq_count"]
    BY <1>7 DEF UpdateInProgress, Goto
  <2>2. u \in Urls /\ u # End /\ hnd[s].row <= nodes[u].id
    BY <1>7 DEF UpdateInProgress
  <2>3. hnd[s].row <= nodes'[u].id
    BY <2>2 DEF Onwards
  <2> QED
    BY <1>7, <2>1, <2>2, <2>3 DEF UpdateInProgress
<1>8. CASE CountRows(s)
  BY <1>8 DEF CountRows, Goto, tables
<1>9. CASE Publish(s)
  BY <1>9, <1>r DEF Publish, tables
<1>10. CASE SetNodeToVisited(s)
  <2>1. CASE Goto(s, "delete_node") /\ RecordVisited(u)
    <3>1. hnd'[s] = [hnd[s] EXCEPT !.pc = "delete_node"]
      BY <2>1 DEF Goto
    <3>2. nodes' = nodes /\ u \in visited_nodes'
      BY <2>1 DEF RecordVisited
    <3> QED
      BY <1>10, <3>1, <3>2 DEF SetNodeToVisited
  <2> QED
    BY <1>10, <1>r, <2>1 DEF SetNodeToVisited
<1>11. CASE DeleteVisited(s) \/ RemoveQueue(s) \/ CountNodes(s)
  BY <1>11, <1>r DEF DeleteVisited, RemoveQueue, CountNodes
<1> QED
  BY <1>1, <1>2, <1>3, <1>4, <1>5, <1>6, <1>7, <1>8, <1>9, <1>10, <1>11,
     <1>12, <1>13 DEF HandlerStep

\* A request names urls of its host (page_navigator.go:145).
OwnRequest ==
    \E h \in Hosts, s \in Slots : \E S \in SUBSET UrlsOf(h) :
       Enqueue(s, h, S) \/ Dequeue(s, h) \/ GetLen(s, h)

OwnNext == ServiceStep \/ TakeReply \/ TakeLen \/ OwnRequest

LEMMA FreeAsksOwn == FreeClient => OwnRequest
BY DEF FreeClient, SomeRequest, OwnRequest

LEMMA OwnIsAny == OwnRequest => AnyRequest
BY DEF OwnRequest, AnyRequest, UrlsOf

LEMMA FreeRequestKeeps ==
    ASSUME FreeInv, OwnRequest, TypeOK'
    PROVE  FreeInv' /\ RecordedOnLeaving
<1> USE DEF FreeInv
<1>1. PICK h \in Hosts, s \in Slots : \E S \in SUBSET UrlsOf(h) :
         Enqueue(s, h, S) \/ Dequeue(s, h) \/ GetLen(s, h)
  BY DEF OwnRequest
<1>2. PICK S \in SUBSET UrlsOf(h) :
         Enqueue(s, h, S) \/ Dequeue(s, h) \/ GetLen(s, h)
  BY <1>1
<1>3. UNCHANGED tables /\ \A t \in Slots \ {s} : hnd'[t] = hnd[t]
  BY <1>2, RequestEffect
<1>4. OwnUrl(s)' /\ RowRecorded(s)'
  <2>1. \E pc \in {"find_queue", "dq_queue", "count_nodes"},
           kind \in {"enqueue", "enqueue_empty", "dequeue", "getlen"} :
           hnd'[s] = Handling(pc, kind, h, S) \/ hnd'[s] = Handling(pc, kind, h, {})
    BY <1>2 DEF Enqueue, Dequeue, GetLen, Request, TypeOK
  <2> QED
    BY <2>1 DEF Handling, OwnUrl, RowRecorded
<1>5. \A t \in Slots \ {s} : OwnUrl(t)' /\ RowRecorded(t)'
  BY <1>3 DEF OwnUrl, RowRecorded, tables
<1>6. NoOrphanRows' /\ RecordedOnLeaving
  BY <1>3 DEF NoOrphanRows, RecordedOnLeaving, tables
<1> QED
  BY <1>4, <1>5, <1>6

LEMMA FreeStep ==
    ASSUME FreeInv, [OwnNext]_vars \/ Throw
    PROVE  FreeInv' /\ RecordedOnLeaving
<1> USE DEF FreeInv
<1>1. HoldsUrl
  BY DEF HoldsUrl, OwnUrl, UrlsOf
<1>2. TypeOK'
  BY <1>1, OwnIsAny, TypeStep, StopType DEF OwnNext, AnyNext, Throw
<1>3. ASSUME UNCHANGED tables,
             \A t \in Slots : hnd'[t] \in {hnd[t], Idle}
      PROVE  FreeInv' /\ RecordedOnLeaving
  <2>1. NoOrphanRows' /\ RecordedOnLeaving
    BY <1>3 DEF NoOrphanRows, RecordedOnLeaving, tables
  <2>2. \A t \in Slots : OwnUrl(t)' /\ RowRecorded(t)'
    <3> SUFFICES ASSUME NEW t \in Slots PROVE OwnUrl(t)' /\ RowRecorded(t)'
      OBVIOUS
    <3>1. CASE hnd'[t] = Idle
      BY <3>1, StoppedKeeps
    <3>2. CASE hnd'[t] = hnd[t]
      BY <1>3, <3>2 DEF OwnUrl, RowRecorded, tables
    <3> QED
      BY <1>3, <3>1, <3>2
  <2> QED
    BY <1>2, <2>1, <2>2
<1>4. ASSUME NEW s \in Slots, HandlerStep(s), ~Throw
      PROVE  FreeInv' /\ RecordedOnLeaving
  <2>1. Onwards /\ NoOrphanRows' /\ RecordedOnLeaving
    BY <1>4, HandlerWrites, WritesKeep
  <2>2. \A t \in Slots \ {s} : OwnUrl(t)' /\ RowRecorded(t)'
    BY <1>2, <1>4, <2>1, OnlyOwnSlot, BystanderKeeps DEF TypeOK
  <2>3. OwnUrl(s)' /\ RowRecorded(s)'
    BY <1>2, <1>4, <2>1, OwnStepKeeps
  <2> QED
    BY <1>2, <2>1, <2>2, <2>3
<1>5. CASE Throw \/ Crash
  BY <1>3, <1>5 DEF Throw, Crash, Stop
<1>6. CASE TakeReply \/ TakeLen \/ Restart \/ UNCHANGED vars
  BY <1>3, <1>6 DEF TakeReply, TakeLen, Restart, vars
<1>7. CASE OwnRequest
  BY <1>2, <1>7, FreeRequestKeeps
<1> QED
  BY <1>4, <1>5, <1>6, <1>7 DEF OwnNext, ServiceStep

LEMMA FreeInvInit == Init => FreeInv
<1> SUFFICES ASSUME Init PROVE FreeInv
  OBVIOUS
<1>1. NoOrphanRows
  BY DEF Init, StoreInit, NoOrphanRows
<1>2. \A s \in Slots : OwnUrl(s) /\ RowRecorded(s)
  BY DEF Init, Idle, Handling, OwnUrl, RowRecorded
<1> QED
  BY <1>1, <1>2, InitType DEF FreeInv

\* However many clients ask about a host, in any order and with any failing
\* statement, crash or split transaction, no node or visited row outlives the
\* queue it belongs to: insertNode and setNodeToVisited lose every race against
\* removeQueue (database.ts; the foreign keys of db.init.sql).
THEOREM NoRowIsOrphaned == Spec => []NoOrphanRows
<1>1. FreeInv /\ [Next]_vars => FreeInv'
  BY FreeAsksOwn, FreeStep DEF Next, OwnNext
<1>2. FreeInv => NoOrphanRows
  BY DEF FreeInv
<1> QED
  BY <1>1, <1>2, FreeInvInit, PTL DEF Spec

\* Under the same conditions a row that leaves the queue leaves it recorded,
\* or with its whole queue: a split transaction of setNodeToVisited deletes a
\* row whose url another handler could only have inserted anew under another
\* id (database.ts:310-345).
THEOREM NoRowIsLost == Spec => LeavesRecorded
<1> DEFINE P == \A u \in Urls :
                   nodes[u].status # "none" /\ nodes'[u].status = "none"
                      => u \in visited_nodes' \/ ~queues'[HostOf[u]].live
<1>1. FreeInv /\ [Next]_vars => FreeInv'
  BY FreeAsksOwn, FreeStep DEF Next, OwnNext
<1>2. FreeInv /\ [Next]_vars => [P]_vars
  BY FreeAsksOwn, FreeStep DEF Next, OwnNext, RecordedOnLeaving
<1>3. Spec => [][P]_vars
  BY <1>1, <1>2, FreeInvInit, PTL DEF Spec
<1> QED
  BY <1>3 DEF LeavesRecorded
=============================================================================
