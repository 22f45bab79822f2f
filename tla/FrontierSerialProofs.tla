------------------------ MODULE FrontierSerialProofs ------------------------
(***************************************************************************)
(* The safety of FrontierService for serial clients, for every set of      *)
(* urls, hosts and slots and every number of crashes, provided that no     *)
(* statement of dequeueURL fails and that no crash comes between the       *)
(* statements of setNodeToVisited.  SerialInv is shown inductive; a step   *)
(* touches the tables, the handler and the replies of one host only, so    *)
(* the invariant is regrouped per host first.                              *)
(***************************************************************************)
EXTENDS FrontierProofs, FrontierInvariant

(* SerialInv regrouped *)

\* The handlers of host h between the two statements of a split transaction.
Deleting(h) == {s \in Slots : hnd[s].pc = "delete_node" /\ hnd[s].root = h}

HostOK(h) ==
    \A u \in UrlsOf(h) :
       /\ nodes[u].status # "none" \/ u \in visited_nodes => queues[h].live
       /\ u \in visited_nodes =>
             nodes[u].status = "none" \/ \E s \in Deleting(h) : hnd[s].url = u
       /\ \A v \in UrlsOf(h) :
             nodes[u].status = "in_progress" /\ nodes[v].status = "in_progress"
                => u = v

RepliesOK(h) ==
    \A i \in 1..Len(cbq) :
       cbq[i].for = h =>
          /\ cbq[i].url # End =>
                /\ HostOf[cbq[i].url] = h
                /\ \/ cbq[i].url \in visited_nodes
                   \/ nodes[cbq[i].url].status = "in_progress"
          /\ \A s \in Active(h) :
                /\ hnd[s].pc \in {"set_visited", "delete_node", "remove_queue"}
                /\ hnd[s].url = cbq[i].url

Parts ==
    /\ TypeOK /\ NeverThrows /\ OneHandlerPerHost
    /\ \A s \in Slots : HandlerOK(s)
    /\ \A h \in Hosts : HostOK(h) /\ RepliesOK(h)

LEMMA PartsSay ==
    ASSUME Parts
    PROVE  /\ NoOrphanRows /\ RecordedOnce /\ OneLeasePerHost
           /\ RepliesAreLeased /\ RepliesAreCurrent
<1> USE StoreAssumption
<1>1. ASSUME NEW u \in Urls, NEW v \in Urls, HostOf[u] = HostOf[v]
      PROVE  /\ nodes[u].status # "none" \/ u \in visited_nodes
                   => queues[HostOf[u]].live
             /\ u \in visited_nodes =>
                   \/ nodes[u].status = "none"
                   \/ \E s \in Deleting(HostOf[u]) : hnd[s].url = u
             /\ nodes[u].status = "in_progress"
                   /\ nodes[v].status = "in_progress" => u = v
  <2>1. HostOf[u] \in Hosts /\ u \in UrlsOf(HostOf[u])
           /\ v \in UrlsOf(HostOf[u])
    BY <1>1 DEF UrlsOf
  <2>2. HostOK(HostOf[u])
    BY <2>1 DEF Parts
  <2> HIDE DEF Deleting
  <2> QED
    BY <2>1, <2>2 DEF HostOK
<1>2. visited_nodes \subseteq Urls
  BY DEF Parts, TypeOK, StoreTypeOK
<1>3. NoOrphanRows /\ OneLeasePerHost
  BY <1>1, <1>2 DEF NoOrphanRows, OneLeasePerHost
<1>4. RecordedOnce
  BY <1>1, <1>2 DEF RecordedOnce, Deleting
<1>5. \A i \in 1..Len(cbq) : cbq[i] \in Reply /\ cbq[i].for \in Hosts
  <2>1. cbq \in Seq(Reply)
    BY DEF Parts, TypeOK
  <2>2. \A i \in 1..Len(cbq) : cbq[i] \in Reply
    BY <2>1
  <2> QED
    BY <2>2 DEF Reply
<1>6. \A h \in Hosts : RepliesOK(h)
  BY DEF Parts
<1>7. RepliesAreLeased /\ RepliesAreCurrent
  BY <1>5, <1>6 DEF RepliesAreLeased, RepliesAreCurrent, RepliesOK, Active
<1> QED
  BY <1>3, <1>4, <1>7

\* Without split transactions no handler is between the two.
LEMMA PartsAreSerialInv ==
    ASSUME Parts, ~PoolSplits
    PROVE  SerialInv
<1>1. \A s \in Slots : hnd[s].pc # "delete_node"
  BY DEF Parts, HandlerOK
<1>2. VisitedIsGone
  BY <1>1, PartsSay DEF RecordedOnce, VisitedIsGone
<1> QED
  BY <1>2, PartsSay DEF SerialInv, Parts

\* A handler at any other step is alone on its host, so there is none.
LEMMA NoneDeleting ==
    ASSUME Parts, NEW s \in Slots, hnd[s].pc \notin {"idle", "delete_node"}
    PROVE  /\ Deleting(hnd[s].root) = {}
           /\ \A u \in UrlsOf(hnd[s].root) :
                 u \in visited_nodes => nodes[u].status = "none"
<1>1. hnd[s].root \in Hosts
  BY DEF Parts, TypeOK, Handler
<1>2. Deleting(hnd[s].root) = {}
  BY DEF Parts, OneHandlerPerHost, Deleting
<1>3. HostOK(hnd[s].root)
  BY <1>1 DEF Parts
<1> QED
  BY <1>2, <1>3 DEF HostOK

----------------------------------------------------------------------------
(* Frames *)

\* What the service knows of host h is not touched.
SameTables(h) ==
    /\ queues'[h] = queues[h]
    /\ \A u \in UrlsOf(h) : /\ nodes'[u] = nodes[u]
                            /\ u \in visited_nodes' <=> u \in visited_nodes

KeepsDeleting(h) == \A s \in Deleting(h) : hnd'[s] = hnd[s]

LEMMA SameTablesFrame ==
    ASSUME NEW h \in Hosts, SameTables(h)
    PROVE  /\ \A q : QueueExists(h, q)' <=> QueueExists(h, q)
           /\ Rows(h)' = Rows(h)
           /\ HostOK(h) /\ KeepsDeleting(h) => HostOK(h)'
<1>1. /\ \A q : QueueExists(h, q)' <=> QueueExists(h, q)
      /\ Rows(h)' = Rows(h)
  BY DEF SameTables, QueueExists, Rows, UrlsOf
<1>2. ASSUME HostOK(h), KeepsDeleting(h)
      PROVE  HostOK(h)'
  <2>1. \A s \in Deleting(h) : s \in Deleting(h)' /\ hnd'[s].url = hnd[s].url
    BY <1>2 DEF KeepsDeleting, Deleting
  <2>2. UrlsOf(h)' = UrlsOf(h)
    BY DEF UrlsOf
  <2> HIDE DEF Deleting
  <2> QED
    BY <1>2, <2>1, <2>2 DEF HostOK, SameTables
<1> QED
  BY <1>1, <1>2

\* A handler keeps its facts when neither it nor its host changes.
LEMMA HandlerFrame ==
    ASSUME TypeOK, NEW s \in Slots, hnd'[s] = hnd[s], HandlerOK(s),
           SameTables(hnd[s].root)
    PROVE  HandlerOK(s)'
<1>1. hnd[s].root \in Hosts
  BY DEF TypeOK, Handler
<1>2. HoldsLease(s) => HoldsLease(s)'
  BY <1>1, SameTablesFrame DEF HoldsLease, SameTables, UrlsOf
<1>3. HoldsLease(s) => hnd[s].url \in UrlsOf(hnd[s].root)
  BY DEF HoldsLease
<1>4. HoldsLease(s) =>
         (hnd[s].url \in visited_nodes => hnd[s].url \in visited_nodes')
  BY <1>3 DEF SameTables
<1>5. /\ \A q : QueueExists(hnd[s].root, q)' <=> QueueExists(hnd[s].root, q)
      /\ Rows(hnd[s].root)' = Rows(hnd[s].root)
  BY <1>1, SameTablesFrame
<1> QED
  BY <1>1, <1>2, <1>4, <1>5 DEF HandlerOK, SameTables, UrlsOf

\* An idle handler knows nothing.
LEMMA IdleOK ==
    ASSUME NEW s \in Slots, hnd'[s] = Idle
    PROVE  HandlerOK(s)'
BY DEF HandlerOK, Idle, Handling

LEMMA StoreFrames ==
    ASSUME TypeOK, NEW h \in Hosts, NEW g \in Hosts, g # h
    PROVE  /\ UNCHANGED tables => SameTables(g)
           /\ InsertQueue(h) => SameTables(g)
           /\ \A u \in UrlsOf(h) : InsertNode(u) => SameTables(g)
           /\ \A u \in UrlsOf(h) : \A r, q : SetInProgress(u, r, q) => SameTables(g)
           /\ \A u \in UrlsOf(h) : \A r : SetVisited(u, r) => SameTables(g)
           /\ \A u \in UrlsOf(h) : RecordVisited(u) => SameTables(g)
           /\ \A u \in UrlsOf(h) : \A r : DeleteNode(u, r) => SameTables(g)
           /\ DeleteQueue(h) => SameTables(g)
<1> USE StoreAssumption DEF SameTables, TypeOK, StoreTypeOK, UrlsOf
<1>1. UNCHANGED tables => SameTables(g)
  BY DEF tables
<1>2. InsertQueue(h) => SameTables(g)
  BY DEF InsertQueue
<1>3. \A u \in UrlsOf(h) : InsertNode(u) => SameTables(g)
  BY DEF InsertNode
<1>4. \A u \in UrlsOf(h) : \A r, q : SetInProgress(u, r, q) => SameTables(g)
  BY DEF SetInProgress
<1>5. \A u \in UrlsOf(h) : \A r : SetVisited(u, r) => SameTables(g)
  BY DEF SetVisited
<1>6. DeleteQueue(h) => SameTables(g)
  BY DEF DeleteQueue
<1>7. \A u \in UrlsOf(h) : RecordVisited(u) => SameTables(g)
  BY DEF RecordVisited
<1>8. \A u \in UrlsOf(h) : \A r : DeleteNode(u, r) => SameTables(g)
  BY DEF DeleteNode
<1> QED
  BY <1>1, <1>2, <1>3, <1>4, <1>5, <1>6, <1>7, <1>8

\* The replies to host g are as before when g is not touched and whatever is
\* appended is for another host.
LEMMA RepliesFrame ==
    ASSUME TypeOK, TypeOK', NEW g \in Hosts, SameTables(g), RepliesOK(g),
           Active(g)' \subseteq Active(g),
           \A t \in Active(g) : hnd'[t] = hnd[t],
           NEW h \in Hosts, g # h,
           cbq' = cbq \/ \E u : cbq' = Append(cbq, [url |-> u, for |-> h])
    PROVE  RepliesOK(g)'
<1>1. ASSUME NEW i \in 1..Len(cbq'), cbq'[i].for = g
      PROVE  i \in 1..Len(cbq) /\ cbq'[i] = cbq[i]
  <2>1. cbq \in Seq(Reply)
    BY DEF TypeOK
  <2>2. CASE cbq' = cbq
    BY <2>2
  <2>3. CASE \E u : cbq' = Append(cbq, [url |-> u, for |-> h])
    BY <1>1, <2>1, <2>3
  <2> QED
    BY <2>2, <2>3
<1>2. ASSUME NEW i \in 1..Len(cbq'), cbq'[i].for = g
      PROVE  /\ cbq'[i].url # End =>
                   /\ HostOf[cbq'[i].url] = g
                   /\ \/ cbq'[i].url \in visited_nodes'
                      \/ nodes'[cbq'[i].url].status = "in_progress"
             /\ \A s \in Active(g)' :
                   /\ hnd'[s].pc \in {"set_visited", "delete_node", "remove_queue"}
                   /\ hnd'[s].url = cbq'[i].url
  <2>1. i \in 1..Len(cbq) /\ cbq'[i] = cbq[i]
    BY <1>1, <1>2
  <2>2. cbq[i] \in Reply
    BY <2>1 DEF TypeOK
  <2> QED
    BY <1>2, <2>1, <2>2 DEF RepliesOK, SameTables, UrlsOf, Reply
<1> QED
  BY <1>2 DEF RepliesOK

\* A step of the handler in slot s preserves the invariant as soon as it
\* preserves the facts about that handler and its host.
LEMMA Assemble ==
    ASSUME Parts, TypeOK', NEW s \in Slots, NEW h \in Hosts,
           hnd[s].root = h,
           hnd[s].pc # "idle",
           svc' = svc,
           \A t \in Slots \ {s} : hnd'[t] = hnd[t],
           hnd'[s].pc = "idle" \/ hnd'[s].root = h,
           \A g \in Hosts \ {h} : SameTables(g),
           HandlerOK(s)', HostOK(h)', RepliesOK(h)',
           cbq' = cbq \/ \E u : cbq' = Append(cbq, [url |-> u, for |-> h])
    PROVE  Parts'
<1> USE DEF Parts
<1>0. \A t \in Slots : hnd[t].root \in Hosts
  BY DEF Parts, TypeOK, Handler
<1>1. NeverThrows' /\ OneHandlerPerHost'
  BY DEF Parts, NeverThrows, OneHandlerPerHost
<1>2. ASSUME NEW t \in Slots PROVE HandlerOK(t)'
  <2>1. CASE t = s
    BY <2>1
  <2>2. CASE t # s /\ hnd[t].pc = "idle"
    BY <2>2 DEF HandlerOK, Parts
  <2>3. CASE t # s /\ hnd[t].pc # "idle"
    <3>1. hnd[t].root # h
      BY <2>3 DEF Parts, OneHandlerPerHost
    <3> QED
      BY <1>0, <2>3, <3>1, HandlerFrame DEF Parts
  <2> QED
    BY <2>1, <2>2, <2>3
<1>3. ASSUME NEW g \in Hosts PROVE HostOK(g)' /\ RepliesOK(g)'
  <2>1. CASE g = h
    BY <2>1
  <2>2. CASE g # h
    <3>0. KeepsDeleting(g)
      BY <2>2 DEF KeepsDeleting, Deleting
    <3>1. HostOK(g)'
      BY <2>2, <3>0, SameTablesFrame DEF Parts
    <3>2. /\ Active(g)' \subseteq Active(g)
          /\ \A t \in Active(g) : hnd'[t] = hnd[t]
      BY <2>2 DEF Active
    <3>3. RepliesOK(g)'
      BY <2>2, <3>2, RepliesFrame DEF Parts
    <3> QED
      BY <3>1, <3>3
  <2> QED
    BY <2>1, <2>2
<1> QED
  BY <1>1, <1>2, <1>3 DEF Parts

LEMMA Holding == Parts => HoldsUrl
BY DEF Parts, HoldsUrl, HandlerOK, HoldsLease, UrlsOf

----------------------------------------------------------------------------
(* Steps of handlers *)

\* Nothing is under way to a client that is still owed a reply.
LEMMA NoReply ==
    ASSUME Parts, NEW s \in Slots, hnd[s].pc \in OwingPcs
    PROVE  \A i \in 1..Len(cbq) : cbq[i].for # hnd[s].root
<1>1. hnd[s].root \in Hosts /\ s \in Active(hnd[s].root)
  BY DEF Parts, TypeOK, Handler, Active, OwingPcs, DequeuePcs
<1>2. hnd[s].pc \notin {"set_visited", "delete_node", "remove_queue"}
  BY DEF OwingPcs, DequeuePcs
<1> QED
  BY <1>1, <1>2 DEF Parts, RepliesOK

LEMMA OwingStep ==
    ASSUME Parts, TypeOK', NEW s \in Slots, NEW h \in Hosts,
           hnd[s].root = h, hnd[s].pc \in OwingPcs,
           svc' = svc, cbq' = cbq,
           \A t \in Slots \ {s} : hnd'[t] = hnd[t],
           hnd'[s].pc = "idle" \/ hnd'[s].root = h,
           \A g \in Hosts \ {h} : SameTables(g),
           HandlerOK(s)', HostOK(h)'
    PROVE  Parts'
<1>1. RepliesOK(h)'
  BY NoReply DEF RepliesOK
<1>2. hnd[s].pc # "idle"
  BY DEF OwingPcs, DequeuePcs
<1> QED
  BY <1>1, <1>2, Assemble

\* A step that reads the tables only.
LEMMA ReadingStep ==
    ASSUME Parts, TypeOK', NEW s \in Slots,
           hnd[s].pc \in OwingPcs,
           svc' = svc, cbq' = cbq, UNCHANGED tables,
           \A t \in Slots \ {s} : hnd'[t] = hnd[t],
           hnd'[s].pc = "idle" \/ hnd'[s].root = hnd[s].root,
           HandlerOK(s)'
    PROVE  Parts'
<1>1. hnd[s].root \in Hosts
  BY DEF Parts, TypeOK, Handler
<1>2. \A g \in Hosts : SameTables(g)
  BY DEF SameTables, tables
<1>3. HostOK(hnd[s].root) /\ SameTables(hnd[s].root)
  BY <1>1, <1>2 DEF Parts
<1>4. \A g \in Hosts : KeepsDeleting(g)
  BY DEF KeepsDeleting, Deleting, OwingPcs, DequeuePcs
<1> HIDE DEF SameTables
<1>5. \A g \in Hosts : HostOK(g) => HostOK(g)'
  BY <1>2, <1>4, SameTablesFrame
<1> QED
  BY <1>1, <1>2, <1>3, <1>5, OwingStep

LEMMA EnqueueReads ==
    ASSUME Parts, TypeOK', NEW s \in Slots,
           FindQueue(s) \/ ReloadQueue(s) \/ CheckVisited(s) \/ FinishEnqueue(s)
    PROVE  Parts'
<1> DEFINE h == hnd[s].root
<1>0. /\ hnd \in [Slots -> Handler] /\ hnd[s] \in Handler /\ h \in Hosts
      /\ HandlerOK(s)
  BY DEF Parts, TypeOK, Handler
<1>1. CASE FindQueue(s)
  <2> USE <1>1 DEF FindQueue, Quietly, replies
  <2>1. /\ \A t \in Slots \ {s} : hnd'[t] = hnd[t]
        /\ hnd'[s].root = h
    BY <1>0 DEF Handler
  <2>2. HandlerOK(s)'
    BY <1>0 DEF HandlerOK, Handler, tables, QueueExists, UrlsOf
  <2> QED
    BY <2>1, <2>2, ReadingStep DEF OwingPcs
<1>2. CASE ReloadQueue(s)
  <2> USE <1>2 DEF ReloadQueue, Quietly, replies, Goto
  <2>0. QueueExists(h, hnd[s].q)
    BY <1>0 DEF HandlerOK
  <2>1. /\ \A t \in Slots \ {s} : hnd'[t] = hnd[t]
        /\ hnd'[s].root = h
    BY <1>0, <2>0 DEF Handler
  <2>2. HandlerOK(s)'
    BY <1>0, <2>0 DEF HandlerOK, Handler, tables, QueueExists, UrlsOf
  <2> QED
    BY <2>0, <2>1, <2>2, ReadingStep DEF OwingPcs
<1>3. CASE CheckVisited(s)
  <2>0. PICK u \in hnd[s].todo :
           hnd' = IF u \in visited_nodes
                    THEN [hnd EXCEPT ![s].todo = @ \ {u}]
                    ELSE [hnd EXCEPT ![s].todo = @ \ {u}, ![s].url = u,
                                     ![s].pc = "insert_node"]
    BY <1>3 DEF CheckVisited
  <2>1. /\ \A t \in Slots \ {s} : hnd'[t] = hnd[t]
        /\ hnd'[s].root = h
    BY <1>0, <2>0 DEF Handler
  <2>2. /\ hnd[s].todo \subseteq UrlsOf(h) /\ u \in UrlsOf(h)
        /\ QueueExists(h, hnd[s].q)
    BY <1>0, <1>3 DEF HandlerOK, CheckVisited
  <2>3. /\ hnd'[s].q = hnd[s].q /\ hnd'[s].kind = hnd[s].kind
        /\ hnd'[s].todo = hnd[s].todo \ {u}
        /\ \/ hnd'[s].pc = "check_visited"
           \/ /\ hnd'[s].pc = "insert_node" /\ hnd'[s].url = u
              /\ u \notin visited_nodes
    BY <1>0, <1>3, <2>0 DEF Handler, CheckVisited
  <2>4. HandlerOK(s)'
    BY <1>0, <1>3, <2>1, <2>2, <2>3
    DEF HandlerOK, CheckVisited, Quietly, tables, QueueExists, UrlsOf
  <2> QED
    BY <1>3, <2>1, <2>4, ReadingStep DEF OwingPcs, CheckVisited, Quietly, replies
<1>4. CASE FinishEnqueue(s)
  <2> USE <1>4 DEF FinishEnqueue, Quietly, replies
  <2>1. /\ \A t \in Slots \ {s} : hnd'[t] = hnd[t]
        /\ hnd'[s].root = h
    BY <1>0 DEF Handler
  <2>2. HandlerOK(s)'
    BY <1>0 DEF HandlerOK, Handler, tables, QueueExists, UrlsOf
  <2> QED
    BY <2>1, <2>2, ReadingStep DEF OwingPcs
<1> QED
  BY <1>1, <1>2, <1>3, <1>4

LEMMA DequeueReads ==
    ASSUME Parts, TypeOK', NEW s \in Slots,
           \/ SelectQueue(s) \/ SelectInProgress(s) \/ SelectPending(s)
           \/ CountRows(s) \/ CountNodes(s)
    PROVE  Parts'
<1> DEFINE h == hnd[s].root
<1>0. /\ hnd \in [Slots -> Handler] /\ hnd[s] \in Handler /\ h \in Hosts
      /\ HandlerOK(s) /\ HostOK(h)
  BY DEF Parts, TypeOK, Handler
<1>00. \A u \in Urls : nodes[u] \in NodeRow
  BY DEF Parts, TypeOK, StoreTypeOK
<1>1. CASE SelectQueue(s)
  <2> USE <1>1 DEF SelectQueue, Quietly, replies, Answer
  <2>1. /\ \A t \in Slots \ {s} : hnd'[t] = hnd[t]
        /\ hnd'[s].root = h
    BY <1>0 DEF Handler
  <2>2. HandlerOK(s)'
    <3>1. CASE queues[h].live
      BY <1>0, <3>1 DEF HandlerOK, Handler, tables, QueueExists, UrlsOf
    <3>2. CASE ~queues[h].live
      <4>1. Rows(h) = {}
        BY <1>0, <3>2 DEF HostOK, Rows
      <4> QED
        BY <1>0, <3>2, <4>1 DEF HandlerOK, Handler, tables, Rows, UrlsOf
    <3> QED
      BY <3>1, <3>2
  <2> QED
    BY <2>1, <2>2, ReadingStep DEF OwingPcs, DequeuePcs
<1>2. CASE SelectInProgress(s)
  <2> USE <1>2 DEF SelectInProgress, Quietly, replies, Goto, Hold
  <2>1. /\ \A t \in Slots \ {s} : hnd'[t] = hnd[t]
        /\ hnd'[s].root = h
    <3>1. ASSUME NEW u, Hold(s, u, "dq_count")
          PROVE  (\A t \in Slots \ {s} : hnd'[t] = hnd[t]) /\ hnd'[s].root = h
      BY <1>0, <3>1 DEF Handler
    <3> QED
      BY <1>0, <3>1 DEF Handler
  <2>2. HandlerOK(s)'
    <3>1. CASE \E u \in Select(h, hnd[s].q, "in_progress") :
                   Hold(s, u, "dq_count")
      <4>1. PICK u \in Select(h, hnd[s].q, "in_progress") : Hold(s, u, "dq_count")
        BY <3>1
      <4>2. /\ hnd'[s].q = hnd[s].q /\ hnd'[s].kind = hnd[s].kind
            /\ hnd'[s].todo = hnd[s].todo /\ hnd'[s].root = h
            /\ hnd'[s].pc = "dq_count"
            /\ hnd'[s].url = u /\ hnd'[s].row = nodes[u].id
        BY <1>0, <4>1 DEF Handler, Hold
      <4>3. /\ u \in UrlsOf(h) /\ QueueExists(h, hnd[s].q)
            /\ nodes[u] = [status |-> "in_progress", id |-> nodes[u].id]
        BY <1>00, <4>1 DEF Select, NodeRow, UrlsOf
      <4> QED
        BY <1>0, <4>2, <4>3
        DEF HandlerOK, HoldsLease, tables, QueueExists, UrlsOf
    <3>2. CASE Select(h, hnd[s].q, "in_progress") = {} /\ Goto(s, "dq_pending")
      <4>1. QueueExists(h, hnd[s].q)
        BY <1>0 DEF HandlerOK
      <4>2. \A v \in UrlsOf(h) : nodes[v].status # "in_progress"
        BY <3>2, <4>1 DEF Select
      <4> QED
        BY <1>0, <3>2, <4>1, <4>2
        DEF HandlerOK, Handler, tables, QueueExists, UrlsOf
    <3> QED
      BY <3>1, <3>2
  <2> QED
    BY <2>1, <2>2, ReadingStep DEF OwingPcs, DequeuePcs
<1>3. CASE SelectPending(s)
  <2> USE <1>3 DEF SelectPending, Quietly, replies, Answer, Hold
  <2>0. /\ QueueExists(h, hnd[s].q)
        /\ \A v \in UrlsOf(h) : nodes[v].status # "in_progress"
    BY <1>0 DEF HandlerOK
  <2>1. /\ \A t \in Slots \ {s} : hnd'[t] = hnd[t]
        /\ hnd'[s].root = h
    <3>1. ASSUME NEW u, Hold(s, u, "dq_update")
          PROVE  (\A t \in Slots \ {s} : hnd'[t] = hnd[t]) /\ hnd'[s].root = h
      BY <1>0, <3>1 DEF Handler
    <3>2. ASSUME Answer(s, End)
          PROVE  (\A t \in Slots \ {s} : hnd'[t] = hnd[t]) /\ hnd'[s].root = h
      BY <1>0, <3>2 DEF Handler
    <3> HIDE DEF Answer, Hold
    <3> QED
      BY <3>1, <3>2
  <2>2. HandlerOK(s)'
    <3>1. CASE \E u \in Select(h, hnd[s].q, "pending") :
                   Hold(s, u, "dq_update")
      <4>1. PICK u \in Select(h, hnd[s].q, "pending") : Hold(s, u, "dq_update")
        BY <3>1
      <4>2. /\ hnd'[s].q = hnd[s].q /\ hnd'[s].kind = hnd[s].kind
            /\ hnd'[s].todo = hnd[s].todo /\ hnd'[s].root = h
            /\ hnd'[s].pc = "dq_update"
            /\ hnd'[s].url = u /\ hnd'[s].row = nodes[u].id
        BY <1>0, <4>1 DEF Handler, Hold
      <4>3. /\ u \in UrlsOf(h) /\ QueueExists(h, hnd[s].q)
            /\ nodes[u] = [status |-> "pending", id |-> nodes[u].id]
        BY <1>00, <4>1 DEF Select, NodeRow, UrlsOf
      <4>4. /\ hnd[s].todo \subseteq UrlsOf(h) /\ hnd[s].kind # "enqueue_empty"
            /\ UNCHANGED tables
        BY <1>0 DEF HandlerOK
      <4> HIDE <1>3 DEF SelectPending, Answer, Hold, Quietly
      <4> QED
        BY <2>0, <4>2, <4>3, <4>4
        DEF HandlerOK, HoldsLease, tables, QueueExists, UrlsOf
    <3>2. CASE Select(h, hnd[s].q, "pending") = {} /\ Answer(s, End)
      <4>1. Rows(h) = {}
        BY <1>00, <2>0, <3>2 DEF Select, Rows, UrlsOf, NodeRow
      <4> QED
        BY <1>0, <3>2, <4>1 DEF HandlerOK, Handler, tables, Rows, UrlsOf
    <3> QED
      BY <3>1, <3>2
  <2> QED
    BY <2>1, <2>2, ReadingStep DEF OwingPcs, DequeuePcs
<1>4. CASE CountRows(s)
  <2> USE <1>4 DEF CountRows, Quietly, replies, Goto
  <2>1. /\ \A t \in Slots \ {s} : hnd'[t] = hnd[t]
        /\ hnd'[s].root = h
    BY <1>0 DEF Handler
  <2>2. HandlerOK(s)'
    <3>1. HoldsLease(s) /\ hnd[s].url # End
      BY <1>0, ServiceAssumption DEF HandlerOK, HoldsLease, UrlsOf
    <3> QED
      BY <1>0, <3>1 DEF HandlerOK, HoldsLease, Handler, tables, QueueExists, UrlsOf
  <2> QED
    BY <2>1, <2>2, ReadingStep DEF OwingPcs, DequeuePcs
<1>5. CASE CountNodes(s)
  <2> USE <1>5 DEF CountNodes
  <2>1. /\ \A t \in Slots \ {s} : hnd'[t] = hnd[t]
        /\ hnd'[s] = Idle
    BY <1>0
  <2>2. HandlerOK(s)' /\ hnd'[s].pc = "idle"
    BY <2>1, IdleOK DEF Idle, Handling
  <2> QED
    BY <2>1, <2>2, ReadingStep DEF OwingPcs
<1> QED
  BY <1>1, <1>2, <1>3, <1>4, <1>5

LEMMA CreateStep ==
    ASSUME Parts, TypeOK', NEW s \in Slots, CreateQueue(s),
           NEW h \in Hosts, h = hnd[s].root
    PROVE  Parts'
<1>0. /\ hnd \in [Slots -> Handler] /\ hnd[s] \in Handler /\ h \in Hosts
      /\ queues \in [Hosts -> QueueRow] /\ HandlerOK(s) /\ HostOK(h) /\ TypeOK
  BY DEF Parts, TypeOK, StoreTypeOK, Handler
<1>1. /\ hnd[s].pc = "create_queue" /\ ~queues[h].live
      /\ InsertQueue(h) /\ Quietly
      /\ hnd' = [hnd EXCEPT ![s].pc = "reload_queue",
                            ![s].q = queues[h].id + 1]
  BY <1>0 DEF CreateQueue, HandlerOK
<1>2. /\ \A t \in Slots \ {s} : hnd'[t] = hnd[t]
      /\ hnd'[s].root = h /\ hnd'[s].pc = "reload_queue"
      /\ hnd'[s].q = queues[h].id + 1
      /\ hnd'[s].todo = hnd[s].todo /\ hnd'[s].kind = hnd[s].kind
  BY <1>0, <1>1 DEF Handler
<1>3. queues'[h].live /\ queues'[h].id = queues[h].id + 1
  BY <1>0, <1>1 DEF InsertQueue, QueueRow
<1>4. HandlerOK(s)'
  BY <1>0, <1>2, <1>3 DEF HandlerOK, QueueExists, UrlsOf
<1>5. HostOK(h)'
  BY <1>0, <1>1, <1>3 DEF HostOK, InsertQueue, UrlsOf
<1>6. \A g \in Hosts \ {h} : SameTables(g)
  BY <1>0, <1>1, StoreFrames
<1> QED
  BY <1>0, <1>1, <1>2, <1>4, <1>5, <1>6, OwingStep
  DEF OwingPcs, Quietly, replies

LEMMA InsertStep ==
    ASSUME Parts, TypeOK', NEW s \in Slots, InsertUrl(s),
           NEW h \in Hosts, h = hnd[s].root
    PROVE  Parts'
<1> DEFINE u == hnd[s].url
<1>0. /\ hnd \in [Slots -> Handler] /\ hnd[s] \in Handler /\ h \in Hosts
      /\ nodes \in [Urls -> NodeRow] /\ HandlerOK(s) /\ HostOK(h) /\ TypeOK
  BY DEF Parts, TypeOK, StoreTypeOK, Handler
<1>1. /\ hnd[s].pc = "insert_node" /\ Goto(s, "check_visited") /\ Quietly
      /\ QueueExists(h, hnd[s].q)
      /\ u \in UrlsOf(h) /\ u \notin visited_nodes
  BY <1>0 DEF InsertUrl, HandlerOK
<1>2. /\ \A t \in Slots \ {s} : hnd'[t] = hnd[t]
      /\ hnd'[s].root = h /\ hnd'[s].pc = "check_visited"
      /\ hnd'[s].q = hnd[s].q
      /\ hnd'[s].todo = hnd[s].todo /\ hnd'[s].kind = hnd[s].kind
  BY <1>0, <1>1 DEF Handler, Goto
<1>3. queues' = queues /\ visited_nodes' = visited_nodes
  BY <1>1 DEF InsertUrl, InsertNode, tables
<1>4. HandlerOK(s)'
  BY <1>0, <1>1, <1>2, <1>3 DEF HandlerOK, QueueExists, UrlsOf
<1>v. \A v \in UrlsOf(h) : v \in visited_nodes => nodes[v].status = "none"
  BY <1>1, NoneDeleting
<1>5. CASE UNCHANGED tables
  BY <1>1, <1>2, <1>4, <1>5, ReadingStep DEF OwingPcs, Quietly, replies
<1>6. CASE nodes[u].status = "none" /\ InsertNode(u)
  <2>1. \A v \in Urls : nodes'[v] = IF v = u THEN nodes'[u] ELSE nodes[v]
    BY <1>0, <1>6 DEF InsertNode
  <2>2. nodes'[u].status = "pending"
    BY <1>0, <1>1, <1>6 DEF InsertNode, UrlsOf
  <2>3. HostOK(h)'
    <3>1. queues'[h].live
      BY <1>1, <1>3 DEF QueueExists
    <3>2. ASSUME NEW v \in UrlsOf(h), NEW w \in UrlsOf(h)
          PROVE  /\ v \in visited_nodes' => nodes'[v].status = "none"
                 /\ nodes'[v].status = "in_progress"
                       /\ nodes'[w].status = "in_progress" => v = w
      <4>1. v \in Urls /\ w \in Urls
        BY DEF UrlsOf
      <4>2. /\ v \in visited_nodes => nodes[v].status = "none"
            /\ nodes[v].status = "in_progress"
                  /\ nodes[w].status = "in_progress" => v = w
        BY <1>0, <1>v DEF HostOK
      <4> QED
        BY <1>1, <1>3, <2>1, <2>2, <4>1, <4>2
    <3> QED
      BY <3>1, <3>2 DEF HostOK, UrlsOf
  <2>4. \A g \in Hosts \ {h} : SameTables(g)
    BY <1>0, <1>1, <1>6, StoreFrames
  <2> QED
    BY <1>0, <1>1, <1>2, <1>4, <2>3, <2>4, OwingStep
    DEF OwingPcs, Quietly, replies
<1> QED
  BY <1>1, <1>5, <1>6 DEF InsertUrl

LEMMA LeaseStep ==
    ASSUME Parts, TypeOK', NEW s \in Slots, UpdateInProgress(s),
           NEW h \in Hosts, h = hnd[s].root
    PROVE  Parts'
<1> DEFINE u == hnd[s].url
<1>0. /\ hnd \in [Slots -> Handler] /\ hnd[s] \in Handler /\ h \in Hosts
      /\ nodes \in [Urls -> NodeRow] /\ HandlerOK(s) /\ HostOK(h) /\ TypeOK
  BY DEF Parts, TypeOK, StoreTypeOK, Handler
<1>1. /\ hnd[s].pc = "dq_update" /\ Goto(s, "dq_count") /\ Quietly
      /\ QueueExists(h, hnd[s].q) /\ u \in UrlsOf(h)
      /\ nodes[u] = [status |-> "pending", id |-> hnd[s].row]
      /\ \A v \in UrlsOf(h) : nodes[v].status # "in_progress"
  BY <1>0 DEF UpdateInProgress, HandlerOK
<1>2. /\ \A t \in Slots \ {s} : hnd'[t] = hnd[t]
      /\ hnd'[s].root = h /\ hnd'[s].pc = "dq_count"
      /\ hnd'[s].q = hnd[s].q /\ hnd'[s].url = u /\ hnd'[s].row = hnd[s].row
      /\ hnd'[s].todo = hnd[s].todo /\ hnd'[s].kind = hnd[s].kind
  BY <1>0, <1>1 DEF Handler, Goto
<1>3. /\ queues' = queues /\ visited_nodes' = visited_nodes
      /\ nodes' = [nodes EXCEPT ![u].status = "in_progress"]
  BY <1>1 DEF UpdateInProgress, SetInProgress, UrlsOf
<1>4. /\ nodes'[u] = [status |-> "in_progress", id |-> hnd[s].row]
      /\ \A v \in Urls \ {u} : nodes'[v] = nodes[v]
  BY <1>0, <1>1, <1>3 DEF UrlsOf
<1>5. HandlerOK(s)'
  BY <1>0, <1>1, <1>2, <1>3, <1>4
  DEF HandlerOK, HoldsLease, QueueExists, UrlsOf
<1>6. HostOK(h)'
  <2>1. queues'[h].live
    BY <1>1, <1>3 DEF QueueExists
  <2>2. ASSUME NEW v \in UrlsOf(h), NEW w \in UrlsOf(h)
        PROVE  /\ v \in visited_nodes' => nodes'[v].status = "none"
               /\ nodes'[v].status = "in_progress"
                     /\ nodes'[w].status = "in_progress" => v = w
    <3>1. v \in Urls /\ w \in Urls
      BY DEF UrlsOf
    <3>2. v \in visited_nodes => nodes[v].status = "none"
      BY <1>1, NoneDeleting
    <3>3. nodes[u].status = "pending"
      BY <1>1
    <3> QED
      BY <1>1, <1>3, <1>4, <3>1, <3>2, <3>3
  <2> QED
    BY <2>1, <2>2 DEF HostOK, UrlsOf
<1>7. \A g \in Hosts \ {h} : SameTables(g)
  BY <1>0, <1>1, StoreFrames DEF UpdateInProgress
<1> QED
  BY <1>0, <1>1, <1>2, <1>5, <1>6, <1>7, OwingStep
  DEF OwingPcs, DequeuePcs, Quietly, replies

LEMMA PublishStep ==
    ASSUME Parts, TypeOK', NEW s \in Slots, Publish(s),
           NEW h \in Hosts, h = hnd[s].root
    PROVE  Parts'
<1> DEFINE u == hnd[s].url
<1>0. /\ hnd \in [Slots -> Handler] /\ hnd[s] \in Handler
      /\ cbq \in Seq(Reply) /\ HandlerOK(s) /\ HostOK(h) /\ TypeOK
  BY DEF Parts, TypeOK
<1>1. /\ hnd[s].pc = "publish" /\ svc' = svc /\ UNCHANGED tables
      /\ cbq' = Append(cbq, [url |-> u, for |-> h])
      /\ hnd' = [hnd EXCEPT ![s].pc = IF u = End THEN "remove_queue"
                                                 ELSE "set_visited"]
  BY <1>0 DEF Publish, HandlerOK
<1>2. /\ \A t \in Slots \ {s} : hnd'[t] = hnd[t]
      /\ hnd'[s].root = h /\ hnd'[s].url = u
      /\ hnd'[s].pc = IF u = End THEN "remove_queue" ELSE "set_visited"
      /\ hnd'[s].q = hnd[s].q /\ hnd'[s].row = hnd[s].row
      /\ hnd'[s].todo = hnd[s].todo /\ hnd'[s].kind = hnd[s].kind
  BY <1>0, <1>1 DEF Handler
<1>3. \A g \in Hosts : SameTables(g)
  BY <1>1 DEF SameTables, tables
<1>4. HandlerOK(s)'
  BY <1>0, <1>1, <1>2
  DEF HandlerOK, HoldsLease, tables, Rows, QueueExists, UrlsOf
<1>5. HostOK(h)'
  <2>1. KeepsDeleting(h)
    BY <1>1, <1>2 DEF KeepsDeleting, Deleting
  <2> QED
    BY <1>0, <1>3, <2>1, SameTablesFrame
<1>6. Active(h)' \subseteq {s}
  BY <1>1, <1>2 DEF Active, Parts, OneHandlerPerHost
<1>7. u # End => HostOf[u] = h /\ nodes[u].status = "in_progress"
  BY <1>0, <1>1 DEF HandlerOK, HoldsLease, UrlsOf
<1>8. RepliesOK(h)'
  <2> SUFFICES ASSUME NEW i \in 1..Len(cbq'), cbq'[i].for = h
               PROVE  /\ cbq'[i].url = u
                      /\ \A t \in Active(h)' :
                            /\ hnd'[t].pc \in {"set_visited", "delete_node",
                                               "remove_queue"}
                            /\ hnd'[t].url = u
    BY <1>1, <1>7 DEF RepliesOK, tables
  <2>1. \A j \in 1..Len(cbq) : cbq[j].for # h
    BY <1>1, NoReply DEF OwingPcs
  <2>2. cbq'[i].url = u
    BY <1>0, <1>1, <2>1
  <2> QED
    BY <1>2, <1>6, <2>2
<1> QED
  BY <1>1, <1>2, <1>3, <1>4, <1>5, <1>8, Assemble

LEMMA RecordStep ==
    ASSUME Parts, TypeOK', NEW s \in Slots, NEW h \in Hosts, h = hnd[s].root,
           hnd[s].pc = "set_visited", SetVisited(hnd[s].url, hnd[s].row),
           hnd' = [hnd EXCEPT ![s] = Idle], Quietly
    PROVE  Parts'
<1> DEFINE u == hnd[s].url
<1>0. /\ hnd \in [Slots -> Handler] /\ nodes \in [Urls -> NodeRow]
      /\ HandlerOK(s) /\ HostOK(h) /\ RepliesOK(h) /\ TypeOK
  BY DEF Parts, TypeOK, StoreTypeOK
<1>1. /\ hnd[s].pc = "set_visited"
      /\ u \in UrlsOf(h) /\ u \in Urls /\ queues[h].live /\ QueueExists(h, hnd[s].q)
      /\ nodes[u] = [status |-> "in_progress", id |-> hnd[s].row]
  BY <1>0 DEF HandlerOK, HoldsLease, QueueExists, UrlsOf
<1>2. \A v \in UrlsOf(h) : v \in visited_nodes => nodes[v].status = "none"
  BY <1>1, NoneDeleting
<1>3. /\ SetVisited(u, hnd[s].row) /\ hnd' = [hnd EXCEPT ![s] = Idle]
      /\ Quietly
  OBVIOUS
<1>4. /\ \A t \in Slots \ {s} : hnd'[t] = hnd[t]
      /\ hnd'[s] = Idle /\ hnd'[s].pc = "idle"
  BY <1>0, <1>3 DEF Idle, Handling
<1>5. /\ queues' = queues /\ visited_nodes' = visited_nodes \cup {u}
      /\ nodes' = [nodes EXCEPT ![u].status = "none"]
  BY <1>1, <1>3 DEF SetVisited
<1>6. nodes'[u].status = "none" /\ \A v \in Urls \ {u} : nodes'[v] = nodes[v]
  BY <1>0, <1>1, <1>5
<1>7. HostOK(h)'
  <2>1. ASSUME NEW v \in UrlsOf(h), NEW w \in UrlsOf(h)
        PROVE  /\ v \in visited_nodes' => nodes'[v].status = "none"
               /\ nodes'[v].status = "in_progress"
                     /\ nodes'[w].status = "in_progress" => v = w
    <3>1. v \in Urls /\ w \in Urls
      BY DEF UrlsOf
    <3>2. /\ v \in visited_nodes => nodes[v].status = "none"
          /\ nodes[v].status = "in_progress"
                /\ nodes[w].status = "in_progress" => v = w
      BY <1>0, <1>2 DEF HostOK
    <3> QED
      BY <1>5, <1>6, <3>1, <3>2
  <2> QED
    BY <1>1, <1>5, <2>1 DEF HostOK, UrlsOf
<1>8. RepliesOK(h)'
  <2>1. Active(h)' = {}
    BY <1>1, <1>4 DEF Active, Parts, OneHandlerPerHost
  <2>2. s \in Active(h) /\ cbq' = cbq
    BY <1>1, <1>3 DEF Active, Quietly, replies
  <2>3. \A i \in 1..Len(cbq) : cbq[i].for = h => cbq[i].url = u /\ HostOf[u] = h
    BY <1>0, <1>1, <2>2 DEF RepliesOK, UrlsOf
  <2> QED
    BY <1>5, <2>1, <2>2, <2>3 DEF RepliesOK
<1>9. \A g \in Hosts \ {h} : SameTables(g)
  BY <1>0, <1>1, <1>3, StoreFrames
<1> QED
  BY <1>1, <1>3, <1>4, <1>7, <1>8, <1>9, IdleOK, Assemble DEF Quietly, replies

\* The INSERT of a split transaction: the row is still there, and the handler is
\* about to delete it.
LEMMA SplitStep ==
    ASSUME Parts, TypeOK', NEW s \in Slots, NEW h \in Hosts, h = hnd[s].root,
           hnd[s].pc = "set_visited", PoolSplits, RecordVisited(hnd[s].url),
           Goto(s, "delete_node"), Quietly
    PROVE  Parts'
<1> DEFINE u == hnd[s].url
<1>0. /\ hnd \in [Slots -> Handler] /\ hnd[s] \in Handler
      /\ HandlerOK(s) /\ HostOK(h) /\ RepliesOK(h) /\ TypeOK
  BY DEF Parts, TypeOK, StoreTypeOK
<1>1. /\ hnd[s].pc = "set_visited" /\ HoldsLease(s)
      /\ u \in UrlsOf(h) /\ queues[h].live
  BY <1>0 DEF HandlerOK, HoldsLease, QueueExists, UrlsOf
<1>2. /\ \A t \in Slots \ {s} : hnd'[t] = hnd[t]
      /\ hnd'[s].root = h /\ hnd'[s].pc = "delete_node"
      /\ hnd'[s].q = hnd[s].q /\ hnd'[s].url = u /\ hnd'[s].row = hnd[s].row
      /\ hnd'[s].todo = hnd[s].todo /\ hnd'[s].kind = hnd[s].kind
  BY <1>0 DEF Handler, Goto
<1>3. /\ queues' = queues /\ visited_nodes' = visited_nodes \cup {u}
      /\ nodes' = nodes
  BY DEF RecordVisited
<1>4. HandlerOK(s)'
  <2>1. HoldsLease(s)'
    BY <1>0, <1>1, <1>2, <1>3 DEF HoldsLease, QueueExists, UrlsOf
  <2>2. hnd[s].todo \subseteq UrlsOf(h) /\ hnd[s].kind # "enqueue_empty"
    BY <1>0 DEF HandlerOK
  <2> QED
    BY <1>2, <1>3, <2>1, <2>2 DEF HandlerOK, UrlsOf
<1>5. HostOK(h)'
  <2>1. s \in Deleting(h)' /\ hnd'[s].url = u
    BY <1>2 DEF Deleting
  <2>2. \A v \in UrlsOf(h) : v \in visited_nodes => nodes[v].status = "none"
    BY <1>1, NoneDeleting
  <2> HIDE DEF Deleting
  <2> QED
    BY <1>0, <1>1, <1>3, <2>1, <2>2 DEF HostOK, UrlsOf
<1>6. RepliesOK(h)'
  <2>1. s \in Active(h) /\ cbq' = cbq /\ Active(h)' \subseteq {s}
    BY <1>1, <1>2 DEF Active, Quietly, replies, Parts, OneHandlerPerHost
  <2>2. \A i \in 1..Len(cbq) : cbq[i].for = h => cbq[i].url = u /\ HostOf[u] = h
    BY <1>0, <1>1, <2>1 DEF RepliesOK, UrlsOf
  <2>3. \A t \in Active(h)' : hnd'[t].pc = "delete_node" /\ hnd'[t].url = u
    BY <1>2, <2>1
  <2> QED
    BY <1>3, <2>1, <2>2, <2>3 DEF RepliesOK
<1>7. \A g \in Hosts \ {h} : SameTables(g)
  BY <1>0, <1>1, StoreFrames
<1> QED
  BY <1>1, <1>2, <1>4, <1>5, <1>6, <1>7, Assemble DEF Quietly, replies

\* Its DELETE finds the row that was recorded, and no other.
LEMMA DeleteStep ==
    ASSUME Parts, TypeOK', NEW s \in Slots, DeleteVisited(s),
           NEW h \in Hosts, h = hnd[s].root
    PROVE  Parts'
<1> DEFINE u == hnd[s].url
<1>0. /\ hnd \in [Slots -> Handler] /\ nodes \in [Urls -> NodeRow]
      /\ HandlerOK(s) /\ HostOK(h) /\ RepliesOK(h) /\ TypeOK
  BY DEF Parts, TypeOK, StoreTypeOK
<1>1. /\ hnd[s].pc = "delete_node" /\ DeleteNode(u, hnd[s].row)
      /\ hnd' = [hnd EXCEPT ![s] = Idle] /\ Quietly
  BY DEF DeleteVisited
<1>2. /\ u \in UrlsOf(h) /\ u \in Urls /\ queues[h].live /\ u \in visited_nodes
      /\ nodes[u] = [status |-> "in_progress", id |-> hnd[s].row]
  BY <1>0, <1>1 DEF HandlerOK, HoldsLease, QueueExists, UrlsOf
<1>3. /\ \A t \in Slots \ {s} : hnd'[t] = hnd[t]
      /\ hnd'[s] = Idle /\ hnd'[s].pc = "idle"
  BY <1>0, <1>1 DEF Idle, Handling
<1>4. /\ queues' = queues /\ visited_nodes' = visited_nodes
      /\ nodes' = [nodes EXCEPT ![u].status = "none"]
  BY <1>1, <1>2 DEF DeleteNode
<1>5. nodes'[u].status = "none" /\ \A v \in Urls \ {u} : nodes'[v] = nodes[v]
  BY <1>0, <1>2, <1>4
<1>6. \A v \in UrlsOf(h) : v \in visited_nodes /\ v # u => nodes[v].status = "none"
  <2>1. Deleting(h) \subseteq {s}
    BY <1>1 DEF Deleting, Parts, OneHandlerPerHost
  <2> HIDE DEF Deleting
  <2> QED
    BY <1>0, <2>1 DEF HostOK
<1>7. HostOK(h)'
  <2>1. ASSUME NEW v \in UrlsOf(h), NEW w \in UrlsOf(h)
        PROVE  /\ v \in visited_nodes' => nodes'[v].status = "none"
               /\ nodes'[v].status = "in_progress"
                     /\ nodes'[w].status = "in_progress" => v = w
    <3>1. v \in Urls /\ w \in Urls
      BY DEF UrlsOf
    <3>2. nodes[v].status = "in_progress"
             /\ nodes[w].status = "in_progress" => v = w
      BY <1>0 DEF HostOK
    <3> QED
      BY <1>4, <1>5, <1>6, <3>1, <3>2
  <2> QED
    BY <1>2, <1>4, <2>1 DEF HostOK, UrlsOf
<1>8. RepliesOK(h)'
  <2>1. Active(h)' = {}
    BY <1>1, <1>3 DEF Active, Parts, OneHandlerPerHost
  <2>2. s \in Active(h) /\ cbq' = cbq
    BY <1>1 DEF Active, Quietly, replies
  <2>3. \A i \in 1..Len(cbq) : cbq[i].for = h => cbq[i].url = u /\ HostOf[u] = h
    BY <1>0, <1>2, <2>2 DEF RepliesOK, UrlsOf
  <2> QED
    BY <1>2, <1>4, <2>1, <2>2, <2>3 DEF RepliesOK
<1>9. \A g \in Hosts \ {h} : SameTables(g)
  BY <1>0, <1>1, <1>2, StoreFrames
<1> QED
  BY <1>1, <1>3, <1>7, <1>8, <1>9, IdleOK, Assemble DEF Quietly, replies

LEMMA RemoveStep ==
    ASSUME Parts, TypeOK', NEW s \in Slots, RemoveQueue(s),
           NEW h \in Hosts, h = hnd[s].root
    PROVE  Parts'
<1>0. /\ hnd \in [Slots -> Handler] /\ nodes \in [Urls -> NodeRow]
      /\ HandlerOK(s) /\ RepliesOK(h) /\ TypeOK
  BY DEF Parts, TypeOK, StoreTypeOK
<1>1. /\ hnd[s].pc = "remove_queue" /\ hnd[s].url = End
      /\ DeleteQueue(h) /\ hnd' = [hnd EXCEPT ![s] = Idle] /\ Quietly
  BY <1>0 DEF RemoveQueue, HandlerOK
<1>2. /\ \A t \in Slots \ {s} : hnd'[t] = hnd[t]
      /\ hnd'[s] = Idle /\ hnd'[s].pc = "idle"
  BY <1>0, <1>1 DEF Idle, Handling
<1>3. HostOK(h)'
  <2>1. \A v \in UrlsOf(h) : nodes'[v].status = "none" /\ v \notin visited_nodes'
    BY <1>0, <1>1 DEF DeleteQueue, UrlsOf, NodeRow
  <2> QED
    BY <2>1 DEF HostOK, UrlsOf
<1>4. RepliesOK(h)'
  <2>1. Active(h)' = {}
    BY <1>1, <1>2 DEF Active, Parts, OneHandlerPerHost
  <2>2. s \in Active(h) /\ cbq' = cbq
    BY <1>1 DEF Active, Quietly, replies
  <2>3. \A i \in 1..Len(cbq) : cbq[i].for = h => cbq[i].url = End
    BY <1>0, <1>1, <2>2 DEF RepliesOK
  <2> QED
    BY <2>1, <2>2, <2>3 DEF RepliesOK
<1>5. \A g \in Hosts \ {h} : SameTables(g)
  BY <1>0, <1>1, StoreFrames
<1> QED
  BY <1>1, <1>2, <1>3, <1>4, <1>5, IdleOK, Assemble DEF Quietly, replies

LEMMA HandlerPreserves ==
    ASSUME Parts, ~SqlFaults, NEW s \in Slots, HandlerStep(s)
    PROVE  Parts'
<1>1. TypeOK'
  BY Holding, HandlerType DEF Parts
<1>2. hnd[s].root \in Hosts
  BY DEF Parts, TypeOK, Handler
<1>3. ~SqlError(s)
  BY DEF SqlError
<1>4. CASE SetNodeToVisited(s)
  <2>1. hnd[s].pc = "set_visited"
    BY <1>4 DEF SetNodeToVisited
  <2>2. HoldsLease(s) /\ hnd[s].url \notin visited_nodes
    <3>1. HoldsLease(s)
      BY <2>1 DEF Parts, HandlerOK
    <3>2. \A u \in UrlsOf(hnd[s].root) : u \in visited_nodes => nodes[u].status = "none"
      BY <2>1, NoneDeleting
    <3> QED
      BY <3>1, <3>2 DEF HoldsLease
  <2>3. /\ Quietly
        /\ \/ /\ SetVisited(hnd[s].url, hnd[s].row)
              /\ hnd' = [hnd EXCEPT ![s] = Idle]
           \/ PoolSplits /\ RecordVisited(hnd[s].url) /\ Goto(s, "delete_node")
    BY <1>4, <2>2 DEF SetNodeToVisited, HoldsLease
  <2> QED
    BY <1>1, <1>2, <2>1, <2>3, RecordStep, SplitStep
<1> QED
  BY <1>1, <1>2, <1>3, <1>4, EnqueueReads, DequeueReads, CreateStep, InsertStep,
     LeaseStep, PublishStep, DeleteStep, RemoveStep DEF HandlerStep

----------------------------------------------------------------------------
(* Requests, consumed replies, crashes and restarts *)

LEMMA RequestPreserves ==
    ASSUME Parts, TypeOK', SerialClient
    PROVE  Parts'
<1>1. PICK h \in Hosts : Quiet(h) /\ SomeRequest(h, (SUBSET UrlsOf(h)) \ {{}})
  BY DEF SerialClient
<1>2. PICK s \in Slots :
         \/ \E S \in (SUBSET UrlsOf(h)) \ {{}} : Enqueue(s, h, S)
         \/ Dequeue(s, h)
         \/ GetLen(s, h)
  BY <1>1 DEF SomeRequest
<1>3. /\ UNCHANGED <<tables, replies, svc>>
      /\ \A t \in Slots \ {s} : hnd'[t] = hnd[t]
      /\ hnd'[s].pc \in {"find_queue", "dq_queue", "count_nodes"}
      /\ hnd'[s].root = h
  BY <1>2, RequestEffect DEF Parts
<1>4. hnd'[s].kind # "enqueue_empty" /\ hnd'[s].todo \subseteq UrlsOf(h)
  BY <1>2 DEF Enqueue, Dequeue, GetLen, Request, Handling, Parts, TypeOK
<1>5. /\ \A g \in Hosts : SameTables(g)
      /\ \A t \in Slots : hnd[t].root \in Hosts
  BY <1>3 DEF SameTables, tables, Parts, TypeOK, Handler
<1>6. ASSUME NEW t \in Slots PROVE HandlerOK(t)'
  <2>1. CASE t = s
    BY <1>3, <1>4, <2>1 DEF HandlerOK, UrlsOf
  <2>2. CASE t # s
    BY <1>3, <1>5, <2>2, HandlerFrame DEF Parts
  <2> QED
    BY <2>1, <2>2
<1>7. OneHandlerPerHost'
  BY <1>1, <1>3 DEF Quiet, Active, Parts, OneHandlerPerHost
<1>8. ASSUME NEW g \in Hosts PROVE HostOK(g)'
  <2>1. hnd[s].pc = "idle"
    BY <1>2, RequestEffect DEF Parts
  <2>2. KeepsDeleting(g)
    BY <1>3, <2>1 DEF KeepsDeleting, Deleting
  <2> QED
    BY <1>5, <2>2, SameTablesFrame DEF Parts
<1>9. ASSUME NEW g \in Hosts PROVE RepliesOK(g)'
  <2>1. CASE g = h
    BY <1>1, <1>3, <2>1 DEF Quiet, RepliesOK, replies
  <2>2. CASE g # h
    <3>1. /\ Active(g)' \subseteq Active(g)
          /\ \A t \in Active(g) : hnd'[t] = hnd[t]
      BY <1>2, <1>3, <2>2, RequestEffect DEF Active, Parts
    <3> QED
      BY <1>3, <1>5, <2>2, <3>1, RepliesFrame DEF Parts, replies
  <2> QED
    BY <2>1, <2>2
<1> QED
  BY <1>3, <1>6, <1>7, <1>8, <1>9 DEF Parts, NeverThrows

LEMMA ReplyTaken ==
    ASSUME Parts, TypeOK', TakeReply
    PROVE  Parts'
<1>1. /\ UNCHANGED <<tables, hnd, svc>> /\ cbq # <<>> /\ cbq' = Tail(cbq)
      /\ cbq \in Seq(Reply)
  BY DEF TakeReply, Parts, TypeOK
<1>2. \A g \in Hosts : SameTables(g)
  BY <1>1 DEF SameTables, tables
<1>3. ASSUME NEW t \in Slots PROVE HandlerOK(t)'
  <2>1. hnd[t].root \in Hosts
    BY DEF Parts, TypeOK, Handler
  <2> QED
    BY <1>1, <1>2, <2>1, HandlerFrame DEF Parts
<1>4. ASSUME NEW g \in Hosts PROVE HostOK(g)' /\ RepliesOK(g)'
  <2>0. KeepsDeleting(g)
    BY <1>1 DEF KeepsDeleting
  <2>1. HostOK(g)'
    BY <1>2, <2>0, SameTablesFrame DEF Parts
  <2>2. \A i \in 1..Len(cbq') : i + 1 \in 1..Len(cbq) /\ cbq'[i] = cbq[i + 1]
    BY <1>1
  <2>3. RepliesOK(g) /\ Active(g)' = Active(g)
    BY <1>1 DEF Parts, Active
  <2> QED
    BY <1>1, <2>1, <2>2, <2>3 DEF RepliesOK, tables
<1> QED
  BY <1>1, <1>3, <1>4 DEF Parts, NeverThrows, OneHandlerPerHost

\* Everything but the tables, the handlers and the replies may change.
LEMMA OthersPreserve ==
    ASSUME Parts, TypeOK', UNCHANGED <<tables, hnd, cbq>>,
           svc' = svc \/ svc' = "up"
    PROVE  Parts'
<1>1. \A g \in Hosts : SameTables(g)
  BY DEF SameTables, tables
<1>2. ASSUME NEW t \in Slots PROVE HandlerOK(t)'
  <2>1. hnd[t].root \in Hosts
    BY DEF Parts, TypeOK, Handler
  <2> QED
    BY <1>1, <2>1, HandlerFrame DEF Parts
<1>3. ASSUME NEW g \in Hosts PROVE HostOK(g)' /\ RepliesOK(g)'
  <2>0. KeepsDeleting(g)
    BY DEF KeepsDeleting
  <2>1. HostOK(g)'
    BY <1>1, <2>0, SameTablesFrame DEF Parts
  <2>2. RepliesOK(g) /\ Active(g)' = Active(g)
    BY DEF Parts, Active
  <2> QED
    BY <2>1, <2>2 DEF RepliesOK, tables
<1> QED
  BY <1>2, <1>3 DEF Parts, NeverThrows, OneHandlerPerHost

LEMMA CrashPreserves ==
    ASSUME Parts, TypeOK', Crash, ~CrashSplits
    PROVE  Parts'
<1>1. /\ UNCHANGED tables /\ svc' = "crashed" /\ cbq' = <<>>
      /\ \A t \in Slots : hnd'[t] = Idle /\ hnd'[t].pc = "idle"
  BY DEF Crash, Stop, Idle, Handling
<1>2. \A t \in Slots : HandlerOK(t)'
  BY <1>1, IdleOK
<1>3. \A g \in Hosts : SameTables(g)
  BY <1>1 DEF SameTables, tables
<1>4. \A g \in Hosts : KeepsDeleting(g)
  BY <1>1 DEF KeepsDeleting, Deleting, CrashSplits, Crash
<1>5. \A g \in Hosts : HostOK(g)' /\ RepliesOK(g)'
  BY <1>1, <1>3, <1>4, SameTablesFrame DEF Parts, RepliesOK
<1> QED
  BY <1>1, <1>2, <1>5 DEF Parts, NeverThrows, OneHandlerPerHost

LEMMA StepPreserves ==
    ASSUME Parts, ~SqlFaults, [SerialNext]_vars, [~CrashSplits]_vars
    PROVE  Parts'
<1>1. TypeOK'
  <2>1. [AnyNext]_vars
    BY AnyClient DEF SerialNext, AnyNext
  <2> QED
    BY <2>1, Holding, TypeStep DEF Parts
<1>8. CASE UNCHANGED vars
  BY <1>1, <1>8, OthersPreserve DEF vars, replies
<1>2. CASE \E s \in Slots : HandlerStep(s)
  BY <1>2, HandlerPreserves
<1>3. CASE Crash
  BY <1>1, <1>3, <1>8, CrashPreserves
<1>4. CASE Restart
  BY <1>1, <1>4, OthersPreserve DEF Restart, replies
<1>5. CASE TakeReply
  BY <1>1, <1>5, ReplyTaken
<1>6. CASE TakeLen
  BY <1>1, <1>6, OthersPreserve DEF TakeLen
<1>7. CASE SerialClient
  BY <1>1, <1>7, RequestPreserves
<1> QED
  BY <1>2, <1>3, <1>4, <1>5, <1>6, <1>7, <1>8 DEF SerialNext, ServiceStep

----------------------------------------------------------------------------
(* Theorems *)

LEMMA InitParts == Init => Parts
<1> SUFFICES ASSUME Init PROVE Parts
  OBVIOUS
<1>1. TypeOK
  BY InitType
<1>2. /\ \A t \in Slots : hnd[t].pc = "idle" /\ hnd[t].kind = "getlen"
                            /\ hnd[t].todo = {}
      /\ \A u \in Urls : nodes[u].status = "none"
      /\ visited_nodes = {} /\ cbq = <<>> /\ svc = "up"
  BY DEF Init, StoreInit, Idle, Handling
<1> QED
  BY <1>1, <1>2
  DEF Parts, HandlerOK, HostOK, RepliesOK, NeverThrows, OneHandlerPerHost, UrlsOf

\* A transaction of one statement cannot be split.
LEMMA WholeCrash ==
    ASSUME Parts, ~PoolSplits
    PROVE  ~CrashSplits
BY DEF Parts, HandlerOK, CrashSplits

LEMMA SplitParts ==
    ASSUME ~SqlFaults
    PROVE  SerialSpec /\ [][~CrashSplits]_vars => []Parts
<1>1. Parts /\ [SerialNext]_vars /\ [~CrashSplits]_vars => Parts'
  BY StepPreserves
<1> QED
  BY <1>1, InitParts, PTL DEF SerialSpec

LEMMA SerialParts == ASSUME ~SqlFaults, ~PoolSplits PROVE SerialSpec => []Parts
<1>1. Parts /\ [SerialNext]_vars => Parts'
  BY StepPreserves, WholeCrash
<1> QED
  BY <1>1, InitParts, PTL DEF SerialSpec

\* For serial clients, as long as MySQL answers the statements of dequeueURL
\* and setNodeToVisited keeps to one connection, the invariant holds: what a
\* handler of the database service has read before an await is still true
\* after it, although every crash may take a handler at any await.
THEOREM SerialSafe ==
    ASSUME ~SqlFaults, ~PoolSplits PROVE SerialSpec => []SerialInv
<1>1. Parts => SerialInv
  BY PartsAreSerialInv
<1> QED
  BY <1>1, SerialParts, PTL

\* The crawler never gets a recorded url a second time (checkNodeVisited).
THEOREM NoUrlTwice ==
    ASSUME ~SqlFaults, ~PoolSplits PROVE SerialSpec => []VisitedNeverRequeued
<1>1. SerialInv => VisitedNeverRequeued
  BY DEF SerialInv, VisitedIsGone, VisitedNeverRequeued
<1> QED
  BY <1>1, SerialSafe, PTL

\* dequeueURL never leases two rows of one host.
THEOREM OneLease ==
    ASSUME ~SqlFaults, ~PoolSplits PROVE SerialSpec => []OneLeasePerHost
<1>1. SerialInv => OneLeasePerHost
  BY DEF SerialInv
<1> QED
  BY <1>1, SerialSafe, PTL

\* No UNIQUE or FOREIGN KEY constraint fails in enqueueUrls or
\* setNodeToVisited, so the service never ends by itself.
THEOREM NeverEndsItself ==
    ASSUME ~SqlFaults, ~PoolSplits PROVE SerialSpec => []NeverThrows
<1>1. SerialInv => NeverThrows
  BY DEF SerialInv
<1> QED
  BY <1>1, SerialSafe, PTL

\* A url that was published to the crawler is leased or recorded: a crash
\* between the publication and setNodeToVisited cannot lose its row.
THEOREM PublishedIsKept ==
    ASSUME ~SqlFaults, ~PoolSplits PROVE SerialSpec => []RepliesAreLeased
<1>1. SerialInv => RepliesAreLeased
  BY DEF SerialInv
<1> QED
  BY <1>1, SerialSafe, PTL

LEMMA DrainedStep ==
    ASSUME Parts, [SerialNext]_vars
    PROVE  [\A h \in Hosts : queues[h].live /\ ~queues'[h].live
                                => Rows(h) = {}]_vars
<1> SUFFICES ASSUME NEW h \in Hosts, queues[h].live, ~queues'[h].live
             PROVE  Rows(h) = {}
  OBVIOUS
<1>1. queues \in [Hosts -> QueueRow]
  BY DEF Parts, TypeOK, StoreTypeOK
<1>2. ~UNCHANGED queues
  OBVIOUS
<1>3. PICK s \in Slots : HandlerStep(s)
  BY <1>2, AnyClient, RequestEffect
  DEF SerialNext, ServiceStep, Crash, Restart, TakeReply, TakeLen, AnyRequest,
      tables, vars, Parts
<1>4. RemoveQueue(s)
  <2> USE <1>1, <1>2, <1>3 DEF tables, Throw
  <2>1. ~(FindQueue(s) \/ ReloadQueue(s) \/ CheckVisited(s) \/ FinishEnqueue(s))
    BY DEF FindQueue, ReloadQueue, CheckVisited, FinishEnqueue
  <2>2. ~CreateQueue(s)
    BY DEF CreateQueue, InsertQueue, QueueRow
  <2>3. ~(InsertUrl(s) \/ UpdateInProgress(s) \/ SetNodeToVisited(s)
             \/ DeleteVisited(s))
    BY DEF InsertUrl, UpdateInProgress, SetNodeToVisited, DeleteVisited,
           InsertNode, SetInProgress, SetVisited, RecordVisited, DeleteNode
  <2>4. ~(SelectQueue(s) \/ SelectInProgress(s) \/ SelectPending(s)
             \/ CountRows(s) \/ SqlError(s) \/ Publish(s) \/ CountNodes(s))
    BY DEF SelectQueue, SelectInProgress, SelectPending, CountRows, SqlError,
           Publish, CountNodes
  <2> QED
    BY <2>1, <2>2, <2>3, <2>4 DEF HandlerStep
<1>5. hnd[s].root = h
  BY <1>1, <1>4 DEF RemoveQueue, DeleteQueue
<1> QED
  BY <1>4, <1>5 DEF Parts, HandlerOK, RemoveQueue

\* removeQueue, whose cascade deletes every row of the queue, deletes only
\* queues in which nothing is left to crawl.
THEOREM RemovesDrainedOnly ==
    ASSUME ~SqlFaults, ~PoolSplits PROVE SerialSpec => RemovedOnlyWhenDrained
<1>1. Parts /\ [SerialNext]_vars
         => [\A h \in Hosts : queues[h].live /\ ~queues'[h].live
                                 => Rows(h) = {}]_vars
  BY DrainedStep
<1> QED
  BY <1>1, SerialParts, PTL DEF SerialSpec, RemovedOnlyWhenDrained

\* The pool may give each statement of setNodeToVisited a connection of its own:
\* unless a crash comes between the INSERT and the DELETE (database.ts,
\* setNodeToVisited), no constraint is violated all the same.
THEOREM SplitsNeverThrow ==
    ASSUME ~SqlFaults
    PROVE  SerialSpec /\ [][~CrashSplits]_vars => []NeverThrows
<1>1. Parts => NeverThrows
  BY DEF Parts
<1> QED
  BY <1>1, SplitParts, PTL

\* Nor are two rows of a host leased; what is published is leased or recorded; and
\* what is recorded is out of the queue once its handler has finished.
THEOREM SplitsKeepLeases ==
    ASSUME ~SqlFaults
    PROVE  SerialSpec /\ [][~CrashSplits]_vars
              => [](OneLeasePerHost /\ RepliesAreLeased /\ RecordedOnce)
<1>1. Parts => OneLeasePerHost /\ RepliesAreLeased /\ RecordedOnce
  BY PartsSay
<1> QED
  BY <1>1, SplitParts, PTL

\* Nor is a queue removed that has rows left.
THEOREM SplitsRemoveDrainedOnly ==
    ASSUME ~SqlFaults
    PROVE  SerialSpec /\ [][~CrashSplits]_vars => RemovedOnlyWhenDrained
<1>1. Parts /\ [SerialNext]_vars
         => [\A h \in Hosts : queues[h].live /\ ~queues'[h].live
                                 => Rows(h) = {}]_vars
  BY DrainedStep
<1> QED
  BY <1>1, SplitParts, PTL DEF SerialSpec, RemovedOnlyWhenDrained
=============================================================================
