-------------------------- MODULE FrontierService --------------------------
(***************************************************************************)
(* The frontier half of the database service: the handlers of              *)
(* cr_db_enqueue_queue, cr_db_dequeue_queue and cr_db_getlen_queue         *)
(* (src/database/src/rabbitmq/index.ts, CrawlerHandler) over the tables of *)
(* FrontierStore.                                                          *)
(*                                                                         *)
(* The channel the handlers consume on has no prefetch limit, so a request *)
(* is delivered as soon as it is published and the handlers of different   *)
(* requests interleave at every await.  A request is therefore a slot of   *)
(* `hnd` from the moment it is published; there is one action per await,   *)
(* and each makes the code between two awaits atomic, as Node does.        *)
(***************************************************************************)
EXTENDS FrontierStore, Sequences

CONSTANTS
    Slots,        \* bound: requests being handled at once
    End,          \* the url "" of the reply {RemainingInQueue: 0, Url: ""}
    MaxReplies,   \* bound: unconsumed replies at which clients stop asking
    MaxRestarts,  \* bound: times the stopped system is started again
    SqlFaults,    \* may a statement of dequeueURL fail?
    PoolSplits    \* may the pool give setNodeToVisited several connections?

ASSUME ServiceAssumption ==
    /\ Hosts # {}
    /\ End \notin Urls
    /\ MaxReplies \in Nat
    /\ MaxRestarts \in Nat
    /\ SqlFaults \in BOOLEAN
    /\ PoolSplits \in BOOLEAN

VARIABLES
    hnd,       \* hnd[s]: the handler in slot s
    cbq,       \* cr_db_dequeue_cbq: replies to dequeue and enqueue requests
    len_cbq,   \* cr_db_getlen_cbq: replies to getlen requests
    svc,       \* "up", "crashed" (stopped from outside), "threw" (by itself)
    restarts   \* times the system was started again

replies == <<cbq, len_cbq>>
vars == <<tables, hnd, replies, svc, restarts>>

----------------------------------------------------------------------------
(* Handlers *)

DequeuePcs == {"dq_queue", "dq_in_progress", "dq_pending", "dq_update",
               "dq_count"}

\* A reply is still owed to the client at these steps.
OwingPcs == DequeuePcs \cup
    {"find_queue", "create_queue", "reload_queue", "check_visited",
     "insert_node", "publish", "count_nodes"}

Handler == [pc   : OwingPcs \cup {"idle", "set_visited", "delete_node",
                                  "remove_queue"},
            kind : {"enqueue", "enqueue_empty", "dequeue", "getlen"},
            root : Hosts,
            todo : SUBSET Urls,       \* URLs.Nodes not yet looked at
            q    : 0..MaxQueues,      \* queue.id
            url  : Urls \cup {End},   \* node, then inProgressNode.url
            row  : 0..MaxRows]        \* inProgressNode.id

Handling(pc, kind, h, S) ==
    [pc |-> pc, kind |-> kind, root |-> h, todo |-> S,
     q |-> 0, url |-> End, row |-> 0]

Idle == Handling("idle", "getlen", CHOOSE h \in Hosts : TRUE, {})

Active(h) == {s \in Slots : hnd[s].pc # "idle" /\ hnd[s].root = h}
Owing(h)  == {s \in Active(h) : hnd[s].pc \in OwingPcs}

\* `for` is not in the message: it names the root of the request that a reply
\* answers and is read by properties and by SerialClient only.
Reply  == [url : Urls \cup {End}, for : Hosts]
LenMsg == [empty : BOOLEAN, for : Hosts]

TypeOK ==
    /\ StoreTypeOK
    /\ hnd \in [Slots -> Handler]
    /\ cbq \in Seq(Reply)
    /\ len_cbq \in Seq(LenMsg)
    /\ svc \in {"up", "crashed", "threw"}
    /\ restarts \in 0..MaxRestarts

Init ==
    /\ StoreInit
    /\ hnd = [s \in Slots |-> Idle]
    /\ cbq = <<>>
    /\ len_cbq = <<>>
    /\ svc = "up"
    /\ restarts = 0

----------------------------------------------------------------------------
(* What a client does: publish a request, consume a reply *)

\* A message for the handler that begins at pc.
Request(s, pc, kind, h, S) ==
    /\ svc = "up"
    /\ hnd[s].pc = "idle"
    /\ hnd' = [hnd EXCEPT ![s] = Handling(pc, kind, h, S)]
    /\ UNCHANGED <<tables, replies, svc, restarts>>

Enqueue(s, h, S) ==
    Request(s, "find_queue",
            IF S = {} THEN "enqueue_empty" ELSE "enqueue", h, S)
Dequeue(s, h) == Request(s, "dq_queue", "dequeue", h, {})
GetLen(s, h)  == Request(s, "count_nodes", "getlen", h, {})

TakeReply ==
    /\ cbq # <<>>
    /\ cbq' = Tail(cbq)
    /\ UNCHANGED <<tables, hnd, len_cbq, svc, restarts>>

TakeLen ==
    /\ len_cbq # <<>>
    /\ len_cbq' = Tail(len_cbq)
    /\ UNCHANGED <<tables, hnd, cbq, svc, restarts>>

----------------------------------------------------------------------------
(* Failure.  A handler that throws is an unhandled rejection and ends the  *)
(* Node process; the orchestrator then stops every container, broker       *)
(* included (services.go, runningService).  Messages are transient, so     *)
(* only the tables survive.                                                *)

Stop(how) ==
    /\ svc' = how
    /\ hnd' = [s \in Slots |-> Idle]
    /\ cbq' = <<>>
    /\ len_cbq' = <<>>
    /\ UNCHANGED restarts

Crash ==
    /\ svc = "up"
    /\ restarts < MaxRestarts
    /\ Stop("crashed")
    /\ UNCHANGED tables

Restart ==
    /\ svc # "up"
    /\ restarts < MaxRestarts
    /\ svc' = "up"
    /\ restarts' = restarts + 1
    /\ UNCHANGED <<tables, hnd, replies>>

Throw == Stop("threw") /\ UNCHANGED tables

\* What every step of a handler that neither replies nor throws leaves alone.
Quietly == UNCHANGED <<replies, svc, restarts>>

Goto(s, pc) == hnd' = [hnd EXCEPT ![s].pc = pc]

Answer(s, u) == hnd' = [hnd EXCEPT ![s].url = u, ![s].pc = "publish"]

\* Hold the row of u and go on at pc.
Hold(s, u, pc) ==
    hnd' = [hnd EXCEPT ![s].url = u, ![s].row = nodes[u].id, ![s].pc = pc]

----------------------------------------------------------------------------
(* Mutated forms of actions below.  Each is a bug that the code could      *)
(* plausibly have and that a property must expose; no specification uses   *)
(* them.                                                                   *)

\* Insert every node, without checkNodeVisited.
CheckVisitedNot(s) ==
    /\ hnd[s].pc = "check_visited"
    /\ \E u \in hnd[s].todo :
          hnd' = [hnd EXCEPT ![s].todo = @ \ {u}, ![s].url = u,
                             ![s].pc = "insert_node"]
    /\ Quietly /\ UNCHANGED tables

\* A duplicate node is not skipped.
InsertUrlOrThrow(s) ==
    LET u == hnd[s].url IN
    /\ hnd[s].pc = "insert_node"
    /\ IF nodes[u].status = "none" /\ QueueExists(hnd[s].root, hnd[s].q)
         THEN InsertNode(u) /\ Goto(s, "check_visited") /\ Quietly
         ELSE Throw

\* nodes.queue_id is not a foreign key.
InsertUrlAnyway(s) ==
    LET u == hnd[s].url IN
    /\ hnd[s].pc = "insert_node"
    /\ Goto(s, "check_visited")
    /\ Quietly
    /\ IF nodes[u].status = "none" /\ nodes[u].id < MaxRows
         THEN InsertNode(u) ELSE UNCHANGED tables

\* The list is taken for empty because the loop has emptied it.
FinishEnqueueEmptied(s) ==
    /\ hnd[s].pc = "check_visited"
    /\ hnd[s].todo = {}
    /\ Answer(s, End)
    /\ Quietly /\ UNCHANGED tables

\* No resuming: only pending rows are looked for.
SelectInProgressNot(s) ==
    /\ hnd[s].pc = "dq_in_progress"
    /\ Goto(s, "dq_pending")
    /\ Quietly /\ UNCHANGED tables

\* The row handed out stays pending.
UpdateInProgressNot(s) ==
    /\ hnd[s].pc = "dq_update"
    /\ Goto(s, "dq_count")
    /\ Quietly /\ UNCHANGED tables

\* dequeueURL finds nothing, and nothing is sent.
SelectPendingSilently(s) ==
    LET found == Select(hnd[s].root, hnd[s].q, "pending") IN
    /\ hnd[s].pc = "dq_pending"
    /\ \/ \E u \in found : Hold(s, u, "dq_update")
       \/ found = {} /\ Goto(s, "remove_queue")
    /\ Quietly /\ UNCHANGED tables

\* The queue is taken for drained when the row handed out is its last.
PublishLast(s) ==
    LET h == hnd[s].root IN
    /\ hnd[s].pc = "publish"
    /\ cbq' = Append(cbq, [url |-> hnd[s].url, for |-> h])
    /\ hnd' = [hnd EXCEPT ![s].pc = IF Rows(h) \subseteq {hnd[s].url}
                                      THEN "remove_queue"
                                      ELSE "set_visited"]
    /\ UNCHANGED <<tables, len_cbq, svc, restarts>>

----------------------------------------------------------------------------
(* enqueueUrls *)

FindQueue(s) ==
    LET h == hnd[s].root IN
    /\ hnd[s].pc = "find_queue"
    /\ hnd' = IF queues[h].live
                THEN [hnd EXCEPT ![s].pc = "check_visited",
                                 ![s].q = queues[h].id]
                ELSE [hnd EXCEPT ![s].pc = "create_queue"]
    /\ Quietly /\ UNCHANGED tables

CreateQueue(s) ==
    LET h == hnd[s].root IN
    /\ hnd[s].pc = "create_queue"
    /\ \/ /\ ~queues[h].live
          /\ queues[h].id < MaxQueues
          /\ InsertQueue(h)
          /\ hnd' = [hnd EXCEPT ![s].pc = "reload_queue",
                                ![s].q = queues[h].id + 1]
          /\ Quietly
       \/ queues[h].live /\ Throw      \* UNIQUE(root)

ReloadQueue(s) ==
    /\ hnd[s].pc = "reload_queue"
    /\ \/ /\ QueueExists(hnd[s].root, hnd[s].q)
          /\ Goto(s, "check_visited")
          /\ Quietly /\ UNCHANGED tables
       \/ ~QueueExists(hnd[s].root, hnd[s].q) /\ Throw

\* checkNodeVisited for the next node of URLs.Nodes.
CheckVisited(s) ==
    /\ hnd[s].pc = "check_visited"
    /\ \E u \in hnd[s].todo :
          hnd' = IF u \in visited_nodes
                   THEN [hnd EXCEPT ![s].todo = @ \ {u}]
                   ELSE [hnd EXCEPT ![s].todo = @ \ {u}, ![s].url = u,
                                    ![s].pc = "insert_node"]
    /\ Quietly /\ UNCHANGED tables

\* The duplicate key on url is skipped, the missing queue row is not.
InsertUrl(s) ==
    LET u == hnd[s].url IN
    /\ hnd[s].pc = "insert_node"
    /\ \/ /\ nodes[u].status # "none"
          /\ Goto(s, "check_visited")
          /\ Quietly /\ UNCHANGED tables
       \/ /\ nodes[u].status = "none"
          /\ QueueExists(hnd[s].root, hnd[s].q)
          /\ nodes[u].id < MaxRows
          /\ InsertNode(u)
          /\ Goto(s, "check_visited")
          /\ Quietly
       \/ /\ nodes[u].status = "none"
          /\ ~QueueExists(hnd[s].root, hnd[s].q)
          /\ Throw

\* enqueueUrls returns: reply {0, ""} to an empty list, otherwise dequeue.
FinishEnqueue(s) ==
    /\ hnd[s].pc = "check_visited"
    /\ hnd[s].todo = {}
    /\ hnd' = [hnd EXCEPT ![s].url = End,
                          ![s].pc = IF hnd[s].kind = "enqueue_empty"
                                      THEN "publish" ELSE "dq_queue"]
    /\ Quietly /\ UNCHANGED tables

----------------------------------------------------------------------------
(* dequeueURL *)

SelectQueue(s) ==
    LET h == hnd[s].root IN
    /\ hnd[s].pc = "dq_queue"
    /\ IF queues[h].live
         THEN hnd' = [hnd EXCEPT ![s].q = queues[h].id,
                                 ![s].pc = "dq_in_progress"]
         ELSE Answer(s, End)
    /\ Quietly /\ UNCHANGED tables

SelectInProgress(s) ==
    LET found == Select(hnd[s].root, hnd[s].q, "in_progress") IN
    /\ hnd[s].pc = "dq_in_progress"
    /\ \/ \E u \in found : Hold(s, u, "dq_count")
       \/ found = {} /\ Goto(s, "dq_pending")
    /\ Quietly /\ UNCHANGED tables

\* ORDER BY date_created: rows inserted in the same second have no order, so
\* any pending row may come first.
SelectPending(s) ==
    LET found == Select(hnd[s].root, hnd[s].q, "pending") IN
    /\ hnd[s].pc = "dq_pending"
    /\ \/ \E u \in found : Hold(s, u, "dq_update")
       \/ found = {} /\ Answer(s, End)
    /\ Quietly /\ UNCHANGED tables

UpdateInProgress(s) ==
    /\ hnd[s].pc = "dq_update"
    /\ SetInProgress(hnd[s].url, hnd[s].row, hnd[s].q)
    /\ Goto(s, "dq_count")
    /\ Quietly

\* SELECT COUNT(*): only RemainingInQueue depends on it, which the crawler
\* reads together with an empty Url.
CountRows(s) ==
    /\ hnd[s].pc = "dq_count"
    /\ Goto(s, "publish")
    /\ Quietly /\ UNCHANGED tables

\* Any failing statement of dequeueURL is caught and answered like an empty
\* queue.
SqlError(s) ==
    /\ SqlFaults
    /\ hnd[s].pc \in DequeuePcs
    /\ Answer(s, End)
    /\ Quietly /\ UNCHANGED tables

----------------------------------------------------------------------------
(* The rest of the handlers: publish the reply, then record it *)

Publish(s) ==
    /\ hnd[s].pc = "publish"
    /\ cbq' = Append(cbq, [url |-> hnd[s].url, for |-> hnd[s].root])
    /\ hnd' = IF hnd[s].kind = "enqueue_empty"
                THEN [hnd EXCEPT ![s] = Idle]
                ELSE [hnd EXCEPT ![s].pc = IF hnd[s].url = End
                                             THEN "remove_queue"
                                             ELSE "set_visited"]
    /\ UNCHANGED <<tables, len_cbq, svc, restarts>>

\* START TRANSACTION, INSERT, DELETE and COMMIT are four calls of the pool, and
\* each takes any connection that is free: when another handler has the one of
\* START TRANSACTION, the INSERT commits by itself.
SetNodeToVisited(s) ==
    LET u == hnd[s].url IN
    /\ hnd[s].pc = "set_visited"
    /\ \/ /\ u \notin visited_nodes
          /\ QueueExists(hnd[s].root, hnd[s].q)
          /\ \/ /\ SetVisited(u, hnd[s].row)
                /\ hnd' = [hnd EXCEPT ![s] = Idle]
             \/ /\ PoolSplits
                /\ RecordVisited(u)
                /\ Goto(s, "delete_node")
          /\ Quietly
       \/ /\ u \in visited_nodes \/ ~QueueExists(hnd[s].root, hnd[s].q)
          /\ Throw          \* UNIQUE(node_url), FOREIGN KEY(queue_id)

DeleteVisited(s) ==
    /\ hnd[s].pc = "delete_node"
    /\ DeleteNode(hnd[s].url, hnd[s].row)
    /\ hnd' = [hnd EXCEPT ![s] = Idle]
    /\ Quietly

RemoveQueue(s) ==
    /\ hnd[s].pc = "remove_queue"
    /\ DeleteQueue(hnd[s].root)
    /\ hnd' = [hnd EXCEPT ![s] = Idle]
    /\ Quietly

CountNodes(s) ==
    LET h == hnd[s].root IN
    /\ hnd[s].pc = "count_nodes"
    /\ len_cbq' = Append(len_cbq, [empty |-> Rows(h) = {}, for |-> h])
    /\ hnd' = [hnd EXCEPT ![s] = Idle]
    /\ UNCHANGED <<tables, cbq, svc, restarts>>

HandlerStep(s) ==
    \/ FindQueue(s) \/ CreateQueue(s) \/ ReloadQueue(s)
    \/ CheckVisited(s) \/ InsertUrl(s) \/ FinishEnqueue(s)
    \/ SelectQueue(s) \/ SelectInProgress(s) \/ SelectPending(s)
    \/ UpdateInProgress(s) \/ CountRows(s) \/ SqlError(s)
    \/ Publish(s) \/ SetNodeToVisited(s) \/ DeleteVisited(s)
    \/ RemoveQueue(s) \/ CountNodes(s)

ServiceStep == (\E s \in Slots : HandlerStep(s)) \/ Crash \/ Restart

----------------------------------------------------------------------------
(* Two environments *)

\* The two bounds of the store leave room for one more enqueue of h.
Room(h) ==
    /\ queues[h].id < MaxQueues
    /\ \A u \in UrlsOf(h) : nodes[u].id < MaxRows

SomeRequest(h, lists) ==
    \E s \in Slots :
       \/ Room(h) /\ \E S \in lists : Enqueue(s, h, S)
       \/ Dequeue(s, h)
       \/ GetLen(s, h)

\* Any client asks anything at any time: several crawlers on one host.
FreeClient ==
    /\ Len(cbq) < MaxReplies
    /\ Len(len_cbq) < MaxReplies
    /\ \E h \in Hosts : SomeRequest(h, SUBSET UrlsOf(h))

\* One crawler per host, which asks again only once it has its answer and,
\* as it sleeps five seconds on every page, once the handler that answered
\* has finished.  It sends no empty list (page_navigator.go:156).
Quiet(h) ==
    /\ Active(h) = {}
    /\ \A i \in 1..Len(cbq) : cbq[i].for # h
    /\ \A i \in 1..Len(len_cbq) : len_cbq[i].for # h

SerialClient ==
    \E h \in Hosts : Quiet(h) /\ SomeRequest(h, (SUBSET UrlsOf(h)) \ {{}})

Next       == ServiceStep \/ TakeReply \/ TakeLen \/ FreeClient
SerialNext == ServiceStep \/ TakeReply \/ TakeLen \/ SerialClient

Spec       == Init /\ [][Next]_vars
SerialSpec == Init /\ [][SerialNext]_vars

----------------------------------------------------------------------------
(* Properties *)

\* A url that was handed out and recorded does not wait in the queue again,
\* over crashes: the crawler does no duplicate check of its own and relies on
\* checkNodeVisited (page_navigator.go:145), whose answer is used after an
\* await.
VisitedNeverRequeued ==
    \A u \in visited_nodes : nodes[u].status # "pending"

\* dequeueURL reads `in_progress` and `pending` in two statements and writes
\* in a third: at most one row of a host may be leased all the same.
OneLeasePerHost ==
    \A u, v \in Urls :
       /\ nodes[u].status = "in_progress"
       /\ nodes[v].status = "in_progress"
       /\ HostOf[u] = HostOf[v]
       => u = v

\* No handler throws, so that the service never brings the system down by
\* itself.  (It holds for serial clients as long as no crash comes between the
\* statements of a split transaction.)
NeverThrows == svc # "threw"

\* A url on its way to the crawler is leased or recorded, in the queue of the
\* host that asked: a crash between publishing it and recording it cannot
\* have lost the row.
RepliesAreLeased ==
    \A i \in 1..Len(cbq) :
       LET u == cbq[i].url IN
       u # End => /\ HostOf[u] = cbq[i].for
                  /\ u \in visited_nodes \/ nodes[u].status = "in_progress"

\* A queue is removed, and its rows with it, only when nothing in it is left
\* to crawl: what was enqueued survives crashes until it is handed out
\* (database.ts:253-256).
RemovedOnlyWhenDrained ==
    [][\A h \in Hosts : queues[h].live /\ ~queues'[h].live
                           => Rows(h) = {}]_vars

\* Two handlers of one host may interleave freely, yet no row outlives its
\* queue: the foreign keys order an insert or a record against RemoveQueue.
NoOrphanRows ==
    \A u \in Urls : nodes[u].status # "none" \/ u \in visited_nodes
                       => queues[HostOf[u]].live

\* A url that leaves the queue has been recorded, or its queue is gone.
LeavesRecorded ==
    [][\A u \in Urls :
          nodes[u].status # "none" /\ nodes'[u].status = "none"
             => u \in visited_nodes' \/ ~queues'[HostOf[u]].live]_vars

----------------------------------------------------------------------------
(* The work list the tables and the replies stand for *)

Asking(h)  == {s \in Owing(h) : hnd[s].kind # "getlen"}
Answers(h) == {i \in 1..Len(cbq) : cbq[i].for = h}

WithStatus(st) == {u \in Urls : nodes[u].status = st}

\* "asked", the answer under way to h, or "idle".
Asked(h) ==
    IF Asking(h) # {} THEN "asked"
    ELSE IF Answers(h) # {} THEN cbq[CHOOSE i \in Answers(h) : TRUE].url
    ELSE "idle"

\* The marks of a host without an answer under way are no urls.
ASSUME WorkAssumption == {"asked", "idle"} \cap (Urls \cup {End}) = {}

Work == INSTANCE Frontier WITH
    todo   <- WithStatus("pending"),
    leased <- WithStatus("in_progress") \ visited_nodes,
    done   <- visited_nodes,
    req    <- [h \in Hosts |-> Asked(h)],
    up     <- svc = "up"

\* The service implements the work list for one client per host.
ImplementsWorkList == Work!Spec
=============================================================================
