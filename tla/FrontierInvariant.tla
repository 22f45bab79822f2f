------------------------- MODULE FrontierInvariant -------------------------
(***************************************************************************)
(* Why FrontierService is correct for serial clients when no statement of  *)
(* dequeueURL fails and the pool splits no transaction: the invariant that *)
(* every one of its steps preserves, and that implies the safety           *)
(* properties of the service.  What it says of a handler holds of split    *)
(* transactions as well, as long as no crash comes between their halves.   *)
(***************************************************************************)
EXTENDS FrontierService

\* The row the handler holds is the one leased row of its queue.
HoldsLease(s) ==
    LET u == hnd[s].url IN
    /\ u \in UrlsOf(hnd[s].root)
    /\ nodes[u] = [status |-> "in_progress", id |-> hnd[s].row]
    /\ QueueExists(hnd[s].root, hnd[s].q)

\* What a handler has read is still true when it acts on it.
HandlerOK(s) ==
    LET h == hnd[s].root
        u == hnd[s].url
        At(pcs) == hnd[s].pc \in pcs
    IN
    /\ hnd[s].kind # "enqueue_empty"
    /\ hnd[s].todo \subseteq UrlsOf(h)
    /\ At({"delete_node"}) => PoolSplits /\ HoldsLease(s) /\ u \in visited_nodes
    /\ At({"create_queue"}) => ~queues[h].live
    /\ At({"reload_queue", "check_visited", "insert_node", "dq_in_progress",
           "dq_pending", "dq_update"}) => QueueExists(h, hnd[s].q)
    /\ At({"insert_node"}) => u \in UrlsOf(h) /\ u \notin visited_nodes
    /\ At({"dq_pending", "dq_update"}) =>
          \A v \in UrlsOf(h) : nodes[v].status # "in_progress"
    /\ At({"dq_update"}) =>
          /\ u \in UrlsOf(h)
          /\ nodes[u] = [status |-> "pending", id |-> hnd[s].row]
    /\ At({"dq_count", "set_visited"}) => HoldsLease(s)
    /\ At({"publish"}) /\ u # End => HoldsLease(s)
    /\ At({"publish"}) /\ u = End => Rows(h) = {}
    /\ At({"remove_queue"}) => Rows(h) = {} /\ u = End

OneHandlerPerHost ==
    \A s, t \in Slots :
       /\ hnd[s].pc # "idle" /\ hnd[t].pc # "idle"
       /\ hnd[s].root = hnd[t].root
       => s = t

\* A handler whose host has a reply under way is the one that sent it.
RepliesAreCurrent ==
    \A i \in 1..Len(cbq), s \in Slots :
       hnd[s].pc # "idle" /\ hnd[s].root = cbq[i].for
          => /\ hnd[s].pc \in {"set_visited", "delete_node", "remove_queue"}
             /\ hnd[s].url = cbq[i].url

\* Between the INSERT and the DELETE of a split transaction the row of a url
\* that is recorded is still there.
RecordedOnce ==
    \A u \in visited_nodes :
       \/ nodes[u].status = "none"
       \/ \E s \in Slots : hnd[s].pc = "delete_node" /\ hnd[s].url = u

\* A crash between the two leaves it there.
CrashSplits ==
    /\ svc = "up" /\ svc' = "crashed"
    /\ \E s \in Slots : hnd[s].pc = "delete_node"

\* Of a url that is recorded no row is left.
VisitedIsGone == \A u \in visited_nodes : nodes[u].status = "none"

SerialInv ==
    /\ TypeOK
    /\ NoOrphanRows
    /\ VisitedIsGone
    /\ OneLeasePerHost
    /\ RepliesAreLeased
    /\ NeverThrows
    /\ \A s \in Slots : HandlerOK(s)
    /\ OneHandlerPerHost
    /\ RepliesAreCurrent
=============================================================================
