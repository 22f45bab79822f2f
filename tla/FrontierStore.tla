--------------------------- MODULE FrontierStore ---------------------------
(***************************************************************************)
(* The three MySQL tables of the crawl frontier (src/db.init.sql) and one  *)
(* operator per SQL statement that database.ts issues against them.        *)
(*                                                                         *)
(* A row is a record kept per key: a queue per root host, a node per url.  *)
(* `id` is the last primary key given to that root or url, so a handler    *)
(* that still holds an older id holds a row that no longer exists.  The    *)
(* nodes and visited_nodes of a host always belong to the live queue of    *)
(* that host: PageNavigator.ProcessUrl keeps only links whose hostname is  *)
(* Root, and both foreign keys are ON DELETE CASCADE.                      *)
(***************************************************************************)
EXTENDS Naturals, FiniteSets

CONSTANTS
    Urls,       \* every url a page may link to
    Hosts,      \* hostnames: the roots of queues, the keys of indexed_sites
    HostOf,     \* HostOf[u]: the hostname of url u
    MaxQueues,  \* bound: queues created per root
    MaxRows     \* bound: node rows inserted per url

ASSUME StoreAssumption ==
    /\ HostOf \in [Urls -> Hosts]
    /\ MaxQueues \in Nat
    /\ MaxRows \in Nat

VARIABLES
    queues,         \* queues[h].live: a row with root h exists; .id: its key
    nodes,          \* nodes[u].status: "none" when there is no row
    visited_nodes   \* the node_url column

tables == <<queues, nodes, visited_nodes>>

UrlsOf(h) == {u \in Urls : HostOf[u] = h}

QueueRow == [live : BOOLEAN, id : 0..MaxQueues]
NodeRow  == [status : {"none", "pending", "in_progress"}, id : 0..MaxRows]

StoreTypeOK ==
    /\ queues \in [Hosts -> QueueRow]
    /\ nodes \in [Urls -> NodeRow]
    /\ visited_nodes \subseteq Urls

StoreInit ==
    /\ queues = [h \in Hosts |-> [live |-> FALSE, id |-> 0]]
    /\ nodes = [u \in Urls |-> [status |-> "none", id |-> 0]]
    /\ visited_nodes = {}

----------------------------------------------------------------------------
(* SELECT *)

\* SELECT ... FROM queues WHERE id = q, for a queue id q of root h.
QueueExists(h, q) == queues[h].live /\ queues[h].id = q

\* SELECT ... FROM nodes WHERE status = st AND queue_id = q
Select(h, q, st) ==
    {u \in UrlsOf(h) : QueueExists(h, q) /\ nodes[u].status = st}

\* Every node row of root h, whatever its status.
Rows(h) == {u \in UrlsOf(h) : nodes[u].status # "none"}

----------------------------------------------------------------------------
(* INSERT, UPDATE, DELETE *)

InsertQueue(h) ==
    /\ queues' = [queues EXCEPT ![h] = [live |-> TRUE, id |-> @.id + 1]]
    /\ UNCHANGED <<nodes, visited_nodes>>

InsertNode(u) ==
    /\ nodes' = [nodes EXCEPT ![u] = [status |-> "pending", id |-> @.id + 1]]
    /\ UNCHANGED <<queues, visited_nodes>>

\* UPDATE nodes SET status = 'in_progress' WHERE id = row AND queue_id = q
SetInProgress(u, row, q) ==
    /\ IF nodes[u].status # "none" /\ nodes[u].id = row
          /\ QueueExists(HostOf[u], q)
         THEN nodes' = [nodes EXCEPT ![u].status = "in_progress"]
         ELSE UNCHANGED nodes
    /\ UNCHANGED <<queues, visited_nodes>>

\* Mutated forms of SetVisited: the status is updated instead of the row being
\* deleted; the row is deleted and never recorded.
SetVisitedStatus(u, row) ==
    /\ visited_nodes' = visited_nodes \cup {u}
    /\ nodes' = [nodes EXCEPT ![u].status = "visited"]
    /\ UNCHANGED queues

SetVisitedUnrecorded(u, row) ==
    /\ nodes' = IF nodes[u].id = row
                  THEN [nodes EXCEPT ![u].status = "none"]
                  ELSE nodes
    /\ UNCHANGED <<queues, visited_nodes>>

\* INSERT INTO visited_nodes
RecordVisited(u) ==
    /\ visited_nodes' = visited_nodes \cup {u}
    /\ UNCHANGED <<queues, nodes>>

\* DELETE FROM nodes WHERE id = row
DeleteNode(u, row) ==
    /\ nodes' = IF nodes[u].id = row
                  THEN [nodes EXCEPT ![u].status = "none"]
                  ELSE nodes
    /\ UNCHANGED <<queues, visited_nodes>>

\* Both, in one transaction.
SetVisited(u, row) ==
    /\ visited_nodes' = visited_nodes \cup {u}
    /\ nodes' = IF nodes[u].id = row
                  THEN [nodes EXCEPT ![u].status = "none"]
                  ELSE nodes
    /\ UNCHANGED queues

\* DELETE FROM queues WHERE root = h; the cascade takes the nodes and the
\* visited_nodes of that queue with it.
DeleteQueue(h) ==
    /\ queues' = [queues EXCEPT ![h].live = FALSE]
    /\ nodes' = [u \in Urls |-> IF HostOf[u] = h
                                  THEN [nodes[u] EXCEPT !.status = "none"]
                                  ELSE nodes[u]]
    /\ visited_nodes' = visited_nodes \ UrlsOf(h)
=============================================================================
