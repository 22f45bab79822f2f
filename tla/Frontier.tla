------------------------------ MODULE Frontier ------------------------------
(***************************************************************************)
(* What the database service promises the crawler of a host: a work list   *)
(* that hands out one url at a time, every url at most once until it says  *)
(* that the list is exhausted, and that keeps its contents over crashes.   *)
(* FrontierService implements it for clients that ask one thing at a time. *)
(***************************************************************************)
EXTENDS Naturals, FiniteSets

CONSTANTS Urls, Hosts, HostOf, End

VARIABLES
    todo,     \* urls waiting to be handed out
    leased,   \* urls handed out, or about to be, and not yet recorded
    done,     \* urls recorded as handed out
    req,      \* req[h]: "idle", "asked", or the answer under way to h
    up        \* is the service running?

vars == <<todo, leased, done, req, up>>

Of(h, S) == {u \in S : HostOf[u] = h}

Init ==
    /\ todo = {} /\ leased = {} /\ done = {}
    /\ req = [h \in Hosts |-> "idle"]
    /\ up = TRUE

Ask(h) ==
    /\ req[h] = "idle"
    /\ req' = [req EXCEPT ![h] = "asked"]
    /\ UNCHANGED <<todo, leased, done, up>>

\* Only a url that is not known yet is added.
Add(u) ==
    /\ req[HostOf[u]] = "asked"
    /\ u \notin todo \cup leased \cup done
    /\ todo' = todo \cup {u}
    /\ UNCHANGED <<leased, done, req, up>>

\* A host has one url out at a time.
Lease(u) ==
    /\ req[HostOf[u]] = "asked"
    /\ u \in todo
    /\ Of(HostOf[u], leased) = {}
    /\ todo' = todo \ {u}
    /\ leased' = leased \cup {u}
    /\ UNCHANGED <<done, req, up>>

Give(u) ==
    /\ req[HostOf[u]] = "asked"
    /\ u \in leased
    /\ req' = [req EXCEPT ![HostOf[u]] = u]
    /\ UNCHANGED <<todo, leased, done, up>>

\* The list is declared exhausted only when it is.
GiveEnd(h) ==
    /\ req[h] = "asked"
    /\ Of(h, todo) = {} /\ Of(h, leased) = {}
    /\ req' = [req EXCEPT ![h] = End]
    /\ UNCHANGED <<todo, leased, done, up>>

Take(h) ==
    /\ req[h] \notin {"idle", "asked"}
    /\ req' = [req EXCEPT ![h] = "idle"]
    /\ UNCHANGED <<todo, leased, done, up>>

\* A url is recorded only after it was given.
Record(u) ==
    /\ req[HostOf[u]] # "asked"
    /\ u \in leased
    /\ leased' = leased \ {u}
    /\ done' = done \cup {u}
    /\ UNCHANGED <<todo, req, up>>

\* The list of a host is forgotten only when nothing of it is left to do.
Forget(h) ==
    /\ req[h] # "asked"
    /\ Of(h, todo) = {} /\ Of(h, leased) = {}
    /\ done' = done \ Of(h, done)
    /\ UNCHANGED <<todo, leased, req, up>>

\* A crash loses the question or the answer, never the list.
Crash ==
    /\ up /\ up' = FALSE
    /\ req' = [h \in Hosts |-> "idle"]
    /\ UNCHANGED <<todo, leased, done>>

Restart ==
    /\ ~up /\ up' = TRUE
    /\ UNCHANGED <<todo, leased, done, req>>

Next ==
    \/ \E h \in Hosts : Ask(h) \/ GiveEnd(h) \/ Take(h) \/ Forget(h)
    \/ \E u \in Urls : Add(u) \/ Lease(u) \/ Give(u) \/ Record(u)
    \/ Crash \/ Restart

Spec == Init /\ [][Next]_vars
=============================================================================
