--------------------------- MODULE ConnectionGraph ---------------------------
(***************************************************************************)
(* What the crawler's connection bookkeeping promises, with every          *)
(* operation atomic: an undirected graph over socket addresses whose       *)
(* edges carry a time they were reported.  A report adds the edges from  *)
(* its source to each listed address, stamped now; an edge it lists that  *)
(* is already present keeps its stamp or is stamped now: whether a         *)
(* re-report refreshes last_seen is left open here (network.rs:40 and the *)
(* spec say it does; the run known_network_refresh checks that).  A prune *)
(* removes some edges, each older than the cutoff, and touches no other.  *)
(* KnownNetwork, with its HashSet of KnownConnection,                      *)
(* its symmetric Eq and Hash and its lock-split operations, is shown to    *)
(* implement this graph in Crawler.                                        *)
(***************************************************************************)
EXTENDS Integers

CONSTANTS
    Addr,       \* the socket addresses
    Cutoff,     \* an edge older than this may be pruned
    MaxClock    \* bound on the clock

VARIABLES
    edges,      \* a function from each known edge (a set of endpoints) to its stamp
    clock

graphVars == <<edges, clock>>

Edge == {{x, y} : x, y \in Addr}

GraphInit ==
    /\ edges = [e \in {} |-> 0]
    /\ clock = 0

\* source reports that it is connected to every address of listed; of the
\* listed edges already known, those in kept keep their stamp.
Report(source, listed) ==
    LET new == {{source, x} : x \in listed} IN
    \E kept \in SUBSET (new \cap DOMAIN edges) :
        /\ edges' = [e \in DOMAIN edges \cup new |->
                       IF e \in kept \/ e \notin new THEN edges[e] ELSE clock]
        /\ UNCHANGED clock

\* Some edges, each older than the cutoff, are forgotten.
Prune ==
    \E gone \in SUBSET DOMAIN edges :
        /\ gone # {}
        /\ \A e \in gone : clock - edges[e] > Cutoff
        /\ edges' = [e \in DOMAIN edges \ gone |-> edges[e]]
        /\ UNCHANGED clock

Advance ==
    /\ clock < MaxClock
    /\ clock' = clock + 1
    /\ UNCHANGED edges

GraphNext ==
    \/ \E s \in Addr, L \in SUBSET Addr : Report(s, L)
    \/ Prune
    \/ Advance

GraphSpec == GraphInit /\ [][GraphNext]_graphVars

=============================================================================
