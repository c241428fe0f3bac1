---------------------------- MODULE KnownNetwork ----------------------------
(***************************************************************************)
(* The crawler's shared topology state, src/tools/crawler/network.rs.       *)
(*                                                                         *)
(* KnownNetwork holds two maps behind two independent RwLocks: `nodes`     *)
(* (SocketAddr -> KnownNode) and `connections` (a HashSet of               *)
(* KnownConnection whose Eq and Hash are symmetric in the endpoints).      *)
(* `add_addrs` and `remove_old_connections` each take and release those    *)
(* locks several times, so calls from different tasks interleave between   *)
(* their steps.  Each task is modelled with a program counter; one step    *)
(* is what the code does while holding one lock.                           *)
(*                                                                         *)
(* Readers are the per-connection reading tasks that report `Addr`         *)
(* gossip through `add_addrs`; the crawler main loop (main.rs) is the one  *)
(* task that prunes.  Time is an abstract clock of whole seconds, scaled.  *)
(***************************************************************************)
EXTENDS Integers, FiniteSets, FiniteSetsExt

CONSTANTS
    NumAddrs,          \* SocketAddrs are 1..NumAddrs (Ord matters to Hash)
    LAST_SEEN_CUTOFF,  \* network.rs:13, in clock ticks
    MaxTime,           \* bound on the abstract clock
    MaxAddrsPerMsg,    \* bound on the listening_addrs of one Addr message
    Readers,           \* tasks that call add_addrs
    MainLoop           \* the crawler main loop task (prunes)

ASSUME LAST_SEEN_CUTOFF \in Nat /\ MaxTime > LAST_SEEN_CUTOFF
ASSUME MainLoop \notin Readers

VARIABLES
    now,          \* Instant::now(), abstract
    connections,  \* connections: RwLock<HashSet<KnownConnection>>
    nodes,        \* nodes: RwLock<HashMap<SocketAddr, KnownNode>>
    pc,           \* where each task is inside its current call
    prospect,     \* update_nodes: prospect_nodes of each Reader
    oldConns      \* remove_old_connections: old_conns of the MainLoop

netVars == <<now, connections, nodes, pc, prospect, oldConns>>

Tasks == Readers \cup {MainLoop}
SocketAddr == 1 .. NumAddrs
Instant == 0 .. MaxTime

\* KnownConnection { a, b, last_seen }
KnownConnection == [a : SocketAddr, b : SocketAddr, last_seen : Instant]
\* An unordered pair of endpoints, what two equal KnownConnections share.
Pair(c) == {c.a, c.b}
Pairs == {{x, y} : x, y \in SocketAddr}

\* KnownNode::default(): every Option is None and connection_failures = 0.
\* Only connection_failures is kept; the Options are written by code that
\* this module does not model.
KnownNodeDefault == [connection_failures |-> 0]

\* KnownConnection::new(a, b) stamps last_seen with Instant::now().
NewConnection(a, b) == [a |-> a, b |-> b, last_seen |-> now]

\* impl PartialEq for KnownConnection: equal when the endpoints match in
\* either order; last_seen is ignored.
ConnEq(c, d) == (c.a = d.b /\ c.b = d.a) \/ (c.a = d.a /\ c.b = d.b)

\* Mutant of ConnHash: the endpoints hashed in stored order, without the
\* `a.cmp(&b)` swap.
ConnHashUnordered(c) == <<c.a, c.b>>

\* impl Hash for KnownConnection: the endpoints are hashed smaller first.
ConnHash(c) == IF c.a > c.b THEN <<c.b, c.a>> ELSE <<c.a, c.b>>

\* The element of a HashSet a probe for c finds: same hash bucket, Eq.
Lookup(set, c) == {d \in set : ConnHash(d) = ConnHash(c) /\ ConnEq(d, c)}

\* HashSet::insert: adds c unless an equal element is present, in which
\* case the set, and the stored element's last_seen, are left unchanged.
SetInsert(set, c) == IF Lookup(set, c) = {} THEN set \cup {c} ELSE set

\* HashSet::remove: removes the stored element equal to c.
SetRemove(set, c) == set \ Lookup(set, c)

\* Mutant of IsOld: the comparison written `>=`.
IsOldInclusive(c) == now - c.last_seen >= LAST_SEEN_CUTOFF

\* `conn.last_seen.elapsed().as_secs() > LAST_SEEN_CUTOFF`
IsOld(c) == now - c.last_seen > LAST_SEEN_CUTOFF

\* The addresses of one Addr message: a small set of SocketAddrs.
AddrLists == {L \in SUBSET SocketAddr : Cardinality(L) <= MaxAddrsPerMsg}

Init ==
    /\ now = 0
    /\ connections = {}
    /\ nodes = [x \in {} |-> KnownNodeDefault]
    /\ pc = [t \in Tasks |-> "idle"]
    /\ prospect = [r \in Readers |-> {}]
    /\ oldConns = {}

-----------------------------------------------------------------------------
(* add_addrs(source, listening_addrs), network.rs:90-99                    *)

\* Mutant of AddAddrsInsert: the trailing `self.update_nodes()` dropped.
AddAddrsInsertNoUpdate(r, source, listening_addrs) ==
    /\ pc[r] = "idle"
    /\ connections' = FoldSet(LAMBDA addr, acc :
                                SetInsert(acc, NewConnection(source, addr)),
                              connections, listening_addrs)
    /\ UNCHANGED <<now, nodes, pc, prospect, oldConns>>

\* The insert loop under the connections write lock (lines 91-96).
AddAddrsInsert(r, source, listening_addrs) ==
    /\ pc[r] = "idle"
    /\ connections' = FoldSet(LAMBDA addr, acc :
                                SetInsert(acc, NewConnection(source, addr)),
                              connections, listening_addrs)
    /\ pc' = [pc EXCEPT ![r] = "update_nodes"]
    /\ UNCHANGED <<now, nodes, prospect, oldConns>>

\* update_nodes (line 98): clone the connections under the read lock and
\* collect both endpoints of every connection (lines 140-144).
UpdateNodesSnapshot(r) ==
    /\ pc[r] = "update_nodes"
    /\ prospect' = [prospect EXCEPT ![r] =
                      {c.a : c \in connections} \cup {c.b : c \in connections}]
    /\ pc' = [pc EXCEPT ![r] = "update_write"]
    /\ UNCHANGED <<now, connections, nodes, oldConns>>

\* Mutant of UpdateNodesWrite: `nodes.insert(addr, KnownNode::default())`
\* in place of `entry(addr).or_default()`.
UpdateNodesWriteInsert(r) ==
    /\ pc[r] = "update_write"
    /\ nodes' = [x \in DOMAIN nodes \cup prospect[r] |->
                   IF x \in prospect[r] THEN KnownNodeDefault ELSE nodes[x]]
    /\ prospect' = [prospect EXCEPT ![r] = {}]
    /\ pc' = [pc EXCEPT ![r] = "idle"]
    /\ UNCHANGED <<now, connections, oldConns>>

\* `nodes.entry(addr).or_default()` for every prospect under the nodes
\* write lock (lines 146-149): existing entries keep their value.
UpdateNodesWrite(r) ==
    /\ pc[r] = "update_write"
    /\ nodes' = [x \in DOMAIN nodes \cup prospect[r] |->
                   IF x \in DOMAIN nodes THEN nodes[x] ELSE KnownNodeDefault]
    /\ prospect' = [prospect EXCEPT ![r] = {}]
    /\ pc' = [pc EXCEPT ![r] = "idle"]
    /\ UNCHANGED <<now, connections, oldConns>>

\* num_connections() and num_nodes() (network.rs:111-119): the sizes of
\* the two maps, each read under its lock.
NumConnections == Cardinality(connections)
NumNodes == Cardinality(DOMAIN nodes)

-----------------------------------------------------------------------------
(* remove_old_connections, network.rs:122-136, called once per main-loop   *)
(* iteration by the metrics update when num_connections() > 0              *)
(* (main.rs:119-122).                                                      *)

RemoveOldScan ==
    /\ pc[MainLoop] = "idle"
    /\ NumConnections > 0
    /\ LET old == {c \in connections : IsOld(c)} IN
         /\ oldConns' = old
         /\ pc' = [pc EXCEPT ![MainLoop] = IF old = {} THEN "idle" ELSE "prune_write"]
    /\ UNCHANGED <<now, connections, nodes, prospect>>

\* Remove every selected connection under the write lock (lines 131-134):
\* removal is by Eq, so it removes whatever element equal to it is stored.
RemoveOldWrite ==
    /\ pc[MainLoop] = "prune_write"
    /\ connections' = FoldSet(LAMBDA c, acc : SetRemove(acc, c), connections, oldConns)
    /\ oldConns' = {}
    /\ pc' = [pc EXCEPT ![MainLoop] = "idle"]
    /\ UNCHANGED <<now, nodes, prospect>>

\* Time passes.
Tick ==
    /\ now < MaxTime
    /\ now' = now + 1
    /\ UNCHANGED <<connections, nodes, pc, prospect, oldConns>>

-----------------------------------------------------------------------------
(* Properties                                                              *)

\* Bidirectional dedup: the HashSet never holds two KnownConnections that
\* compare equal, whatever order gossip reports the endpoints in.  This
\* needs Hash to agree with the symmetric PartialEq (network.rs:44-69).
UniqueConnections ==
    \A c, d \in connections : ConnEq(c, d) => c = d

\* Map closure: whenever no add_addrs call is in progress, both endpoints of
\* every known connection are keys of the node map, although add_addrs
\* releases the connections lock before update_nodes takes its snapshot
\* and the nodes lock (network.rs:90-99, 139-150).
NodeClosure ==
    (\A r \in Readers : pc[r] = "idle") =>
        \A c \in connections : Pair(c) \subseteq DOMAIN nodes

=============================================================================
