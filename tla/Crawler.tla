------------------------------- MODULE Crawler -------------------------------
(***************************************************************************)
(* The crawler program, src/tools/crawler/main.rs, composed with its       *)
(* shared topology state (KnownNetwork).                                   *)
(*                                                                         *)
(* main() spawns one task per seed address, waits for the node map to     *)
(* outgrow the seed list, then spawns the main loop.  Every seed task and *)
(* every connection attempt of the main loop runs the same code: connect, *)
(* sleep one second, send GetAddr.  Each established connection has a     *)
(* reading task; an Addr answer it reads is passed to add_addrs, so the    *)
(* KnownNetwork readers are the peers' reading tasks (Readers = the        *)
(* addresses).                                                             *)
(*                                                                         *)
(* protocol.rs (should_connect, failure counting) and the pea2pea and      *)
(* wait_until! code are outside this tree; they are modelled from the      *)
(* spec (sections 4.5 and 4.7).  The backoff of should_connect is left     *)
(* out: KnownNode (network.rs:17-31) has no field recording an attempt.   *)
(***************************************************************************)
EXTENDS KnownNetwork, Sequences

CONSTANTS
    SeedAddrs,                   \* args.seed_addrs, a sequence (may repeat)
    NUM_CONN_ATTEMPTS_PERIODIC,  \* sample size of one main-loop iteration
    MAX_FAILURES,                \* should_connect's failure limit
    SEED_RESPONSE_TIMEOUT,       \* the seed wait's limit, in clock ticks
    MaxInFlight                  \* bound on attempts in flight to one address

ASSUME Readers = SocketAddr

VARIABLES
    seedTasks,   \* indices of seed tasks that have not run their insert yet
    phase,       \* main(): "seed_wait", "loop", or "panicked" (wait timed out)
    loopPc,      \* where the main loop is in its iteration: "dial" or "graph"
    connected,   \* peers with an established connection
    dialing,     \* per address: attempts awaiting connect()
    settling,    \* per address: attempts connected, sleeping before GetAddr
    asked        \* peers sent a GetAddr they have not answered

crawlVars == <<seedTasks, phase, loopPc, connected, dialing, settling, asked>>
vars == <<netVars, crawlVars>>

Seeds == {SeedAddrs[i] : i \in DOMAIN SeedAddrs}

CrawlInit ==
    /\ Init
    /\ seedTasks = DOMAIN SeedAddrs
    /\ phase = "seed_wait"
    /\ loopPc = "dial"
    /\ connected = {}
    /\ dialing = [a \in SocketAddr |-> 0]
    /\ settling = [a \in SocketAddr |-> 0]
    /\ asked = {}

Failures(a) == nodes[a].connection_failures

\* should_connect(addr): not connected and fewer than MAX_FAILURES
\* consecutive failures (spec 4.7).
ShouldConnect(a) == a \notin connected /\ Failures(a) < MAX_FAILURES

-----------------------------------------------------------------------------
(* Connection attempts, main.rs:81-84 and 109-112                          *)

\* A seed task (lines 75-79): `nodes.write().insert(addr,
\* KnownNode::default())`, replacing any entry, then the attempt.
SeedInsert(i) ==
    LET a == SeedAddrs[i] IN
    /\ i \in seedTasks
    /\ dialing[a] + settling[a] < MaxInFlight
    /\ nodes' = [x \in DOMAIN nodes \cup {a} |->
                   IF x = a THEN KnownNodeDefault ELSE nodes[x]]
    /\ seedTasks' = seedTasks \ {i}
    /\ dialing' = [dialing EXCEPT ![a] = @ + 1]
    /\ UNCHANGED <<now, connections, pc, prospect, oldConns,
                   phase, loopPc, connected, settling, asked>>

\* connect(addr) succeeds: the handshake completes and the peer is
\* connected; the task goes on to sleep (lines 81-82, 109-110).
ConnectOk(a) ==
    /\ dialing[a] > 0
    /\ a \notin connected
    /\ connected' = connected \cup {a}
    /\ dialing' = [dialing EXCEPT ![a] = @ - 1]
    /\ settling' = [settling EXCEPT ![a] = @ + 1]
    /\ UNCHANGED <<netVars, seedTasks, phase, loopPc, asked>>

\* connect(addr) fails: the task ends, and the peer layer's
\* connection-failure event increments connection_failures (spec 4.5).
ConnectFail(a) ==
    /\ dialing[a] > 0
    /\ dialing' = [dialing EXCEPT ![a] = @ - 1]
    /\ nodes' = IF a \in DOMAIN nodes
                THEN [nodes EXCEPT ![a].connection_failures = @ + 1]
                ELSE nodes
    /\ UNCHANGED <<now, connections, pc, prospect, oldConns,
                   seedTasks, phase, loopPc, connected, settling, asked>>

\* After the sleep, send_direct_message(addr, GetAddr); an error (the peer
\* has gone) is ignored (lines 83, 111).
SendGetAddr(a) ==
    /\ settling[a] > 0
    /\ settling' = [settling EXCEPT ![a] = @ - 1]
    /\ asked' = IF a \in connected THEN asked \cup {a} ELSE asked
    /\ UNCHANGED <<netVars, seedTasks, phase, loopPc, connected, dialing>>

-----------------------------------------------------------------------------
(* Peers                                                                   *)

\* A peer's reading task reads its Addr answer and calls add_addrs.
PeerAnswers(a, L) ==
    /\ a \in asked
    /\ AddAddrsInsert(a, a, L)
    /\ asked' = asked \ {a}
    /\ UNCHANGED <<seedTasks, phase, loopPc, connected, dialing, settling>>

-----------------------------------------------------------------------------
(* main(), lines 88-132                                                    *)

\* Mutant of SeedWaitDone: the condition written `>=`.
SeedWaitDoneInclusive ==
    /\ phase = "seed_wait"
    /\ NumNodes >= Len(SeedAddrs)
    /\ phase' = "loop"
    /\ UNCHANGED <<netVars, seedTasks, loopPc, connected, dialing, settling, asked>>

\* wait_until! polls `nodes().len() > seed_addrs.len()` (lines 89-93).
SeedWaitDone ==
    /\ phase = "seed_wait"
    /\ NumNodes > Len(SeedAddrs)
    /\ phase' = "loop"
    /\ UNCHANGED <<netVars, seedTasks, loopPc, connected, dialing, settling, asked>>

\* The wait's limit passes: wait_until! panics and the process exits.
SeedWaitTimeout ==
    /\ phase = "seed_wait"
    /\ now >= SEED_RESPONSE_TIMEOUT
    /\ phase' = "panicked"
    /\ UNCHANGED <<netVars, seedTasks, loopPc, connected, dialing, settling, asked>>

\* One iteration up to the graph update (lines 100-117): sample
\* min(NUM_CONN_ATTEMPTS_PERIODIC, len) known nodes, spawn an attempt to
\* each that should_connect, then broadcast GetAddr to every peer.
MainLoopDial ==
    /\ phase = "loop"
    /\ loopPc = "dial"
    /\ pc[MainLoop] = "idle"
    /\ \E sample \in SUBSET DOMAIN nodes :
         LET k == NUM_CONN_ATTEMPTS_PERIODIC
             chosen == {a \in sample : ShouldConnect(a)}
         IN
         /\ Cardinality(sample) = IF k < NumNodes THEN k ELSE NumNodes
         /\ \A a \in chosen : dialing[a] + settling[a] < MaxInFlight
         /\ dialing' = [a \in SocketAddr |->
                          IF a \in chosen THEN dialing[a] + 1 ELSE dialing[a]]
    /\ asked' = asked \cup connected
    /\ loopPc' = "graph"
    /\ UNCHANGED <<netVars, seedTasks, phase, connected, settling>>

\* `num_connections() > 0` (line 119): the graph update prunes old
\* connections (remove_old_connections).
MainLoopGraph ==
    /\ phase = "loop"
    /\ loopPc = "graph"
    /\ RemoveOldScan
    /\ loopPc' = "dial"
    /\ UNCHANGED <<seedTasks, phase, connected, dialing, settling, asked>>

\* No connections: the graph update is skipped.
MainLoopSkipGraph ==
    /\ phase = "loop"
    /\ loopPc = "graph"
    /\ pc[MainLoop] = "idle"
    /\ NumConnections = 0
    /\ loopPc' = "dial"
    /\ UNCHANGED <<netVars, seedTasks, phase, connected, dialing, settling, asked>>

\* Every task of the process stops when main() panics.
Alive == phase # "panicked"

CrawlNext ==
    \/ \E i \in DOMAIN SeedAddrs : Alive /\ SeedInsert(i)
    \/ \E a \in SocketAddr : Alive /\ ConnectOk(a)
    \/ \E a \in SocketAddr : Alive /\ ConnectFail(a)
    \/ \E a \in SocketAddr : Alive /\ SendGetAddr(a)
    \/ \E a \in SocketAddr, L \in AddrLists : Alive /\ PeerAnswers(a, L)
    \/ \E r \in Readers : Alive /\ UpdateNodesSnapshot(r) /\ UNCHANGED crawlVars
    \/ \E r \in Readers : Alive /\ UpdateNodesWrite(r) /\ UNCHANGED crawlVars
    \/ SeedWaitDone
    \/ SeedWaitTimeout
    \/ MainLoopDial
    \/ MainLoopGraph
    \/ MainLoopSkipGraph
    \/ RemoveOldWrite /\ UNCHANGED crawlVars
    \/ Alive /\ Tick /\ UNCHANGED crawlVars

\* Spawned tasks are run by the runtime: the seed tasks, the wait's poll
\* and its timer, the main loop, each reader's update_nodes, and every
\* attempt (connect ends within the handshake timeout, spec 4.5; the
\* settle is a one-second sleep) are weakly fair, and time passes.  Peers
\* may never answer.  Peers never close a connection: a connection that
\* ends only stops its answers, which the unfair answers already cover.
CrawlFairness ==
    /\ \A i \in DOMAIN SeedAddrs : WF_vars(Alive /\ SeedInsert(i))
    /\ \A a \in SocketAddr : WF_vars(Alive /\ (ConnectOk(a) \/ ConnectFail(a)))
    /\ \A a \in SocketAddr : WF_vars(Alive /\ SendGetAddr(a))
    /\ WF_vars(SeedWaitDone)
    /\ WF_vars(SeedWaitTimeout)
    /\ WF_vars(Alive /\ Tick /\ UNCHANGED crawlVars)
    /\ WF_vars(MainLoopDial)
    /\ WF_vars(MainLoopGraph \/ MainLoopSkipGraph)
    /\ WF_vars(RemoveOldWrite /\ UNCHANGED crawlVars)
    /\ \A r \in Readers : WF_vars(Alive /\ UpdateNodesSnapshot(r) /\ UNCHANGED crawlVars)
    /\ \A r \in Readers : WF_vars(Alive /\ UpdateNodesWrite(r) /\ UNCHANGED crawlVars)

CrawlSpec == CrawlInit /\ [][CrawlNext]_vars /\ CrawlFairness

-----------------------------------------------------------------------------
(* Properties                                                              *)

\* The seed wait ends only after a peer has answered: when main() leaves
\* the wait, the connection set holds a reported connection.  Seed inserts
\* alone can never make the node map outgrow the seed list (main.rs:89-93).
LoopStartsAfterAnswer ==
    [][(phase = "seed_wait" /\ phase' = "loop") => connections # {}]_vars

\* A node, once known, stays in the map and its count of consecutive
\* connection failures never drops, although attempt tasks count failures
\* while readers' update_nodes upsert every endpoint they saw: or_default
\* keeps the existing entry (network.rs:146-149).  Only a seed task's
\* insert (main.rs:79) replaces an entry; it runs before any other task
\* has touched that address in this instance.
FailuresNeverReset ==
    [][\A a \in DOMAIN nodes :
          a \in DOMAIN nodes' /\ nodes'[a].connection_failures >= Failures(a)]_vars

EdgeStamp(e) == (CHOOSE c \in connections : Pair(c) = e).last_seen

Graph == INSTANCE ConnectionGraph WITH
    Addr <- SocketAddr, Cutoff <- LAST_SEEN_CUTOFF, MaxClock <- MaxTime,
    edges <- [e \in {Pair(c) : c \in connections} |-> EdgeStamp(e)],
    clock <- now

\* KnownNetwork implements the atomic connection graph: every add_addrs
\* insert loop is one report that keeps existing stamps, every
\* remove_old_connections removes only edges older than the cutoff
\* (network.rs:90-136), and the other steps leave the graph alone.
ImplementsGraph == Graph!GraphSpec

=============================================================================
