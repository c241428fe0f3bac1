------------------------ MODULE KnownNetworkFreshness ------------------------
(***************************************************************************)
(* KnownNetwork with a history variable recording, for every unordered     *)
(* pair of endpoints, the last time a reader reported it through           *)
(* add_addrs.  It states the spec's freshness promise (section 4.7): "On   *)
(* every reported addr gossip, last_seen is refreshed to now by            *)
(* re-inserting (HashSet replace)".                                        *)
(***************************************************************************)
EXTENDS KnownNetwork

VARIABLE reported

NotReported == -1

histVars == <<netVars, reported>>

HistInit ==
    /\ Init
    /\ reported = [p \in Pairs |-> NotReported]

\* Every pair an add_addrs call inserts is reported at the current time.
Report(source, listening_addrs) ==
    reported' = [p \in Pairs |->
                   IF \E addr \in listening_addrs : p = {source, addr}
                   THEN now ELSE reported[p]]

HistNext ==
    \/ \E r \in Readers, s \in SocketAddr, L \in AddrLists :
          AddAddrsInsert(r, s, L) /\ Report(s, L)
    \/ (\/ \E r \in Readers : UpdateNodesSnapshot(r)
        \/ \E r \in Readers : UpdateNodesWrite(r)
        \/ RemoveOldScan
        \/ RemoveOldWrite
        \/ Tick) /\ UNCHANGED reported

HistSpec == HistInit /\ [][HistNext]_histVars

\* A connection reported in gossip within the last LAST_SEEN_CUTOFF is
\* still known: each report refreshes last_seen, so pruning only drops
\* connections nobody has reported for longer than the cutoff.  The code
\* re-inserts with HashSet::insert (network.rs:94), which keeps the stored
\* element and its first last_seen.
ReportedConnectionsKept ==
    \A p \in Pairs :
        (reported[p] # NotReported /\ now - reported[p] <= LAST_SEEN_CUTOFF)
            => \E c \in connections : Pair(c) = p
=============================================================================
