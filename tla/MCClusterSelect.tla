--------------------------- MODULE MCClusterSelect ---------------------------
(* Selection from every set of nodes that connecting can leave.              *)
EXTENDS ClusterSelect

VARIABLES nodes, ask, chosen

selectVars == <<nodes, ask, chosen>>

NodeOf(stream, primary, ping) ==
  [stream |-> stream, primary |-> primary, ping |-> ping, tags |-> {}]

\* Nodes as connecting and losing connections leave them.  One with a stream
\* has been pinged, but for the only node of direct mode.  One that has lost its
\* stream may have kept its role and its ping: _mongoc_cluster_reconnect and
\* _mongoc_cluster_node_destroy clear neither, so that several may be flagged as
\* the primary.
NodesOf(mode) ==
  LET direct == mode = "direct"
      node == [stream: {TRUE}, primary: BOOLEAN, ping: IF direct THEN {-1} ELSE Pings, tags: {{}}]
              \cup [stream: {FALSE}, primary: BOOLEAN, ping: Pings \cup {-1}, tags: {{}}]
  IN  {f \in [Slot -> node] :
         direct => \A i \in Slot \ {1} : f[i] = NodeOf(FALSE, FALSE, -1)}

SelectInit ==
  \E mode \in {"direct", "replica set", "sharded"} :
    /\ nodes \in NodesOf(mode)
    /\ ask \in [mode: {mode}, hint: 0..MaxNodes, prefs: Prefs, rpc: Rpcs]
    /\ chosen = [node |-> -1, error |-> FALSE]

Select ==
  /\ chosen.node = -1
  /\ chosen' \in select(ask.mode, nodes, ask.hint, ask.prefs, ask.rpc)
  /\ UNCHANGED <<nodes, ask>>

SelectSpec == SelectInit /\ [][Select]_selectVars

Chosen == chosen.node > 0
Replica == ask.mode = "replica set"

\* The request goes to the first node flagged as the primary.
ToPrimary == Replica /\ NeedPrimary(ask.prefs, ask.rpc)

\* In a replica set a write never goes to a secondary, a secondary read never
\* goes to the primary, and nothing goes to a lost connection, whatever the
\* hint and the preference (mongoc-cluster.c:655-710).  The exception: a request
\* that needs the primary is given a lost node that is still flagged as such
\* (:691), even beside a connected primary in a later slot, and
\* _mongoc_cluster_sendv then fails its assertion (:2476).
RoleRespected ==
  Chosen =>
    /\ nodes[chosen.node].stream \/ ToPrimary
    /\ ToPrimary => /\ nodes[chosen.node].primary
                    /\ \A i \in Slot : nodes[i].primary => chosen.node <= i
    /\ Replica /\ (IsWrite(ask.rpc) \/ ReadMode(ask.prefs) = "primary") =>
         nodes[chosen.node].primary
    /\ Replica /\ ~IsWrite(ask.rpc) /\ ReadMode(ask.prefs) = "secondary" =>
         ~nodes[chosen.node].primary

\* Without a hint, a node that is picked among several is within the
\* threshold of every other one that would do (mongoc-cluster.c:745-790).
NearEnough ==
  Chosen /\ ask.mode # "direct" /\ ask.hint = 0 /\ ~ToPrimary =>
    \A i \in Slot :
      (/\ nodes[i].stream /\ nodes[i].ping >= 0
       /\ ask.prefs = NoPrefs \/ score(ask.prefs, nodes[i]) >= 0
       /\ ~(Replica /\ ReadMode(ask.prefs) = "secondary" /\ nodes[i].primary)) =>
        nodes[chosen.node].ping <= nodes[i].ping + Latency

\* A node that is chosen has the role that the request needs and is near.
ChosenWell == RoleRespected /\ NearEnough
=============================================================================
