----------------------------- MODULE MongocCluster -----------------------------
(***************************************************************************)
(* mongoc-cluster.c: the connections of a client to the nodes of a server,  *)
(* replica set or sharded cluster.  The code runs on the thread of its      *)
(* client, so that a function is one step, or one per host when it loops;   *)
(* whatever the servers and the network do meanwhile shows in the outcome   *)
(* of a call to them.                                                       *)
(*                                                                          *)
(* A cluster is a record c of its mode, its nodes and its health (state in  *)
(* the code).  Functions that talk to servers return sets of outcomes.      *)
(***************************************************************************)
EXTENDS ClusterSelect, Sequences

CONSTANTS
  Modes,          \* what URIs ask for: see _mongoc_cluster_init
  Requests,       \* the RPCs, with read preferences, that callers send
  Seeds,          \* the hosts of the URI, no more than there are slots
  Members,        \* the hosts that an isMaster reply of a replica set lists
  RequiresAuth,   \* the URI has a user or an authentication mechanism
  MaxRetry,       \* MAX_RETRY_COUNT
  MaxStamp        \* bound: stamps above it are not told apart

ASSUME ClusterConstants ==
  /\ Modes \subseteq {"direct", "replica set", "sharded"}
  /\ Requests \subseteq [rpc: Rpcs, prefs: Prefs]
  /\ Len(Seeds) \in 1..MaxNodes
  /\ Members \in Nat
  /\ RequiresAuth \in BOOLEAN
  /\ MaxRetry \in Nat
  /\ MaxStamp \in Nat \ {0}

\* _mongoc_cluster_node_init
node_init == [stream |-> FALSE, primary |-> FALSE, ping |-> -1, tags |-> {},
              stamp |-> 0, needsAuth |-> FALSE]

Bump(stamp) == IF stamp < MaxStamp THEN stamp + 1 ELSE stamp

\* _mongoc_cluster_update_state
Health(nodes) ==
  LET up == \E i \in Slot : nodes[i].stream
      down == \E i \in Slot : ~nodes[i].stream /\ nodes[i].stamp > 0
  IN  IF up THEN IF down THEN "unhealthy" ELSE "healthy"
      ELSE IF down THEN "dead" ELSE "born"

update_state(c) == [c EXCEPT !.health = Health(c.nodes)]

\* _mongoc_cluster_disconnect_node
disconnect_node(c, i) ==
  update_state(
    [c EXCEPT !.nodes[i] = [c.nodes[i] EXCEPT !.stream = FALSE, !.needsAuth = RequiresAuth,
                                              !.ping = -1, !.stamp = Bump(@), !.primary = FALSE]])

\* _mongoc_cluster_node_destroy: the stream goes, the other fields stay.
node_destroy(c, i) == [c EXCEPT !.nodes[i].stream = FALSE]

\* _mongoc_cluster_node_track_ping, for the first ping of a new connection.
track_ping(c, i, ping) == [c EXCEPT !.nodes[i].ping = ping]

Done(c, ok) == [c |-> c, ok |-> ok]

\* _mongoc_cluster_run_command: any failure disconnects the node.
run_command(c, i) == {Done(c, TRUE), Done(disconnect_node(c, i), FALSE)}

\* _mongoc_cluster_ismaster.  A server with the wrong wire version is refused
\* after its role has been noted.
ismaster(c, i) ==
  LET noted(p) == [c EXCEPT !.nodes[i].primary = p]
  IN  {Done(disconnect_node(disconnect_node(c, i), i), FALSE)}
      \cup {Done(noted(p), TRUE) : p \in BOOLEAN} \cup {Done(noted(p), FALSE) : p \in BOOLEAN}

\* _mongoc_cluster_auth_node: refused, or cut off during one of its commands.
node_auth(c, i) ==
  {Done(c, TRUE), Done(c, FALSE), Done(disconnect_node(c, i), FALSE)}

\* _mongoc_cluster_ping_node
ping_node(c, i) ==
  UNION {{[c |-> r.c, ok |-> r.ok, ping |-> p] : p \in Pings} : r \in run_command(c, i)}

-----------------------------------------------------------------------------
(* Reconnecting.  w.i is the slot to fill, w.left the hosts still to try, and *)
(* w.over an early return.  Each host is a step of its own.                 *)

Skip(w, c) == [c |-> c, w |-> w]
Give_up(w, c) == [c |-> c, w |-> [w EXCEPT !.over = TRUE]]
Kept(w, c) == [c |-> c, w |-> [w EXCEPT !.i = @ + 1]]

\* The node in its slot before isMaster.
NewNode(c, i) ==
  [c EXCEPT !.nodes[i] = [node_init EXCEPT !.stream = TRUE, !.needsAuth = RequiresAuth]]

\* Mutant: a node that is refused is kept for later.
KeepUnauthenticated(c, i) ==
  {IF a.ok THEN Done([a.c EXCEPT !.nodes[i].needsAuth = FALSE], TRUE) ELSE a
   : a \in node_auth(c, i)}

\* if (needs_auth): authenticate or give the node up.
Authenticated(c, i) ==
  IF ~c.nodes[i].needsAuth THEN {Done(c, TRUE)}
  ELSE {IF a.ok THEN Done([a.c EXCEPT !.nodes[i].needsAuth = FALSE], TRUE)
        ELSE Done(node_destroy(a.c, i), FALSE) : a \in node_auth(c, i)}

Pinged(w, c) ==
  {IF p.ok THEN Kept(w, track_ping(p.c, w.i, p.ping))
   ELSE Skip(w, node_destroy(p.c, w.i)) : p \in ping_node(c, w.i)}

\* Whether the node belongs: strcmp (nodes[i].replSet, replSet).
RightSet(c) == IF c.mode = "replica set" THEN BOOLEAN ELSE {TRUE}

\* A host that answers isMaster, in the loops of the replica set and of the
\* sharded cluster.
connect_member(w, c) ==
  UNION {IF a.ok THEN Pinged(w, a.c) ELSE {Give_up(w, a.c)} : a \in Authenticated(c, w.i)}

\* One turn of these loops, for a host that may be unreachable.
connect_host(w, c) ==
  {Skip(w, c)} \cup
  UNION {UNION {IF m.ok /\ right THEN connect_member(w, m.c)
                ELSE {Skip(w, node_destroy(m.c, w.i))} : right \in RightSet(c)}
         : m \in ismaster(NewNode(c, w.i), w.i)}

\* _mongoc_cluster_reconnect_direct
reconnect_direct(w, c) ==
  LET c1 == [c EXCEPT !.nodes[1] = [node_init EXCEPT !.needsAuth = RequiresAuth,
                                                     !.stamp = Bump(c.nodes[1].stamp)]]
      c2 == [c1 EXCEPT !.nodes[1].stream = TRUE, !.nodes[1].stamp = Bump(@)]
  IN  {Give_up(w, c1)} \cup
      UNION {IF ~m.ok THEN {Give_up(w, disconnect_node(m.c, 1))}
             ELSE {IF a.ok THEN Kept(w, a.c) ELSE Give_up(w, disconnect_node(a.c, 1))
                   : a \in Authenticated(m.c, 1)}
             : m \in ismaster(c2, 1)}

\* The hosts to try.  For a replica set these are the hosts that its seeds
\* list, which may be none; the seeds' own connections have been closed again.
HostsToTry(mode) ==
  CASE mode = "direct" -> {1}
    [] mode = "replica set" -> {0, Members}
    [] mode = "sharded" -> {Len(Seeds)}

-----------------------------------------------------------------------------

VARIABLES
  cluster,   \* the record c
  request,   \* the operation that is running
  work,      \* the reconnection that it waits for
  answer,    \* what the last one returned: hint (0 is failure), and whether
             \* the transport refused the messages
  aborted    \* an assertion failed

clusterVars == <<cluster, request, work, answer, aborted>>

NoRequest == [op |-> "none", retry |-> 0]
NoWork == [on |-> FALSE, left |-> 0, i |-> 1, over |-> FALSE]
Answer(hint, refused) == [hint |-> hint, refused |-> refused]

\* _mongoc_cluster_init
ClusterInit ==
  /\ cluster \in [mode: Modes, health: {"born"},
                  nodes: {[i \in Slot |-> [node_init EXCEPT !.needsAuth = RequiresAuth]]}]
  /\ request = NoRequest
  /\ work = NoWork
  /\ answer = Answer(0, FALSE)
  /\ aborted = FALSE

Ready == request = NoRequest /\ ~aborted
Return(hint, refused) ==
  request' = NoRequest /\ answer' = Answer(hint, refused) /\ UNCHANGED aborted
Abort == aborted' = TRUE /\ request' = NoRequest /\ UNCHANGED answer

\* _mongoc_cluster_reconnect closes what is left first.  The roles of the nodes
\* stay as they were.
reconnect ==
  /\ cluster' = update_state([cluster EXCEPT !.nodes = [i \in Slot |-> [@[i] EXCEPT !.stream = FALSE]]])
  /\ \E n \in HostsToTry(cluster.mode) : work' = [NoWork EXCEPT !.on = TRUE, !.left = n]
  /\ UNCHANGED <<answer, aborted>>

\* Another host is tried.  The loop over the members of a replica set stops at
\* the last slot; that over the hosts of a sharded cluster does not look, and
\* would go past it if the URI named more hosts than ClusterConstants allows.
Trying ==
  /\ work.on /\ work.left > 0 /\ ~work.over
  /\ cluster.mode = "replica set" => work.i <= MaxNodes

\* _mongoc_cluster_reconnect_replica_set, _mongoc_cluster_reconnect_sharded_cluster
\* and _mongoc_cluster_reconnect_direct: the next host.
reconnect_next ==
  /\ Trying
  /\ LET w == [work EXCEPT !.left = @ - 1]
     IN  \E r \in IF cluster.mode = "direct" THEN reconnect_direct(w, cluster)
                  ELSE connect_host(w, cluster) :
           cluster' = r.c /\ work' = r.w
  /\ UNCHANGED <<request, answer, aborted>>

\* When the first host of a sharded cluster turns out to be a member of a
\* replica set, reconnect_replica_set is called, which asserts that the URI
\* names the set.
reconnect_migrates ==
  /\ work.on /\ cluster.mode = "sharded" /\ work.i = 2 /\ ~work.over
  /\ work.left = Len(Seeds) - 1
  /\ cluster' = [cluster EXCEPT !.mode = "replica set"]
  /\ work' = NoWork
  /\ Abort

\* The node that command_early asks: the primary, or else a connected one.
EarlyNode(c) ==
  LET p == {i \in Slot : c.nodes[i].primary}
      up == {i \in Slot : c.nodes[i].stream}
  IN  LeastOf(IF p # {} THEN p ELSE up)

\* _mongoc_cluster_command_early after its reconnection.
run_early(c) ==
  IF c.nodes[EarlyNode(c)].stream
  THEN \E d \in run_command(c, EarlyNode(c)) : cluster' = d.c /\ Return(0, ~d.ok)
  ELSE cluster' = c /\ Abort

\* The end of the reconnection: false when it gave up or kept no node.
reconnect_end ==
  /\ work.on /\ ~Trying
  /\ work' = NoWork
  /\ IF work.over \/ work.i = 1 THEN UNCHANGED cluster /\ Return(0, FALSE)
     ELSE IF request.op = "early" THEN run_early(update_state(cluster))
     ELSE cluster' = update_state(cluster) /\ UNCHANGED <<request, answer, aborted>>

-----------------------------------------------------------------------------

\* The writev of the gathered messages.  Only a result of zero is taken for a
\* failure; mongoc_stream_writev returns -1 when it fails.
Deliver(i) ==
  \/ UNCHANGED cluster /\ Return(i, FALSE)
  \/ UNCHANGED cluster /\ Return(i, TRUE)
  \/ UNCHANGED cluster /\ Return(0, FALSE)              \* larger than max_msg_size
  \/ cluster' = disconnect_node(cluster, i) /\ Return(0, TRUE)

\* A node was selected: the code asserts that it has a stream.
Send(i) ==
  /\ UNCHANGED work
  /\ IF cluster.nodes[i].stream THEN Deliver(i) ELSE Abort /\ UNCHANGED cluster

\* Mutant: tries again for as long as reconnecting works.
RetryForever == reconnect /\ UNCHANGED request

\* retry_count++ == MAX_RETRY_COUNT ends the loop around select.
Retry ==
  IF request.retry = MaxRetry THEN Return(0, FALSE) /\ UNCHANGED <<cluster, work>>
  ELSE reconnect /\ request' = [request EXCEPT !.retry = @ + 1]

Begin(op, q, hint) ==
  request' = [op |-> op, retry |-> 0, hint |-> hint, rpc |-> q.rpc, prefs |-> q.prefs]

\* _mongoc_cluster_sendv: reconnect first when no node is connected, or when
\* some are not and the last attempt is 20 seconds old.
sendv(q, hint) ==
  /\ Ready
  /\ Begin("sendv", q, hint)
  /\ \/ cluster.health \in {"dead", "unhealthy"} /\ reconnect
     \/ cluster.health # "dead" /\ UNCHANGED <<cluster, work, answer, aborted>>

\* One turn of its loop.
sendv_select ==
  /\ request.op = "sendv" /\ ~work.on
  /\ \E s \in select(cluster.mode, cluster.nodes, request.hint, request.prefs, request.rpc) :
       IF s.node # 0 THEN Send(s.node) ELSE Retry

\* _mongoc_cluster_try_sendv never reconnects.
try_sendv(q, hint) ==
  /\ Ready
  /\ \E s \in select(cluster.mode, cluster.nodes, hint, q.prefs, q.rpc) :
       IF s.node # 0 THEN Send(s.node) ELSE Return(0, FALSE) /\ UNCHANGED <<cluster, work>>

\* _mongoc_cluster_preselect: the same loop without anything to send.
preselect(q) ==
  Ready /\ Begin("preselect", q, 0) /\ UNCHANGED <<cluster, work, answer, aborted>>

preselect_select ==
  /\ request.op = "preselect" /\ ~work.on
  /\ \E s \in select(cluster.mode, cluster.nodes, 0, request.prefs, request.rpc) :
       IF s.node # 0 THEN Return(s.node, FALSE) /\ UNCHANGED <<cluster, work>> ELSE Retry

\* _mongoc_cluster_try_recv: a short read, a bad length or a bad message.
try_recv(hint) ==
  /\ Ready
  /\ cluster.nodes[hint].stream
  /\ \E r \in run_command(cluster, hint) : cluster' = r.c
  /\ UNCHANGED <<request, work, answer, aborted>>

\* _mongoc_cluster_command_early, before anything else was sent.
command_early ==
  Ready /\ cluster.health = "born" /\ reconnect /\ request' = [NoRequest EXCEPT !.op = "early"]

ClusterStep ==
  sendv_select \/ preselect_select \/ reconnect_next \/ reconnect_migrates \/ reconnect_end

ClusterCall ==
  \/ \E q \in Requests, hint \in 0..MaxNodes : sendv(q, hint) \/ try_sendv(q, hint)
  \/ \E q \in Requests : preselect(q)
  \/ \E hint \in Slot : try_recv(hint)
  \/ command_early

ClusterNext == ClusterStep \/ ClusterCall

\* A call that has begun goes on: the client's thread runs.
ClusterFairness == WF_clusterVars(ClusterStep)
ClusterSpec == ClusterInit /\ [][ClusterNext]_clusterVars /\ ClusterFairness

-----------------------------------------------------------------------------

\* The kinds of the fields.
ClusterTypeOK ==
  /\ cluster.nodes \in [Slot -> [stream: BOOLEAN, primary: BOOLEAN, ping: Pings \cup {-1},
                                 tags: {{}}, stamp: 0..MaxStamp, needsAuth: BOOLEAN]]
  /\ cluster.health \in {"born", "healthy", "unhealthy", "dead"}
  /\ answer \in [hint: 0..MaxNodes, refused: BOOLEAN]
  /\ request.retry \in 0..MaxRetry
  /\ work.i \in 1..(MaxNodes + 1)

\* A connection that still has to authenticate is never left where select
\* could pick it, on any path out of a failed reconnection
\* (mongoc-cluster.c:1808, 1996, 2113).
NeverUnauthenticated ==
  ~work.on => \A i \in Slot : cluster.nodes[i].stream => ~cluster.nodes[i].needsAuth

\* The health that decides whether sendv reconnects never hides a connection
\* that was lost while the nodes were in use: with a healthy cluster, every
\* node that has a history is connected (mongoc-cluster.c:116, 2455).
HealthyMeansConnected ==
  ~aborted /\ ~work.on /\ cluster.health = "healthy" =>
    /\ \E i \in Slot : cluster.nodes[i].stream
    /\ \A i \in Slot : cluster.nodes[i].stamp > 0 => cluster.nodes[i].stream

\* Every call returns: the loops around select and reconnect end after
\* MAX_RETRY_COUNT turns, whatever the servers do (mongoc-cluster.c:2467).
CallsReturn == (request # NoRequest) ~> (request = NoRequest)

\* What select may pick from is authenticated, and the health says so.
ConnectionsUsable == ClusterTypeOK /\ NeverUnauthenticated /\ HealthyMeansConnected
=============================================================================
