------------------------- MODULE MongocClusterProofs -------------------------
(***************************************************************************)
(* ConnectionsUsable holds of the connections of a client, for any number   *)
(* of slots, hosts and retries, whatever the servers answer and whenever    *)
(* they fail: what select can pick from is authenticated, and a healthy     *)
(* cluster has lost no connection that nobody noticed.                      *)
(***************************************************************************)
EXTENDS MongocCluster, WellFoundedInduction, TLAPS

NodeType ==
  [stream: BOOLEAN, primary: BOOLEAN, ping: Pings \cup {-1}, tags: {{}},
   stamp: 0..MaxStamp, needsAuth: BOOLEAN]

Healths == {"born", "healthy", "unhealthy", "dead"}
ClusterType ==
  [mode: {"direct", "replica set", "sharded"}, health: Healths, nodes: [Slot -> NodeType]]

RequestType ==
  [op: {"none", "early"}, retry: {0}] \cup
  [op: {"sendv", "preselect"}, retry: 0..MaxRetry, hint: 0..MaxNodes, rpc: Rpcs, prefs: Prefs]

WorkType == [on: BOOLEAN, left: Nat, i: 1..(MaxNodes + 1), over: BOOLEAN]

TypesKept ==
  /\ cluster \in ClusterType
  /\ request \in RequestType
  /\ work \in WorkType
  /\ answer \in [hint: 0..MaxNodes, refused: BOOLEAN]
  /\ aborted \in BOOLEAN

\* Also between two hosts of a reconnection, a connection has authenticated.
Trusted(c) == \A i \in Slot : c.nodes[i].stream => ~c.nodes[i].needsAuth

\* A healthy cluster has no gaps.
NoGaps(c) ==
  c.health = "healthy" =>
    /\ \E i \in Slot : c.nodes[i].stream
    /\ \A i \in Slot : c.nodes[i].stamp > 0 => c.nodes[i].stream

\* There is a slot for every host that is left.
HostsFit(w) == w.i + w.left <= MaxNodes + 1

\* A reconnection belongs to a call, does not take itself for healthy, is
\* connected to the first node as soon as it has filled a slot, and has slots
\* for the hosts that are left unless it counts them.
Working ==
  work.on =>
    /\ request.op # "none"
    /\ cluster.health # "healthy"
    /\ work.i > 1 /\ ~work.over => cluster.nodes[1].stream
    /\ cluster.mode # "replica set" => HostsFit(work)

ClusterInv == TypesKept /\ Trusted(cluster) /\ NoGaps(cluster) /\ Working

-----------------------------------------------------------------------------
(* What each function does to the one node that it is about.                *)

\* Only the node in slot i changed, and nothing became healthy.
Touches(c, d, i) ==
  /\ d \in ClusterType
  /\ d.mode = c.mode
  /\ \A j \in Slot : j # i => d.nodes[j] = c.nodes[j]
  /\ c.health # "healthy" => d.health # "healthy"

\* The numbers among the constants.
LEMMA Numbers ==
  /\ MaxStamp \in Nat /\ MaxStamp # 0
  /\ MaxRetry \in Nat
  /\ Members \in Nat
  /\ RequiresAuth \in BOOLEAN
BY ClusterConstants, Zenon

\* There is at least one slot (MONGOC_CLUSTER_MAX_NODES is positive).
LEMMA Slots == 1 \in Slot /\ Slot \subseteq Nat /\ MaxNodes \in Nat
BY SelectConstants DEF Slot

\* A node that was lost leaves a trace in the health.
LEMMA HealthOfLoss ==
  ASSUME NEW nodes \in [Slot -> NodeType], NEW i \in Slot,
         ~nodes[i].stream, nodes[i].stamp > 0
  PROVE  Health(nodes) \in {"unhealthy", "dead"}
BY DEF Health

\* _mongoc_cluster_update_state gives one of the four states, and healthy only
\* to a cluster without gaps.
LEMMA UpdateState ==
  ASSUME NEW c \in ClusterType
  PROVE  /\ update_state(c) \in ClusterType
         /\ update_state(c).mode = c.mode
         /\ update_state(c).nodes = c.nodes
         /\ update_state(c).health = Health(c.nodes)
         /\ NoGaps(update_state(c))
<1>1. Health(c.nodes) \in Healths
  BY Zenon DEF Health, Healths
<1>2. Health(c.nodes) = "healthy" =>
        /\ \E i \in Slot : c.nodes[i].stream
        /\ ~ \E i \in Slot : ~c.nodes[i].stream /\ c.nodes[i].stamp > 0
  BY DEF Health
<1>3. /\ update_state(c) \in ClusterType
      /\ update_state(c).mode = c.mode
      /\ update_state(c).nodes = c.nodes
      /\ update_state(c).health = Health(c.nodes)
  BY <1>1 DEF update_state, ClusterType
<1>4. NoGaps(update_state(c))
  BY <1>2, <1>3 DEF NoGaps
<1>5. QED
  BY <1>3, <1>4

\* Replacing the node in one slot.
LEMMA NodeReplaced ==
  ASSUME NEW c \in ClusterType, NEW i \in Slot, NEW n \in NodeType
  PROVE  LET d == [c EXCEPT !.nodes[i] = n]
         IN  Touches(c, d, i) /\ d.nodes[i] = n /\ d.health = c.health
BY DEF Touches, ClusterType

\* _mongoc_cluster_disconnect_node takes the stream away, and the cluster is
\* not healthy then.
LEMMA DisconnectNode ==
  ASSUME NEW c \in ClusterType, NEW i \in Slot
  PROVE  LET d == disconnect_node(c, i)
         IN  /\ Touches(c, d, i)
             /\ ~d.nodes[i].stream
             /\ d.health \in {"unhealthy", "dead"}
<1> DEFINE n == [c.nodes[i] EXCEPT !.stream = FALSE, !.needsAuth = RequiresAuth,
                                   !.ping = -1, !.stamp = Bump(@), !.primary = FALSE]
           e == [c EXCEPT !.nodes[i] = n]
<1>1. c.nodes[i] \in NodeType
  BY DEF ClusterType
<1>2. Bump(c.nodes[i].stamp) \in 0..MaxStamp /\ Bump(c.nodes[i].stamp) > 0
  <2>1. c.nodes[i].stamp \in 0..MaxStamp
    BY <1>1 DEF NodeType
  <2>2. MaxStamp \in Nat /\ MaxStamp # 0
    BY Numbers
  <2> HIDE DEF n, e
  <2>3. QED
    BY <2>1, <2>2 DEF Bump
<1>3. n \in NodeType /\ n.stream = FALSE /\ n.stamp > 0
  BY <1>1, <1>2, Numbers DEF NodeType
<1>4. disconnect_node(c, i) = update_state(e)
  BY Zenon DEF disconnect_node
<1> HIDE DEF n
<1>5. Touches(c, e, i) /\ e.nodes[i] = n
  BY <1>3, NodeReplaced
<1> HIDE DEF e
<1>6. e \in ClusterType
  BY <1>5 DEF Touches
<1>7. e.nodes \in [Slot -> NodeType]
  BY <1>6 DEF ClusterType
<1>8. Health(e.nodes) \in {"unhealthy", "dead"}
  BY <1>3, <1>5, <1>7, HealthOfLoss
<1>9. QED
  BY <1>3, <1>4, <1>5, <1>6, <1>8, UpdateState DEF Touches

\* _mongoc_cluster_node_destroy only takes the stream.
LEMMA NodeDestroy ==
  ASSUME NEW c \in ClusterType, NEW i \in Slot
  PROVE  LET d == node_destroy(c, i)
         IN  Touches(c, d, i) /\ ~d.nodes[i].stream /\ d.health = c.health
<1> DEFINE n == [c.nodes[i] EXCEPT !.stream = FALSE]
<1>1. n \in NodeType /\ n.stream = FALSE
  BY DEF ClusterType, NodeType
<1>2. node_destroy(c, i) = [c EXCEPT !.nodes[i] = n]
  BY DEF node_destroy, ClusterType
<1> HIDE DEF n
<1>3. QED
  BY <1>1, <1>2, NodeReplaced

\* One change after another.
LEMMA TouchesTwice ==
  ASSUME NEW c, NEW d, NEW e, NEW i \in Slot, Touches(c, d, i), Touches(d, e, i)
  PROVE  Touches(c, e, i)
BY DEF Touches

\* A change to one slot leaves a cluster.
LEMMA TouchesType ==
  ASSUME NEW c, NEW d, NEW i, Touches(c, d, i)
  PROVE  d \in ClusterType
BY DEF Touches

\* No change is a change to any slot.
LEMMA TouchesNothing ==
  ASSUME NEW c \in ClusterType, NEW i
  PROVE  Touches(c, c, i)
BY DEF Touches

\* _mongoc_cluster_run_command: the node answers or is disconnected.
LEMMA RunCommand ==
  ASSUME NEW c \in ClusterType, NEW i \in Slot, NEW r \in run_command(c, i)
  PROVE  /\ r.ok \in BOOLEAN
         /\ Touches(c, r.c, i)
         /\ r.ok => r.c = c
         /\ ~r.ok => ~r.c.nodes[i].stream /\ r.c.health # "healthy"
<1>1. CASE r = Done(c, TRUE)
  BY <1>1, TouchesNothing DEF Done
<1>2. CASE r = Done(disconnect_node(c, i), FALSE)
  <2>1. r.c = disconnect_node(c, i) /\ r.ok = FALSE
    BY <1>2 DEF Done
  <2>2. QED
    BY <2>1, DisconnectNode
<1>3. QED
  BY <1>1, <1>2 DEF run_command

\* _mongoc_cluster_ismaster: a node that answers keeps its connection.
LEMMA Ismaster ==
  ASSUME NEW c \in ClusterType, NEW i \in Slot, NEW m \in ismaster(c, i)
  PROVE  /\ m.ok \in BOOLEAN
         /\ Touches(c, m.c, i)
         /\ m.ok => /\ m.c.nodes[i].stream = c.nodes[i].stream
                    /\ m.c.nodes[i].needsAuth = c.nodes[i].needsAuth
<1>1. CASE m = Done(disconnect_node(disconnect_node(c, i), i), FALSE)
  <2>1. m.c = disconnect_node(disconnect_node(c, i), i) /\ m.ok = FALSE
    BY <1>1 DEF Done
  <2>2. Touches(c, disconnect_node(c, i), i)
    BY DisconnectNode
  <2>3. Touches(disconnect_node(c, i), m.c, i)
    BY <2>1, <2>2, TouchesType, DisconnectNode
  <2>4. QED
    BY <2>1, <2>2, <2>3, TouchesTwice
<1>2. ASSUME NEW p \in BOOLEAN, NEW ok \in BOOLEAN,
             m = Done([c EXCEPT !.nodes[i].primary = p], ok)
      PROVE  /\ m.ok \in BOOLEAN
             /\ Touches(c, m.c, i)
             /\ m.c.nodes[i].stream = c.nodes[i].stream
             /\ m.c.nodes[i].needsAuth = c.nodes[i].needsAuth
  <2> DEFINE n == [c.nodes[i] EXCEPT !.primary = p]
  <2>1. n \in NodeType /\ n.stream = c.nodes[i].stream /\ n.needsAuth = c.nodes[i].needsAuth
    BY DEF ClusterType, NodeType
  <2>2. m.c = [c EXCEPT !.nodes[i] = n] /\ m.ok = ok
    BY <1>2 DEF Done, ClusterType
  <2> HIDE DEF n
  <2>3. QED
    BY <2>1, <2>2, NodeReplaced
<1>3. \/ m = Done(disconnect_node(disconnect_node(c, i), i), FALSE)
      \/ \E p \in BOOLEAN : m = Done([c EXCEPT !.nodes[i].primary = p], TRUE)
      \/ \E p \in BOOLEAN : m = Done([c EXCEPT !.nodes[i].primary = p], FALSE)
  BY Zenon DEF ismaster
<1>4. QED
  BY <1>1, <1>2, <1>3, Zenon

\* Authentication leaves a connection that may be used, or none.
LEMMA AuthenticatedNode ==
  ASSUME NEW c \in ClusterType, NEW i \in Slot, NEW a \in Authenticated(c, i)
  PROVE  /\ a.ok \in BOOLEAN
         /\ Touches(c, a.c, i)
         /\ a.ok => /\ a.c.nodes[i].stream = c.nodes[i].stream
                    /\ ~a.c.nodes[i].needsAuth
         /\ ~a.ok => ~a.c.nodes[i].stream
<1>1. CASE ~c.nodes[i].needsAuth
  <2>1. a = Done(c, TRUE)
    BY <1>1 DEF Authenticated
  <2>2. QED
    BY <1>1, <2>1, TouchesNothing DEF Done
<1>2. CASE c.nodes[i].needsAuth
  <2>1. PICK b \in node_auth(c, i) :
          a = IF b.ok THEN Done([b.c EXCEPT !.nodes[i].needsAuth = FALSE], TRUE)
              ELSE Done(node_destroy(b.c, i), FALSE)
    BY <1>2, Zenon DEF Authenticated
  <2>2. CASE b = Done(c, TRUE)
    <3> DEFINE n == [c.nodes[i] EXCEPT !.needsAuth = FALSE]
    <3>1. n \in NodeType /\ n.stream = c.nodes[i].stream /\ n.needsAuth = FALSE
      BY DEF ClusterType, NodeType
    <3>2. b.ok /\ b.c = c
      BY <2>2 DEF Done
    <3>3. a = Done([c EXCEPT !.nodes[i].needsAuth = FALSE], TRUE)
      BY <2>1, <3>2
    <3>4. a.c = [c EXCEPT !.nodes[i] = n] /\ a.ok = TRUE
      BY <3>3 DEF Done, ClusterType
    <3> HIDE DEF n
    <3>5. Touches(c, a.c, i) /\ a.c.nodes[i] = n
      BY <3>1, <3>4, NodeReplaced
    <3>6. QED
      BY <3>1, <3>4, <3>5, Zenon
  <2>3. CASE b \in {Done(c, FALSE), Done(disconnect_node(c, i), FALSE)}
    <3>1. ~b.ok /\ Touches(c, b.c, i)
      BY <2>3, DisconnectNode, TouchesNothing DEF Done
    <3>2. a = Done(node_destroy(b.c, i), FALSE)
      BY <2>1, <3>1
    <3>3. a.c = node_destroy(b.c, i) /\ a.ok = FALSE
      BY <3>2 DEF Done
    <3>4. Touches(b.c, a.c, i) /\ ~a.c.nodes[i].stream
      BY <3>1, <3>3, TouchesType, NodeDestroy
    <3>5. QED
      BY <3>1, <3>3, <3>4, TouchesTwice
  <2>4. QED
    BY <2>2, <2>3 DEF node_auth
<1>3. QED
  BY <1>1, <1>2

-----------------------------------------------------------------------------
(* One host of a reconnection.                                              *)

OneMore(w) == [w EXCEPT !.i = @ + 1]
Over(w) == [w EXCEPT !.over = TRUE]

\* What may come of one host: nothing, a node in slot i that may be used, or the
\* end of the reconnection.
Turned(w, c, r, i) ==
  /\ Touches(c, r.c, i)
  /\ \/ r.c.nodes[i] = c.nodes[i]
     \/ r.c.nodes[i].stream => ~r.c.nodes[i].needsAuth
  /\ \/ r.w = w
     \/ r.w = Over(w)
     \/ r.w = OneMore(w) /\ r.c.nodes[i].stream

\* The first ping of a connection decides whether it is kept.
LEMMA PingedNode ==
  ASSUME NEW c \in ClusterType, NEW w, w.i \in Slot, NEW r \in Pinged(w, c),
         c.nodes[w.i].stream, ~c.nodes[w.i].needsAuth
  PROVE  /\ Touches(c, r.c, w.i)
         /\ r.c.nodes[w.i].stream => ~r.c.nodes[w.i].needsAuth
         /\ \/ r.w = w
            \/ r.w = OneMore(w) /\ r.c.nodes[w.i].stream
<1> DEFINE i == w.i
<1>1. PICK p \in ping_node(c, i) :
        r = IF p.ok THEN Kept(w, track_ping(p.c, i, p.ping)) ELSE Skip(w, node_destroy(p.c, i))
  BY Zenon DEF Pinged
<1>2. PICK d \in run_command(c, i), ping \in Pings : p = [c |-> d.c, ok |-> d.ok, ping |-> ping]
  BY Zenon DEF ping_node
<1>3. p.c = d.c /\ p.ok = d.ok /\ p.ping \in Pings
  BY <1>2
<1> HIDE DEF i
<1>4. i \in Slot
  BY DEF i
<1>5. /\ d.ok \in BOOLEAN
      /\ Touches(c, d.c, i)
      /\ d.ok => d.c = c
  BY <1>2, <1>4, RunCommand
<1>6. CASE p.ok
  <2>1. d.c = c /\ r = Kept(w, track_ping(c, i, p.ping))
    BY <1>1, <1>3, <1>5, <1>6
  <2> DEFINE n == [c.nodes[i] EXCEPT !.ping = p.ping]
  <2>2. n \in NodeType /\ n.stream = c.nodes[i].stream /\ n.needsAuth = c.nodes[i].needsAuth
    BY <1>3, <1>4, ZenonT(40) DEF ClusterType, NodeType
  <2>3. r.c = [c EXCEPT !.nodes[i] = n] /\ r.w = OneMore(w)
    BY <2>1, <1>4 DEF Kept, track_ping, ClusterType, OneMore
  <2> HIDE DEF n
  <2>4. Touches(c, r.c, i) /\ r.c.nodes[i] = n
    BY <1>4, <2>2, <2>3, NodeReplaced
  <2>5. QED
    BY <2>2, <2>3, <2>4, Zenon DEF i
<1>7. CASE ~p.ok
  <2>1. r.c = node_destroy(d.c, i) /\ r.w = w
    BY <1>1, <1>3, <1>7 DEF Skip
  <2>2. Touches(d.c, r.c, i) /\ ~r.c.nodes[i].stream
    BY <1>4, <1>5, <2>1, TouchesType, NodeDestroy
  <2>3. Touches(c, r.c, i)
    BY <1>4, <1>5, <2>2, TouchesTwice
  <2>4. QED
    BY <2>1, <2>2, <2>3, Zenon DEF i
<1>8. QED
  BY <1>6, <1>7

\* _mongoc_cluster_node_init gives a node without stream or history.
LEMMA NodeBorn == node_init \in NodeType /\ node_init.stream = FALSE /\ node_init.stamp = 0
<1>1. 0 \in 0..MaxStamp
  BY Numbers
<1>2. QED
  BY <1>1 DEF node_init, NodeType

\* A node that has just been connected has to authenticate if the URI says so.
LEMMA NewNodeMade ==
  ASSUME NEW c \in ClusterType, NEW i \in Slot
  PROVE  Touches(c, NewNode(c, i), i) /\ NewNode(c, i).nodes[i].stream
<1> DEFINE n == [node_init EXCEPT !.stream = TRUE, !.needsAuth = RequiresAuth]
<1>1. n \in NodeType /\ n.stream = TRUE
  BY Numbers, NodeBorn DEF NodeType
<1> HIDE DEF n
<1>2. NewNode(c, i) = [c EXCEPT !.nodes[i] = n]
  BY Zenon DEF NewNode, n
<1>3. QED
  BY <1>1, <1>2, NodeReplaced

\* The loops of _mongoc_cluster_reconnect_replica_set and
\* _mongoc_cluster_reconnect_sharded_cluster: one host.
LEMMA HostConnected ==
  ASSUME NEW c \in ClusterType, NEW w, w.i \in Slot, NEW r \in connect_host(w, c)
  PROVE  Turned(w, c, r, w.i)
<1> DEFINE i == w.i
           n == NewNode(c, i)
<1>1. CASE r = Skip(w, c)
  <2>1. r.c = c /\ r.w = w
    BY <1>1 DEF Skip
  <2>2. Touches(c, r.c, i)
    BY <2>1, TouchesNothing
  <2>3. QED
    BY <2>1, <2>2, Zenon DEF Turned
<1>2. CASE r # Skip(w, c)
  <2>1. PICK m \in ismaster(n, i) : \E right \in RightSet(c) :
          r \in IF m.ok /\ right THEN connect_member(w, m.c) ELSE {Skip(w, node_destroy(m.c, i))}
    <3>1. PICK S : /\ r \in S
                   /\ S \in {UNION {IF m.ok /\ right THEN connect_member(w, m.c)
                                    ELSE {Skip(w, node_destroy(m.c, i))} : right \in RightSet(c)}
                             : m \in ismaster(n, i)}
      BY <1>2, Zenon DEF connect_host
    <3>2. PICK m \in ismaster(n, i) :
            S = UNION {IF m.ok /\ right THEN connect_member(w, m.c)
                       ELSE {Skip(w, node_destroy(m.c, i))} : right \in RightSet(c)}
      BY <3>1, Zenon
    <3>3. PICK right \in RightSet(c) :
            r \in IF m.ok /\ right THEN connect_member(w, m.c) ELSE {Skip(w, node_destroy(m.c, i))}
      BY <3>1, <3>2, Zenon
    <3>4. QED
      BY <3>2, <3>3, Zenon
  <2> HIDE DEF n
  <2>2. n \in ClusterType /\ Touches(c, n, i) /\ n.nodes[i].stream
    BY NewNodeMade, TouchesType DEF n
  <2>3. /\ Touches(n, m.c, i)
        /\ m.ok => m.c.nodes[i].stream = n.nodes[i].stream
    BY <2>1, <2>2, Ismaster
  <2>4. Touches(c, m.c, i) /\ m.c \in ClusterType
    BY <2>2, <2>3, TouchesTwice, TouchesType
  <2>5. CASE r = Skip(w, node_destroy(m.c, i))
    <3>1. r.c = node_destroy(m.c, i) /\ r.w = w
      BY <2>5 DEF Skip
    <3>2. Touches(m.c, r.c, i) /\ ~r.c.nodes[i].stream
      BY <2>4, <3>1, NodeDestroy
    <3>3. Touches(c, r.c, i)
      BY <2>4, <3>2, TouchesTwice
    <3>4. QED
      BY <3>1, <3>2, <3>3, Zenon DEF Turned
  <2>6. CASE m.ok /\ r \in connect_member(w, m.c)
    <3>1. PICK a \in Authenticated(m.c, i) : r \in IF a.ok THEN Pinged(w, a.c) ELSE {Give_up(w, a.c)}
      BY <2>6, Zenon DEF connect_member
    <3>2. /\ Touches(m.c, a.c, i)
          /\ a.ok => a.c.nodes[i].stream = m.c.nodes[i].stream /\ ~a.c.nodes[i].needsAuth
          /\ ~a.ok => ~a.c.nodes[i].stream
      BY <2>4, <3>1, AuthenticatedNode
    <3>3. Touches(c, a.c, i) /\ a.c \in ClusterType
      BY <2>4, <3>2, TouchesTwice, TouchesType
    <3>4. CASE a.ok
      <4>1. a.c.nodes[i].stream /\ ~a.c.nodes[i].needsAuth /\ r \in Pinged(w, a.c)
        BY <2>2, <2>3, <2>6, <3>1, <3>2, <3>4
      <4>2. /\ Touches(a.c, r.c, i)
            /\ r.c.nodes[i].stream => ~r.c.nodes[i].needsAuth
            /\ \/ r.w = w
               \/ r.w = OneMore(w) /\ r.c.nodes[i].stream
        BY <3>3, <4>1, PingedNode
      <4>3. Touches(c, r.c, i)
        BY <3>3, <4>2, TouchesTwice
      <4>4. QED
        BY <4>2, <4>3, Zenon DEF Turned
    <3>5. CASE ~a.ok
      <4>1. r.c = a.c /\ r.w = Over(w)
        BY <3>1, <3>5 DEF Give_up, Over
      <4>2. QED
        BY <3>2, <3>3, <3>5, <4>1, Zenon DEF Turned
    <3>6. QED
      BY <3>4, <3>5
  <2>7. QED
    BY <2>1, <2>5, <2>6
<1>3. QED
  BY <1>1, <1>2

\* _mongoc_cluster_reconnect_direct: the only host.
LEMMA DirectConnected ==
  ASSUME NEW c \in ClusterType, NEW w, NEW r \in reconnect_direct(w, c)
  PROVE  Turned(w, c, r, 1) /\ r.w \in {Over(w), OneMore(w)}
<1> DEFINE n1 == [node_init EXCEPT !.needsAuth = RequiresAuth, !.stamp = Bump(c.nodes[1].stamp)]
           c1 == [c EXCEPT !.nodes[1] = n1]
           c2 == [c1 EXCEPT !.nodes[1].stream = TRUE, !.nodes[1].stamp = Bump(@)]
<1>1. 1 \in Slot
  BY Slots
<1>2. \A s \in 0..MaxStamp : Bump(s) \in 0..MaxStamp
  BY Numbers DEF Bump
<1>3. c.nodes[1].stamp \in 0..MaxStamp
  BY <1>1 DEF ClusterType, NodeType
<1>4. n1 \in NodeType /\ n1.stream = FALSE
  BY <1>2, <1>3, Numbers, NodeBorn DEF NodeType
<1>5. \/ r = Give_up(w, c1)
      \/ \E m \in ismaster(c2, 1) :
           \/ ~m.ok /\ r = Give_up(w, disconnect_node(m.c, 1))
           \/ /\ m.ok
              /\ \E a \in Authenticated(m.c, 1) :
                   r = IF a.ok THEN Kept(w, a.c) ELSE Give_up(w, disconnect_node(a.c, 1))
  BY Zenon DEF reconnect_direct
<1> HIDE DEF n1
<1>6. Touches(c, c1, 1) /\ c1.nodes[1] = n1
  BY <1>1, <1>4, NodeReplaced
<1>7. Touches(c1, c2, 1) /\ c2.nodes[1].stream
  <2> DEFINE n2 == [n1 EXCEPT !.stream = TRUE, !.stamp = Bump(n1.stamp)]
  <2>1. n2 \in NodeType /\ n2.stream = TRUE
    BY <1>2, <1>4 DEF NodeType
  <2> HIDE DEF c1
  <2>2. c1 \in ClusterType
    BY <1>6, TouchesType
  <2>3. c2 = [c1 EXCEPT !.nodes[1] = n2]
    BY <1>1, <1>6, <2>2 DEF ClusterType
  <2> HIDE DEF n2, c2
  <2>4. QED
    BY <1>1, <2>1, <2>2, <2>3, NodeReplaced
<1> HIDE DEF c1, c2
<1>8. Touches(c, c2, 1) /\ c2 \in ClusterType
  BY <1>1, <1>6, <1>7, TouchesTwice, TouchesType
<1>9. CASE r = Give_up(w, c1)
  <2>1. r.c = c1 /\ r.w = Over(w)
    BY <1>9 DEF Give_up, Over
  <2>2. QED
    BY <1>4, <1>6, <2>1, Zenon DEF Turned
<1>10. ASSUME NEW m \in ismaster(c2, 1), ~m.ok, r = Give_up(w, disconnect_node(m.c, 1))
       PROVE  Turned(w, c, r, 1) /\ r.w \in {Over(w), OneMore(w)}
  <2>1. r.c = disconnect_node(m.c, 1) /\ r.w = Over(w)
    BY <1>10 DEF Give_up, Over
  <2>2. Touches(c2, m.c, 1)
    BY <1>1, <1>8, <1>10, Ismaster
  <2>3. Touches(m.c, r.c, 1) /\ ~r.c.nodes[1].stream
    BY <1>1, <2>1, <2>2, TouchesType, DisconnectNode
  <2>4. Touches(c, r.c, 1)
    BY <1>1, <1>8, <2>2, <2>3, TouchesTwice
  <2>5. QED
    BY <2>1, <2>3, <2>4, Zenon DEF Turned
<1>11. ASSUME NEW m \in ismaster(c2, 1), m.ok, NEW a \in Authenticated(m.c, 1),
              r = IF a.ok THEN Kept(w, a.c) ELSE Give_up(w, disconnect_node(a.c, 1))
       PROVE  Turned(w, c, r, 1) /\ r.w \in {Over(w), OneMore(w)}
  <2>1. Touches(c2, m.c, 1) /\ m.c.nodes[1].stream
    BY <1>1, <1>7, <1>8, <1>11, Ismaster
  <2>2. /\ Touches(m.c, a.c, 1)
        /\ a.ok => a.c.nodes[1].stream = m.c.nodes[1].stream /\ ~a.c.nodes[1].needsAuth
    BY <1>1, <1>11, <2>1, TouchesType, AuthenticatedNode
  <2>3. Touches(c, a.c, 1)
    BY <1>1, <1>8, <2>1, <2>2, TouchesTwice
  <2>4. CASE a.ok
    <3>1. r.c = a.c /\ r.w = OneMore(w)
      BY <1>11, <2>4 DEF Kept, OneMore
    <3>2. QED
      BY <2>1, <2>2, <2>3, <2>4, <3>1, Zenon DEF Turned
  <2>5. CASE ~a.ok
    <3>1. r.c = disconnect_node(a.c, 1) /\ r.w = Over(w)
      BY <1>11, <2>5 DEF Give_up, Over
    <3>2. Touches(a.c, r.c, 1) /\ ~r.c.nodes[1].stream
      BY <1>1, <2>3, <3>1, TouchesType, DisconnectNode
    <3>3. Touches(c, r.c, 1)
      BY <1>1, <2>3, <3>2, TouchesTwice
    <3>4. QED
      BY <3>1, <3>2, <3>3, Zenon DEF Turned
  <2>6. QED
    BY <2>4, <2>5
<1>12. QED
  BY <1>5, <1>9, <1>10, <1>11, Zenon

-----------------------------------------------------------------------------
(* Choosing a node.                                                         *)

\* Any slots have a first one.
LEMMA FirstSlot ==
  ASSUME NEW S, S \subseteq Slot, S # {}
  PROVE  LeastOf(S) \in S
<1> DEFINE below == {ss \in Nat \X Nat : ss[1] < ss[2]}
<1>1. S \subseteq Nat
  BY Slots
<1>2. IsWellFoundedOn(below, Nat)
  BY NatLessThanWellFounded, Zenon DEF OpToRel
<1>3. PICK x \in S : \A y \in S : ~ (<<y, x>> \in below)
  <2> HIDE DEF below
  <2>1. QED
    BY <1>1, <1>2, WFMin
<1>4. \A y \in S : x \in Nat /\ y \in Nat /\ ~ (y < x)
  BY <1>1, <1>3
<1>5. \A y \in S : x <= y
  BY <1>4
<1>6. QED
  BY <1>3, <1>5, Zenon DEF LeastOf

\* _mongoc_cluster_select picks a slot, or none.
LEMMA SelectedSlot ==
  ASSUME NEW mode, NEW nodes, NEW hint, NEW prefs, NEW rpc,
         NEW s \in select(mode, nodes, hint, prefs, rpc)
  PROVE  s.node \in 0..MaxNodes /\ (s.node # 0 => s.node \in Slot)
<1> DEFINE primaries == {i \in Slot : nodes[i].primary}
           connected == {i \in Slot : nodes[i].stream}
<1>1. \A C \in SUBSET Slot : \A t \in ByHint(nodes, C, hint) : t.node = 0 \/ t.node \in Slot
  <2>1. \A C \in SUBSET Slot : \A t \in ByHint(nodes, C, hint) :
          t = NotSelected(TRUE) \/ (hint \in Slot /\ t = SelectedNode(hint))
    BY Zenon DEF ByHint
  <2>2. QED
    BY <2>1 DEF SelectedNode, NotSelected
<1>2. \A C \in SUBSET Slot : \A t \in AtRandom(nodes, C, prefs) : t.node = 0 \/ t.node \in Slot
  <2> SUFFICES ASSUME NEW C \in SUBSET Slot, NEW t \in AtRandom(nodes, C, prefs)
               PROVE  t.node = 0 \/ t.node \in Slot
    OBVIOUS
  <2> DEFINE suitable == {i \in C : prefs = NoPrefs \/ score(prefs, nodes[i]) >= 0}
  <2>1. \/ t = NotSelected(TRUE) \/ t = NotSelected(FALSE)
        \/ \E i \in Within(nodes, suitable) : t = SelectedNode(i)
    BY Zenon DEF AtRandom
  <2>2. Within(nodes, suitable) \subseteq suitable
    BY Zenon DEF Within
  <2>3. suitable \subseteq Slot
    OBVIOUS
  <2> HIDE DEF suitable
  <2>4. QED
    BY <2>1, <2>2, <2>3 DEF SelectedNode, NotSelected
<1>3. primaries # {} => LeastOf(primaries) \in Slot
  BY FirstSlot
<1>4. \/ s = NotSelected(FALSE) \/ s = NotSelected(TRUE)
      \/ s = SelectedNode(1)
      \/ primaries # {} /\ s = SelectedNode(LeastOf(primaries))
      \/ \E C \in SUBSET Slot : s \in ByHint(nodes, C, hint)
      \/ \E C \in SUBSET Slot : s \in AtRandom(nodes, C, prefs)
  <2>1. connected \in SUBSET Slot /\ connected \ primaries \in SUBSET Slot
    OBVIOUS
  <2>2. QED
    BY <2>1, Zenon DEF select
<1>5. s.node = 0 \/ s.node \in Slot
  <2>1. /\ NotSelected(FALSE).node = 0 /\ NotSelected(TRUE).node = 0
        /\ \A i : SelectedNode(i).node = i
    BY DEF SelectedNode, NotSelected
  <2>2. QED
    BY <1>1, <1>2, <1>3, <1>4, <2>1, Slots, Zenon
<1>6. QED
  BY <1>5, Slots DEF Slot

-----------------------------------------------------------------------------
(* The invariant.                                                           *)

\* A cluster outside of a reconnection.
Fit(c) == c \in ClusterType /\ Trusted(c) /\ NoGaps(c)

\* What becomes of the request, the answer and the assertions.
Closed ==
  /\ request' \in RequestType
  /\ answer' \in [hint: 0..MaxNodes, refused: BOOLEAN]
  /\ aborted' \in BOOLEAN

\* _mongoc_cluster_init satisfies the invariant.
LEMMA ClusterStarts == ClusterInit => ClusterInv
<1> SUFFICES ASSUME ClusterInit PROVE ClusterInv
  OBVIOUS
<1> DEFINE n == [node_init EXCEPT !.needsAuth = RequiresAuth]
<1>1. n \in NodeType /\ n.stream = FALSE
  BY Numbers, NodeBorn DEF NodeType
<1>2. /\ cluster \in [mode: Modes, health: {"born"}, nodes: {[i \in Slot |-> n]}]
      /\ request = NoRequest
      /\ work = NoWork
      /\ answer = Answer(0, FALSE)
      /\ aborted = FALSE
  BY Zenon DEF ClusterInit
<1> HIDE DEF n
<1>3. Modes \subseteq {"direct", "replica set", "sharded"}
  BY ClusterConstants, Zenon
<1>4. cluster.nodes = [i \in Slot |-> n] /\ cluster.health = "born"
  BY <1>2
<1>5. cluster \in ClusterType
  BY <1>1, <1>2, <1>3 DEF ClusterType, Healths
<1>6. request \in RequestType
  BY <1>2 DEF NoRequest, RequestType
<1>7. work \in WorkType /\ work.on = FALSE
  BY <1>2, Slots DEF NoWork, WorkType, Slot
<1>8. answer \in [hint: 0..MaxNodes, refused: BOOLEAN]
  BY <1>2, Slots DEF Answer
<1>9. Trusted(cluster) /\ NoGaps(cluster) /\ Working
  BY <1>1, <1>4, <1>7 DEF Trusted, NoGaps, Working
<1>10. QED
  BY <1>2, <1>5, <1>6, <1>7, <1>8, <1>9 DEF ClusterInv, TypesKept

\* Nothing more is needed when no reconnection is running afterwards.
LEMMA Settled ==
  ASSUME Fit(cluster'), Closed, work' \in WorkType, ~work'.on
  PROVE  ClusterInv'
BY DEF ClusterInv, TypesKept, Working, Fit, Closed

\* An operation that returns, and one that fails an assertion.
LEMMA Returned ==
  ASSUME ClusterInv, NEW hint \in 0..MaxNodes, NEW refused \in BOOLEAN, Return(hint, refused)
  PROVE  Closed
<1>1. NoRequest \in RequestType
  BY DEF NoRequest, RequestType
<1>2. QED
  BY <1>1 DEF Return, Closed, Answer, ClusterInv, TypesKept

\* An operation that found no node returns 0.
LEMMA ReturnedNothing ==
  ASSUME ClusterInv, Return(0, FALSE)
  PROVE  Closed
<1>1. 0 \in 0..MaxNodes
  BY Slots
<1>2. QED
  BY <1>1, Returned

\* When no reconnection runs there is none to go on with.
LEMMA AtRest == NoWork \in WorkType /\ ~NoWork.on
BY Slots DEF NoWork, WorkType, Slot

\* An assertion that fails ends the operation.
LEMMA Asserted ==
  ASSUME ClusterInv, Abort
  PROVE  Closed
<1>1. NoRequest \in RequestType
  BY DEF NoRequest, RequestType
<1>2. QED
  BY <1>1 DEF Abort, Closed, ClusterInv, TypesKept

\* A disconnected node can be neither unauthenticated nor overlooked.
LEMMA FitAfterLoss ==
  ASSUME NEW c, Fit(c), NEW d, NEW i \in Slot, Touches(c, d, i), ~d.nodes[i].stream,
         d.health # "healthy"
  PROVE  Fit(d)
BY DEF Fit, Trusted, NoGaps, Touches

\* A command that fails disconnects its node, and the cluster stays usable.
LEMMA FitAfterCommand ==
  ASSUME NEW c, Fit(c), NEW i \in Slot, NEW r \in run_command(c, i)
  PROVE  Fit(r.c) /\ r.ok \in BOOLEAN
<1>1. c \in ClusterType
  BY DEF Fit
<1>2. QED
  BY <1>1, RunCommand, FitAfterLoss

\* So does a failed writev.
LEMMA FitAfterDisconnect ==
  ASSUME NEW c, Fit(c), NEW i \in Slot
  PROVE  Fit(disconnect_node(c, i))
<1>1. c \in ClusterType
  BY DEF Fit
<1>2. disconnect_node(c, i).health # "healthy"
  BY <1>1, DisconnectNode
<1>3. QED
  BY <1>1, <1>2, DisconnectNode, FitAfterLoss

\* _mongoc_cluster_reconnect begins by closing everything.
LEMMA ReconnectBegins ==
  ASSUME ClusterInv, reconnect, request' \in RequestType, request'.op # "none"
  PROVE  ClusterInv'
<1> DEFINE ns == [i \in Slot |-> [cluster.nodes[i] EXCEPT !.stream = FALSE]]
           e == [cluster EXCEPT !.nodes = ns]
<1>1. /\ cluster' = update_state(e)
      /\ \E n \in HostsToTry(cluster.mode) : work' = [NoWork EXCEPT !.on = TRUE, !.left = n]
      /\ answer' = answer /\ aborted' = aborted
  BY Zenon DEF reconnect
<1>2. cluster \in ClusterType
  BY DEF ClusterInv, TypesKept
<1>3. ns \in [Slot -> NodeType] /\ \A i \in Slot : ns[i].stream = FALSE
  BY <1>2, ZenonT(40) DEF ClusterType, NodeType
<1> HIDE DEF ns
<1>4. e \in ClusterType /\ e.nodes = ns /\ e.mode = cluster.mode
  BY <1>2, <1>3 DEF ClusterType
<1> HIDE DEF e
<1>5. Health(ns) # "healthy"
  BY <1>3, Zenon DEF Health
<1>6. /\ cluster' \in ClusterType
      /\ cluster'.nodes = ns
      /\ cluster'.mode = cluster.mode
      /\ cluster'.health # "healthy"
  BY <1>1, <1>4, <1>5, UpdateState
<1>7. /\ HostsToTry(cluster.mode) \subseteq Nat
      /\ cluster.mode # "replica set" => HostsToTry(cluster.mode) \subseteq 1..MaxNodes
  <2>1. cluster.mode \in {"direct", "replica set", "sharded"}
    BY <1>2 DEF ClusterType
  <2>2. Len(Seeds) \in 1..MaxNodes
    BY ClusterConstants, Zenon
  <2> DEFINE len == Len(Seeds)
  <2> HIDE DEF len
  <2>3. len \in Nat
    BY <2>2, Slots DEF len
  <2>4. CASE cluster.mode = "direct"
    <3>1. HostsToTry(cluster.mode) = {1}
      BY <2>4, Zenon DEF HostsToTry
    <3>2. QED
      BY <3>1, Slots DEF Slot
  <2>5. CASE cluster.mode = "replica set"
    <3>1. HostsToTry(cluster.mode) = {0, Members}
      BY <2>5, Zenon DEF HostsToTry
    <3>2. {0, Members} \subseteq Nat
      BY Numbers
    <3>3. QED
      BY <2>5, <3>1, <3>2, Zenon
  <2>6. CASE cluster.mode = "sharded"
    <3>1. HostsToTry(cluster.mode) = {len}
      BY <2>6, Zenon DEF HostsToTry, len
    <3>2. len \in 1..MaxNodes
      BY <2>2 DEF len
    <3>3. QED
      BY <3>1, <3>2, <2>3
  <2>7. QED
    BY <2>1, <2>4, <2>5, <2>6
<1>8. /\ work' \in WorkType
      /\ work'.i = 1
      /\ cluster.mode # "replica set" => HostsFit(work')
  <2>1. PICK n \in HostsToTry(cluster.mode) : work' = [NoWork EXCEPT !.on = TRUE, !.left = n]
    BY <1>1, Zenon
  <2>2. /\ n \in Nat
        /\ cluster.mode # "replica set" => n \in 1..MaxNodes
    BY <1>7, <2>1
  <2>3. NoWork \in WorkType /\ NoWork.i = 1
    BY Slots DEF NoWork, WorkType, Slot
  <2>4. work' \in WorkType /\ work'.i = 1 /\ work'.left = n
    BY <2>1, <2>2, <2>3 DEF WorkType
  <2>5. n \in 1..MaxNodes => HostsFit(work')
    BY <2>4, Slots DEF HostsFit
  <2>6. QED
    BY <2>2, <2>4, <2>5, Zenon
<1>9. Trusted(cluster') /\ NoGaps(cluster')
  BY <1>3, <1>6 DEF Trusted, NoGaps
<1>10. Working'
  <2>1. cluster'.mode # "replica set" => HostsFit(work')
    BY <1>6, <1>8
  <2>2. ~(work'.i > 1)
    <3>1. work'.i = 1
      BY <1>8, Zenon
    <3>2. QED
      BY <3>1
  <2>3. cluster'.health # "healthy"
    BY <1>6
  <2>4. QED
    BY <2>1, <2>2, <2>3 DEF Working
<1>11. TypesKept'
  BY <1>1, <1>6, <1>8 DEF ClusterInv, TypesKept
<1>12. QED
  BY <1>9, <1>10, <1>11 DEF ClusterInv

\* A turn of the reconnection.
LEMMA NextHost ==
  ASSUME ClusterInv, reconnect_next
  PROVE  ClusterInv'
<1> DEFINE w == [work EXCEPT !.left = @ - 1]
<1>1. /\ Trying
      /\ \E r \in IF cluster.mode = "direct" THEN reconnect_direct(w, cluster)
                  ELSE connect_host(w, cluster) :
           cluster' = r.c /\ work' = r.w
      /\ request' = request /\ answer' = answer /\ aborted' = aborted
  BY Zenon DEF reconnect_next
<1>2. /\ cluster \in ClusterType
      /\ work \in WorkType
      /\ Trusted(cluster)
      /\ work.on
  BY <1>1 DEF ClusterInv, TypesKept, Trying
<1>3. work.i \in Slot /\ work.left > 0 /\ ~work.over
  <2>1. work.left > 0 /\ ~work.over
    BY <1>1 DEF Trying
  <2>2. work.i <= MaxNodes
    <3>1. CASE cluster.mode = "replica set"
      BY <1>1, <3>1 DEF Trying
    <3>2. CASE cluster.mode # "replica set"
      <4>1. HostsFit(work)
        BY <1>2, <3>2, Zenon DEF ClusterInv, Working
      <4>2. QED
        BY <1>2, <2>1, <4>1, Slots DEF WorkType, HostsFit
    <3>3. QED
      BY <3>1, <3>2
  <2>3. QED
    BY <1>2, <2>1, <2>2, Slots DEF WorkType, Slot
<1>4. w \in WorkType /\ w.on /\ w.i = work.i /\ ~w.over
  BY <1>2, <1>3 DEF WorkType
<1> HIDE DEF w
<1>5. PICK j \in Slot : \E r :
        /\ cluster' = r.c /\ work' = r.w
        /\ Turned(w, cluster, r, j)
        /\ j = work.i \/ (j = 1 /\ r.w \in {Over(w), OneMore(w)})
  <2>1. CASE cluster.mode = "direct"
    <3>1. PICK r \in reconnect_direct(w, cluster) : cluster' = r.c /\ work' = r.w
      BY <1>1, <2>1, Zenon
    <3>2. QED
      <4>1. Turned(w, cluster, r, 1) /\ r.w \in {Over(w), OneMore(w)}
        BY <1>2, <3>1, DirectConnected
      <4>2. QED
        BY <3>1, <4>1, Slots, Zenon
  <2>2. CASE cluster.mode # "direct"
    <3>1. PICK r \in connect_host(w, cluster) : cluster' = r.c /\ work' = r.w
      BY <1>1, <2>2, Zenon
    <3>2. QED
      <4>1. w.i \in Slot
        BY <1>3, <1>4, Zenon
      <4>2. Turned(w, cluster, r, w.i)
        BY <1>2, <3>1, <4>1, HostConnected
      <4>3. QED
        BY <1>4, <3>1, <4>1, <4>2, Zenon
  <2>3. QED
    BY <2>1, <2>2
<1>6. /\ cluster' \in ClusterType
      /\ cluster'.health # "healthy"
      /\ \A k \in Slot : k # j => cluster'.nodes[k] = cluster.nodes[k]
      /\ cluster'.nodes[j] = cluster.nodes[j] \/ (cluster'.nodes[j].stream => ~cluster'.nodes[j].needsAuth)
  BY <1>2, <1>5 DEF Turned, Touches, ClusterInv, Working
<1>7. Trusted(cluster')
  BY <1>2, <1>6, Zenon DEF Trusted
<1>8. NoGaps(cluster')
  BY <1>6 DEF NoGaps
<1>9. /\ work' \in WorkType
      /\ work'.on
      /\ \/ work'.over
         \/ work'.i = work.i /\ j = work.i
         \/ work'.i = work.i + 1 /\ cluster'.nodes[j].stream
  <2>1. CASE work' = Over(w)
    BY <2>1, <1>4 DEF Over, WorkType
  <2>2. CASE work' = OneMore(w) /\ cluster'.nodes[j].stream
    <3>1. work.i + 1 \in 1..(MaxNodes + 1)
      BY <1>3, Slots DEF Slot
    <3>2. QED
      BY <2>2, <3>1, <1>4 DEF OneMore, WorkType
  <2>3. CASE work' = w
    <3>1. Over(w).over = TRUE /\ OneMore(w).i = w.i + 1
      BY <1>4 DEF Over, OneMore, WorkType
    <3>2. w.i # w.i + 1
      BY <1>4 DEF WorkType
    <3>3. work' # Over(w) /\ work' # OneMore(w)
      BY <2>3, <3>1, <3>2, <1>4, Zenon
    <3>4. QED
      BY <2>3, <3>3, <1>4, <1>5
  <2>4. QED
    BY <1>5, <2>1, <2>2, <2>3, Zenon DEF Turned
<1>10. work'.i > 1 /\ ~work'.over => cluster'.nodes[1].stream
  <2> SUFFICES ASSUME work'.i > 1, ~work'.over PROVE cluster'.nodes[1].stream
    OBVIOUS
  <2>1. work.i > 1 => cluster.nodes[1].stream
    BY <1>2, <1>3 DEF ClusterInv, Working
  <2>2. CASE j # 1 /\ work.i > 1
    <3>1. cluster'.nodes[1] = cluster.nodes[1]
      BY <2>2, <1>6, Slots, Zenon
    <3>2. QED
      BY <2>1, <2>2, <3>1, Zenon
  <2>3. CASE j = 1 /\ cluster'.nodes[j].stream
    BY <2>3
  <2>4. j = 1 \/ work.i > 1
    BY <1>3, <1>5, Slots DEF Slot
  <2>5. QED
    BY <1>3, <1>5, <1>9, <2>2, <2>3, <2>4 DEF Slot
<1>11. cluster'.mode # "replica set" => HostsFit(work')
  <2>1. cluster'.mode = cluster.mode
    BY <1>5 DEF Turned, Touches
  <2>2. /\ work'.left = work.left - 1
        /\ work'.i \in {work.i, work.i + 1}
    <3>1. w.left = work.left - 1 /\ w.i = work.i
      BY <1>2 DEF w, WorkType
    <3>2. work' \in {w, Over(w), OneMore(w)}
      BY <1>5, Zenon DEF Turned
    <3>3. QED
      BY <1>4, <3>1, <3>2 DEF Over, OneMore, WorkType
  <2>3. cluster.mode # "replica set" => HostsFit(work)
    BY <1>2, Zenon DEF ClusterInv, Working
  <2>4. HostsFit(work) => HostsFit(work')
    BY <1>2, <2>2, Slots DEF WorkType, HostsFit
  <2>5. QED
    BY <2>1, <2>3, <2>4, Zenon
<1>12. QED
  BY <1>1, <1>2, <1>6, <1>7, <1>8, <1>9, <1>10, <1>11 DEF ClusterInv, TypesKept, Working

\* The end of the reconnection: a successful one sets the health, and a command
\* that waited for it runs on a node that the cluster has.
LEMMA ReconnectEnds ==
  ASSUME ClusterInv, reconnect_end
  PROVE  ClusterInv'
<1>1. cluster \in ClusterType /\ Trusted(cluster) /\ NoGaps(cluster) /\ Fit(cluster)
  BY DEF ClusterInv, TypesKept, Fit
<1>2. work.on /\ work' = NoWork
  BY DEF reconnect_end
<1>3. work' \in WorkType /\ ~work'.on
  BY <1>2, AtRest
<1>4. Fit(update_state(cluster))
  BY <1>1, UpdateState DEF Fit, Trusted
<1>5. CASE work.over \/ work.i = 1
  <2>1. cluster' = cluster /\ Return(0, FALSE)
    BY <1>5 DEF reconnect_end
  <2>2. Closed
    BY <2>1, ReturnedNothing
  <2>3. QED
    BY <1>1, <1>3, <2>1, <2>2, Settled
<1>6. CASE ~(work.over \/ work.i = 1) /\ request.op = "early"
  <2> DEFINE d == update_state(cluster)
  <2>1. IF d.nodes[EarlyNode(d)].stream
        THEN \E r \in run_command(d, EarlyNode(d)) : cluster' = r.c /\ Return(0, ~r.ok)
        ELSE cluster' = d /\ Abort
    BY <1>6, Zenon DEF reconnect_end, run_early
  <2>2. d.nodes[1].stream
    <3>1. work.i > 1
      BY <1>6 DEF ClusterInv, TypesKept, WorkType
    <3>2. QED
      BY <1>1, <1>2, <1>6, <3>1, UpdateState DEF ClusterInv, Working
  <2> HIDE DEF d
  <2>3. EarlyNode(d) \in Slot
    <3> DEFINE p == {i \in Slot : d.nodes[i].primary}
               up == {i \in Slot : d.nodes[i].stream}
    <3>1. up # {}
      BY <2>2, Slots
    <3>2. LeastOf(IF p # {} THEN p ELSE up) \in Slot
      BY <3>1, FirstSlot
    <3>3. QED
      BY <3>2, Zenon DEF EarlyNode
  <2>4. CASE d.nodes[EarlyNode(d)].stream
    <3>1. PICK r \in run_command(d, EarlyNode(d)) : cluster' = r.c /\ Return(0, ~r.ok)
      BY <2>1, <2>4
    <3>2. Fit(r.c) /\ r.ok \in BOOLEAN
      BY <1>4, <2>3, <3>1, FitAfterCommand DEF d
    <3>3. (~r.ok) \in BOOLEAN /\ 0 \in 0..MaxNodes
      BY Slots
    <3>4. Closed
      BY <3>1, <3>3, Returned
    <3>5. QED
      BY <1>3, <3>1, <3>2, <3>4, Settled
  <2>5. CASE ~d.nodes[EarlyNode(d)].stream
    <3>1. cluster' = d /\ Abort
      BY <2>1, <2>5
    <3>2. Closed
      BY <3>1, Asserted
    <3>3. QED
      BY <1>3, <1>4, <3>1, <3>2, Settled DEF d
  <2>6. QED
    BY <2>4, <2>5
<1>7. CASE ~(work.over \/ work.i = 1) /\ request.op # "early"
  <2>1. cluster' = update_state(cluster) /\ request' = request /\ answer' = answer /\ aborted' = aborted
    BY <1>7, Zenon DEF reconnect_end
  <2>2. Closed
    BY <2>1 DEF Closed, ClusterInv, TypesKept
  <2>3. QED
    BY <1>3, <1>4, <2>1, <2>2, Settled
<1>8. QED
  BY <1>5, <1>6, <1>7

\* A sharded cluster that turns into a replica set fails an assertion.
LEMMA Migrates ==
  ASSUME ClusterInv, reconnect_migrates
  PROVE  ClusterInv'
<1>1. /\ cluster' = [cluster EXCEPT !.mode = "replica set"]
      /\ work' = NoWork
      /\ Abort
  BY DEF reconnect_migrates
<1>2. cluster \in ClusterType /\ Trusted(cluster) /\ NoGaps(cluster)
  BY DEF ClusterInv, TypesKept
<1>3. /\ cluster' \in ClusterType
      /\ cluster'.nodes = cluster.nodes
      /\ cluster'.health = cluster.health
  BY <1>1, <1>2 DEF ClusterType
<1>4. Fit(cluster')
  BY <1>2, <1>3 DEF Fit, Trusted, NoGaps
<1>5. work' \in WorkType /\ ~work'.on
  BY <1>1, AtRest
<1>6. QED
  BY <1>1, <1>4, <1>5, Asserted, Settled

\* The selected node gets the messages.
LEMMA Sends ==
  ASSUME ClusterInv, ~work.on, NEW i \in Slot, Send(i)
  PROVE  ClusterInv'
<1>1. work' = work /\ work \in WorkType /\ Fit(cluster)
  BY DEF Send, ClusterInv, TypesKept, Fit
<1>2. i \in 0..MaxNodes /\ 0 \in 0..MaxNodes
  BY Slots DEF Slot
<1>3. \/ cluster' = cluster /\ Abort
      \/ cluster' = cluster /\ Return(i, FALSE)
      \/ cluster' = cluster /\ Return(i, TRUE)
      \/ cluster' = cluster /\ Return(0, FALSE)
      \/ cluster' = disconnect_node(cluster, i) /\ Return(0, TRUE)
  BY Zenon DEF Send, Deliver
<1>4. Closed
  BY <1>2, <1>3, Asserted, Returned
<1>5. Fit(cluster')
  BY <1>1, <1>3, FitAfterDisconnect
<1>6. QED
  BY <1>1, <1>4, <1>5, Settled

\* No node was selected: the loop around select ends or reconnects.
LEMMA Retries ==
  ASSUME ClusterInv, ~work.on, request.op \in {"sendv", "preselect"}, Retry
  PROVE  ClusterInv'
<1>1. CASE request.retry = MaxRetry
  <2>1. Return(0, FALSE) /\ cluster' = cluster /\ work' = work
    BY <1>1 DEF Retry
  <2>2. Closed
    BY <2>1, ReturnedNothing
  <2>3. Fit(cluster) /\ work \in WorkType
    BY DEF ClusterInv, TypesKept, Fit
  <2>4. QED
    BY <2>1, <2>2, <2>3, Settled
<1>2. CASE request.retry # MaxRetry
  <2>1. reconnect /\ request' = [request EXCEPT !.retry = @ + 1]
    BY <1>2 DEF Retry
  <2>2. request \in [op: {"sendv", "preselect"}, retry: 0..MaxRetry, hint: 0..MaxNodes,
                     rpc: Rpcs, prefs: Prefs]
    BY DEF ClusterInv, TypesKept, RequestType
  <2>3. request.retry + 1 \in 0..MaxRetry
    BY <1>2, <2>2, Numbers
  <2>4. request' \in RequestType /\ request'.op # "none"
    BY <2>1, <2>2, <2>3 DEF RequestType
  <2>5. QED
    BY <2>1, <2>4, ReconnectBegins
<1>3. QED
  BY <1>1, <1>2

\* sendv and preselect begin.
LEMMA Begun ==
  ASSUME NEW q \in Requests, NEW op \in {"sendv", "preselect"}, NEW hint \in 0..MaxNodes,
         Begin(op, q, hint)
  PROVE  request' \in RequestType /\ request'.op = op
<1>1. q \in [rpc: Rpcs, prefs: Prefs]
  BY ClusterConstants, Zenon
<1>2. 0 \in 0..MaxRetry
  BY Numbers
<1>3. QED
  BY <1>1, <1>2 DEF Begin, RequestType

\* Each step preserves the invariant.
LEMMA ClusterKept ==
  ASSUME ClusterInv, ClusterNext
  PROVE  ClusterInv'
<1>1. /\ Fit(cluster) /\ work \in WorkType /\ work.on \in BOOLEAN
      /\ answer \in [hint: 0..MaxNodes, refused: BOOLEAN] /\ aborted \in BOOLEAN
  BY DEF ClusterInv, TypesKept, Fit, WorkType
<1>2. Ready => ~work.on
  BY DEF Ready, NoRequest, ClusterInv, Working
<1>3. CASE sendv_select
  <2>1. ~work.on /\ request.op = "sendv"
    BY <1>3 DEF sendv_select
  <2>2. PICK s \in select(cluster.mode, cluster.nodes, request.hint, request.prefs, request.rpc) :
          IF s.node # 0 THEN Send(s.node) ELSE Retry
    BY <1>3, Zenon DEF sendv_select
  <2>3. s.node # 0 => s.node \in Slot
    BY <2>2, SelectedSlot
  <2>4. QED
    BY <2>1, <2>2, <2>3, Sends, Retries
<1>4. CASE preselect_select
  <2>1. ~work.on /\ request.op = "preselect"
    BY <1>4 DEF preselect_select
  <2>2. PICK s \in select(cluster.mode, cluster.nodes, 0, request.prefs, request.rpc) :
          IF s.node # 0 THEN Return(s.node, FALSE) /\ UNCHANGED <<cluster, work>> ELSE Retry
    BY <1>4, Zenon DEF preselect_select
  <2>3. s.node \in 0..MaxNodes
    BY <2>2, SelectedSlot
  <2>4. CASE s.node # 0
    <3>1. Return(s.node, FALSE) /\ cluster' = cluster /\ work' = work
      BY <2>2, <2>4, Zenon
    <3>2. Closed
      BY <2>3, <3>1, Returned
    <3>3. QED
      BY <1>1, <2>1, <3>1, <3>2, Settled
  <2>5. CASE s.node = 0
    BY <2>1, <2>2, <2>5, Retries
  <2>6. QED
    BY <2>4, <2>5
<1>5. ASSUME NEW q \in Requests, NEW hint \in 0..MaxNodes, sendv(q, hint)
      PROVE  ClusterInv'
  <2>1. Ready /\ Begin("sendv", q, hint)
    BY <1>5 DEF sendv
  <2>2. request' \in RequestType /\ request'.op = "sendv"
    BY <2>1, Begun
  <2>3. CASE reconnect
    BY <2>2, <2>3, ReconnectBegins
  <2>4. CASE UNCHANGED <<cluster, work, answer, aborted>>
    <3>1. Closed
      BY <1>1, <2>2, <2>4 DEF Closed
    <3>2. QED
      BY <1>1, <1>2, <2>1, <2>4, <3>1, Settled
  <2>5. QED
    BY <1>5, <2>3, <2>4 DEF sendv
<1>6. ASSUME NEW q \in Requests, NEW hint \in 0..MaxNodes, try_sendv(q, hint)
      PROVE  ClusterInv'
  <2>1. Ready /\ ~work.on
    BY <1>2, <1>6 DEF try_sendv
  <2>2. PICK s \in select(cluster.mode, cluster.nodes, hint, q.prefs, q.rpc) :
          IF s.node # 0 THEN Send(s.node) ELSE Return(0, FALSE) /\ UNCHANGED <<cluster, work>>
    BY <1>6, Zenon DEF try_sendv
  <2>3. s.node # 0 => s.node \in Slot
    BY <2>2, SelectedSlot
  <2>4. CASE s.node # 0
    BY <2>1, <2>2, <2>3, <2>4, Sends
  <2>5. CASE s.node = 0
    <3>1. Return(0, FALSE) /\ cluster' = cluster /\ work' = work
      BY <2>2, <2>5
    <3>2. QED
      BY <1>1, <2>1, <3>1, ReturnedNothing, Settled
  <2>6. QED
    BY <2>4, <2>5
<1>7. ASSUME NEW q \in Requests, preselect(q)
      PROVE  ClusterInv'
  <2>1. Ready /\ Begin("preselect", q, 0) /\ UNCHANGED <<cluster, work, answer, aborted>>
    BY <1>7 DEF preselect
  <2>2. 0 \in 0..MaxNodes
    BY Slots
  <2>3. request' \in RequestType
    BY <2>1, <2>2, Begun
  <2>4. Closed
    BY <1>1, <2>1, <2>3 DEF Closed
  <2>5. QED
    BY <1>1, <1>2, <2>1, <2>4, Settled
<1>8. ASSUME NEW hint \in Slot, try_recv(hint)
      PROVE  ClusterInv'
  <2>1. /\ Ready
        /\ \E r \in run_command(cluster, hint) : cluster' = r.c
        /\ request' = request /\ work' = work /\ answer' = answer /\ aborted' = aborted
    BY <1>8 DEF try_recv
  <2>2. Fit(cluster')
    BY <1>1, <2>1, FitAfterCommand
  <2>3. Closed
    BY <2>1 DEF Closed, ClusterInv, TypesKept
  <2>4. QED
    BY <1>1, <1>2, <2>1, <2>2, <2>3, Settled
<1>9. CASE command_early
  <2>1. reconnect /\ request' = [NoRequest EXCEPT !.op = "early"]
    BY <1>9 DEF command_early
  <2>2. request' \in RequestType /\ request'.op # "none"
    BY <2>1 DEF NoRequest, RequestType
  <2>3. QED
    BY <2>1, <2>2, ReconnectBegins
<1>10. QED
  BY <1>3, <1>4, <1>5, <1>6, <1>7, <1>8, <1>9, NextHost, Migrates, ReconnectEnds, Zenon
     DEF ClusterNext, ClusterStep, ClusterCall

\* The invariant holds in every reachable state.
LEMMA ClusterInvariant == ClusterSpec => []ClusterInv
<1>1. ClusterInv /\ UNCHANGED clusterVars => ClusterInv'
  BY DEF clusterVars, ClusterInv, TypesKept, Trusted, NoGaps, Working
<1>2. QED
  BY <1>1, ClusterStarts, ClusterKept, PTL DEF ClusterSpec

\* Whatever the servers answer, select can only pick connections that have
\* authenticated, and a cluster that counts as healthy, so that sendv does not
\* reconnect, has lost none of the nodes it was connected to
\* (mongoc-cluster.c:116, 1808, 1996, 2113, 2455), for any number of slots, hosts
\* and retries.
THEOREM ConnectionsUsableAlways == ClusterSpec => []ConnectionsUsable
<1>1. ClusterInv => ConnectionsUsable
  <2> SUFFICES ASSUME ClusterInv PROVE ConnectionsUsable
    OBVIOUS
  <2>1. cluster \in ClusterType /\ request \in RequestType /\ work \in WorkType
    BY DEF ClusterInv, TypesKept
  <2>2. request.retry \in 0..MaxRetry
    <3>1. 0 \in 0..MaxRetry
      BY Numbers
    <3>2. QED
      BY <2>1, <3>1 DEF RequestType
  <2>3. ClusterTypeOK
    <3>1. cluster.nodes \in [Slot -> NodeType] /\ cluster.health \in Healths
      BY <2>1 DEF ClusterType
    <3>2. answer \in [hint: 0..MaxNodes, refused: BOOLEAN]
      BY DEF ClusterInv, TypesKept
    <3>3. work.i \in 1..(MaxNodes + 1)
      BY <2>1 DEF WorkType
    <3>4. QED
      BY <2>2, <3>1, <3>2, <3>3, Zenon DEF ClusterTypeOK, NodeType, Healths
  <2>4. NeverUnauthenticated /\ HealthyMeansConnected
    BY DEF ClusterInv, Trusted, NoGaps, NeverUnauthenticated, HealthyMeansConnected
  <2>5. QED
    BY <2>3, <2>4 DEF ConnectionsUsable
<1>2. QED
  BY <1>1, ClusterInvariant, PTL
=============================================================================
