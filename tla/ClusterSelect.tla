----------------------------- MODULE ClusterSelect -----------------------------
(***************************************************************************)
(* _mongoc_cluster_select: the node of a cluster that gets an RPC, with the *)
(* scores of mongoc-read-prefs.c.  Slots are numbered from 1, as the hints  *)
(* that callers hold are.                                                   *)
(***************************************************************************)
EXTENDS Integers, FiniteSets

CONSTANTS
  MaxNodes,   \* MONGOC_CLUSTER_MAX_NODES
  Latency,    \* sec_latency_ms
  Pings       \* the averages in milliseconds that a run tells apart

ASSUME SelectConstants ==
  /\ MaxNodes \in Nat \ {0}
  /\ Latency \in Nat
  /\ Pings \subseteq Nat

Slot == 1..MaxNodes
Tag == {"east"}
ReadModes == {"primary", "primaryPreferred", "secondary", "secondaryPreferred",
              "nearest"}
NoPrefs == [mode |-> "none", tags |-> {}]
Prefs == {NoPrefs} \cup [mode: ReadModes, tags: SUBSET Tag]

\* The opcodes that select tells apart, and the slaveOk flag of a query.
Rpcs == [op: {"query"}, slaveOk: BOOLEAN]
        \cup [op: {"get_more", "kill_cursors", "insert", "update", "delete"},
              slaveOk: {FALSE}]
IsWrite(rpc) == rpc.op \in {"insert", "update", "delete"}

\* _score_tags.  Nothing ever fills the tags of a node, so that no node has a
\* tag that a read preference asks for.
score_tags(read_tags, node_tags) ==
  IF read_tags = {} THEN 1
  ELSE IF read_tags \cap node_tags # {} THEN Cardinality(read_tags) ELSE -1

INT_MAX == 1000

\* _mongoc_read_prefs_score and its five cases.
score(prefs, node) ==
  CASE prefs.mode = "primary" -> IF node.primary THEN INT_MAX ELSE 0
    [] prefs.mode = "primaryPreferred" ->
         IF node.primary THEN INT_MAX ELSE score_tags(prefs.tags, node.tags)
    [] prefs.mode = "secondary" ->
         IF node.primary THEN -1 ELSE score_tags(prefs.tags, node.tags)
    [] prefs.mode = "secondaryPreferred" ->
         IF node.primary THEN 0 ELSE score_tags(prefs.tags, node.tags)
    [] prefs.mode = "nearest" -> score_tags(prefs.tags, node.tags)

ReadMode(prefs) == IF prefs = NoPrefs THEN "primary" ELSE prefs.mode

\* read_mode & MONGOC_READ_SECONDARY
HasSecondaryBit(m) == m \in {"secondary", "secondaryPreferred", "nearest"}

NeedPrimary(prefs, rpc) ==
  \/ ReadMode(prefs) = "primary"
  \/ IsWrite(rpc)
  \/ rpc.op = "query" /\ ~HasSecondaryBit(ReadMode(prefs)) /\ ~rpc.slaveOk

SelectedNode(i) == [node |-> i, error |-> FALSE]
NotSelected(err) == [node |-> 0, error |-> err]

LeastOf(S) == CHOOSE x \in S : \A y \in S : x <= y

\* if (hint): the caller's node, when it is one of the candidates.
ByHint(nodes, candidates, hint) ==
  {IF hint \in candidates THEN SelectedNode(hint) ELSE NotSelected(TRUE)}

\* IS_NEARER_THAN in the loop over the slots; -1 is an unknown ping.
Nearest(nodes, suitable) ==
  LET nearest[i \in 0..MaxNodes] ==
        IF i = 0 THEN -1
        ELSE IF /\ i \in suitable
                /\ \/ nearest[i - 1] < 0 /\ nodes[i].ping >= 0
                   \/ nodes[i].ping < nearest[i - 1]
             THEN nodes[i].ping ELSE nearest[i - 1]
  IN  nearest[MaxNodes]

\* The nodes within the threshold of the nearest.
Within(nodes, suitable) ==
  LET near == Nearest(nodes, suitable)
  IN  {i \in suitable : near # -1 => nodes[i].ping <= near + Latency}

\* rand() % count with count taken before the threshold was applied: a number
\* that is too large runs past the last node.
AtRandom(nodes, candidates, prefs) ==
  LET suitable == {i \in candidates : prefs = NoPrefs \/ score(prefs, nodes[i]) >= 0}
      near == Within(nodes, suitable)
  IN  IF suitable = {} THEN {NotSelected(TRUE)}
      ELSE {SelectedNode(i) : i \in near}
             \cup (IF near # suitable THEN {NotSelected(FALSE)} ELSE {})

\* Mutant: a hint is looked at before the primary.
SelectHintFirst(mode, nodes, hint, prefs, rpc) ==
  LET connected == {i \in Slot : nodes[i].stream}
  IN  IF hint # 0 THEN ByHint(nodes, connected, hint)
      ELSE AtRandom(nodes, connected, prefs)

\* _mongoc_cluster_select.
select(mode, nodes, hint, prefs, rpc) ==
  LET replica == mode = "replica set"
      primaries == {i \in Slot : nodes[i].primary}
      connected == {i \in Slot : nodes[i].stream}
      candidates == IF replica /\ ReadMode(prefs) = "secondary"
                    THEN connected \ primaries ELSE connected
  IN  IF mode = "direct"
        THEN {IF nodes[1].stream THEN SelectedNode(1) ELSE NotSelected(FALSE)}
      ELSE IF replica /\ NeedPrimary(prefs, rpc)
        THEN {IF primaries = {} THEN NotSelected(TRUE) ELSE SelectedNode(LeastOf(primaries))}
      ELSE IF hint # 0 THEN ByHint(nodes, candidates, hint)
      ELSE AtRandom(nodes, candidates, prefs)
=============================================================================
