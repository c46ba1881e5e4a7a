----------------------------- MODULE MongocCursor -----------------------------
(***************************************************************************)
(* The driver cursor that Monary reads its results from (libmongoc 1.0.0,  *)
(* vendored): mongoc_collection_find and mongoc_collection_aggregate       *)
(* create it, mongoc_cursor_next advances it, mongoc_cursor_destroy ends   *)
(* it.  A call of mongoc_cursor_next is one atomic step: the client is     *)
(* single threaded and blocks in the RPC, so the server and the other      *)
(* writers only act between two calls.  What the RPC brings back is a      *)
(* choice among everything the code has a branch for.                      *)
(*                                                                         *)
(* The server and the other writers are external: they are modelled by     *)
(* what the driver sends them and what it is prepared to receive.          *)
(***************************************************************************)
EXTENDS Documents, Integers, Sequences

CONSTANTS
  HalfWord,   \* 2^31 in the code: uint32_t counters wrap at 2 * HalfWord
  MaxSkip,    \* bound on the skip argument
  MaxDocs,    \* bound on the documents in the collection at the start
  MaxWrites,  \* bound on the inserts and deletes of other clients
  Hosts,      \* the nodes of the cluster
  Primary,    \* the primary of a replica set; the only node of a direct connection
  Deployments \* the clusters to explore, each with the read preference of the client

ASSUME CursorConstants ==
  /\ HalfWord \in Nat \ {0}
  /\ Primary \in Hosts
  /\ Deployments \subseteq
       [mode: {"direct", "replica_set", "sharded_cluster"}, slave_ok: BOOLEAN]
  /\ MaxSkip \in Nat
  /\ MaxDocs \in Nat
  /\ MaxWrites \in Nat

VARIABLES
  cursor,     \* the mongoc_cursor_t and its iface_data
  server,     \* the collection and the server side of the cursor
  handle,     \* is the mongoc_cursor_t allocated?
  returned,   \* history: the documents mongoc_cursor_next returned, in order
  ended       \* history: mongoc_cursor_next has returned false

cursorVars == <<cursor, server, handle, returned, ended>>

Word   == 2 * HalfWord
UInt32 == 0..(Word - 1)
\* The C cast (int32_t) of a uint32_t.
Int32(u) == IF u < HalfWord THEN u ELSE u - Word

Interfaces == {"find", "cursorid", "array"}

\* reader is NULL exactly while ~sent; docs and corrupt are what it still
\* holds: the parsable documents, and whether garbage follows them.
\* first_batch is the batch inside the reply of an aggregate command
\* (first_batch_iter of cursorid, iter of array).
CursorType ==
  [iface: Interfaces, limit: UInt32, skip: 0..MaxSkip, count: UInt32,
   is_command: BOOLEAN, sent: BOOLEAN, done: BOOLEAN, failed: BOOLEAN,
   end_of_event: BOOLEAN, cursor_id: {0, 1}, docs: Seq(Doc),
   corrupt: BOOLEAN, in_first_batch: BOOLEAN, first_batch: Seq(Doc)]

\* coll: what the query matches; pending: what the server cursor has still
\* to send; handed: what reached the client; faulty: the network failed once;
\* host: the node the query went to, which has the server cursor.
ServerType ==
  [coll: Seq(Doc), pending: Seq(Doc), handed: Seq(Doc),
   open: BOOLEAN, faulty: BOOLEAN, writes: 0..MaxWrites,
   cluster: Deployments, host: Hosts]

-----------------------------------------------------------------------------
(* Creation.                                                               *)

\* _mongoc_cursor_new; a query it rejects (mixed dollar keys, bad $explain
\* or $snapshot) gives a cursor that has already failed (MARK_FAILED).
cursor_new(iface, limit, skip, accepted) ==
  [iface |-> iface, limit |-> limit, skip |-> skip, count |-> 0,
   is_command |-> iface # "find", sent |-> ~accepted, done |-> ~accepted,
   failed |-> ~accepted, end_of_event |-> ~accepted, cursor_id |-> 0,
   docs |-> << >>, corrupt |-> FALSE, in_first_batch |-> FALSE,
   first_batch |-> << >>]

mongoc_collection_find(limit, skip, accepted) ==
  cursor_new("find", limit, skip, accepted)

\* The interface depends on the wire version of the server; the limit of an
\* aggregation cursor is reset to 0.
mongoc_collection_aggregate(iface) == cursor_new(iface, 0, 0, TRUE)

-----------------------------------------------------------------------------
(* The server (external).                                                  *)

Drop(s, n) == SubSeq(s, n + 1, Len(s))
Take(s, n) == SubSeq(s, 1, n)
AtMost(a, b) == IF a < b THEN a ELSE b

\* How many of p the server may put in one reply to a request for n
\* documents: n = 0 leaves the batch size to the server, n < 0 asks for at
\* most -n documents in a single batch.  A batch is empty only when nothing
\* is left.
BatchSizes(p, n) ==
  IF p = << >> THEN {0}
  ELSE 1..(IF n < 0 THEN AtMost(-n, Len(p)) ELSE Len(p))

\* After a batch the server cursor stays open unless it is exhausted, which
\* the server may notice only with the next, empty batch.
MayStayOpen(p, n, k) ==
  IF n < 0 \/ p = << >> THEN {FALSE}
  ELSE IF k < Len(p) THEN {TRUE} ELSE BOOLEAN

\* A reply: how many of the documents p it has, whether the server cursor stays
\* open, and whether garbage follows the documents.
ReplyType(p) == [size: 0..Len(p), open: BOOLEAN, corrupt: BOOLEAN]

Replies(p, n) ==
  { r \in ReplyType(p) : /\ r.size \in BatchSizes(p, n)
                         /\ r.open \in MayStayOpen(p, n, r.size) }

\* The batch inside the reply of an aggregate command may be empty although
\* more follows; a server without command cursors returns everything.  Garbage
\* in the only document of such a reply is a failed command.
CommandReplies(p, iface) ==
  { r \in ReplyType(p) : /\ ~r.corrupt
                         /\ r.size < Len(p) => r.open
                         /\ iface = "array" => ~r.open }

\* The server sends reply r taken from the pending documents p.
Served(s, p, r) ==
  [s EXCEPT !.pending = Drop(p, r.size), !.open = r.open,
            !.handed = @ \o Take(p, r.size)]

-----------------------------------------------------------------------------
(* RPCs.  Each operator gives the set of results the call can have.        *)

Rpc(c, s, ok) == [cur |-> c, srv |-> s, ok |-> ok]

Fault(s) == [s EXCEPT !.faulty = TRUE]
Failed(c) == [c EXCEPT !.failed = TRUE, !.done = TRUE]

\* Mutant: a failed warm up is not recorded in the cursor.
WarmUpForgotten(c, s) == Rpc(c, Fault(s), FALSE)

\* _mongoc_client_warm_up returned false.
WarmUpFailed(c, s) == Rpc([c EXCEPT !.failed = TRUE], Fault(s), FALSE)

\* The batch size Monary asks for is 0, so a limit only matters when the
\* remaining count is negative as an int32_t.
n_return(c) ==
  IF c.is_command THEN 1
  ELSE IF c.limit # 0 THEN AtMost(0, Int32((c.limit - c.count) % Word))
  ELSE 0

\* The server answered with an error (QUERY_FAILURE, ok: 0 or
\* CURSOR_NOT_FOUND): it has no cursor and the reply's cursor id is 0.
Refused(c, s) ==
  Rpc([Failed(c) EXCEPT !.cursor_id = 0], [s EXCEPT !.open = FALSE], FALSE)

\* What the query finds on the server.
Found(c, s) == Drop(s.coll, c.skip)

\* Reply r arrives with this batch.  For a command, the reply document is
\* patched into the cursor.
Answered(c, batch, r) ==
  LET started == [c EXCEPT !.done = FALSE, !.end_of_event = FALSE, !.sent = TRUE,
                           !.cursor_id = IF r.open THEN 1 ELSE 0]
  IN  IF c.is_command
      THEN [started EXCEPT !.is_command = (c.iface = "array"),
                           !.in_first_batch = TRUE, !.first_batch = batch]
      ELSE [started EXCEPT !.docs = batch, !.corrupt = r.corrupt]

\* _mongoc_cluster_select without a hint, while every node is connected:
\* whoever may answer, or the primary where one is needed.
select_hosts(cluster, secondary_ok) ==
  CASE cluster.mode = "direct"          -> {Primary}
    [] cluster.mode = "sharded_cluster" -> Hosts
    [] cluster.mode = "replica_set"     -> IF secondary_ok THEN Hosts ELSE {Primary}

\* A find has the read preferences of the client; mongoc_collection_aggregate
\* selects a node without them and gives it to the cursor as its hint.
QueryHosts(c, s) == select_hosts(s.cluster, c.iface = "find" /\ s.cluster.slave_ok)

\* A reply that is lost may leave a server cursor the client never learns of.
Lost(c, s) ==
  [Fault(s) EXCEPT !.pending = Found(c, s), !.open = (c.iface # "array")]

QueryReplies(c, s) ==
  IF c.is_command THEN CommandReplies(Found(c, s), c.iface)
  ELSE Replies(Found(c, s), n_return(c))

\* What can come of a query that is sent to s.host.
query_at_host(c, s) ==
  {WarmUpFailed(c, s), Refused(c, s)}
  \cup { Rpc(Failed(c), t, FALSE) : t \in {Fault(s), Lost(c, s)} }
  \cup { Rpc(Answered(c, Take(Found(c, s), r.size), r),
             Served(s, Found(c, s), r), TRUE) : r \in QueryReplies(c, s) }

AtHost(s, h) == [s EXCEPT !.host = h]

\* _mongoc_cursor_query: the node it goes to has the server cursor from then on.
cursor_query(c, s) == UNION { query_at_host(c, AtHost(s, h)) : h \in QueryHosts(c, s) }

\* Reply r to a GET_MORE arrives.
Continued(c, batch, r) ==
  [c EXCEPT !.end_of_event = FALSE, !.cursor_id = IF r.open THEN 1 ELSE 0,
            !.docs = batch, !.corrupt = r.corrupt]

\* _mongoc_cursor_get_more: cursor_id is not 0 here.  The node that answered the
\* query is the hint (and still the primary, where one is needed).  A server
\* that no longer knows the cursor can only refuse.
cursor_get_more(c, s) ==
  {WarmUpFailed(c, s), Refused(c, s), Rpc(Failed(c), Fault(s), FALSE)}
  \cup { Rpc(Continued(c, Take(s.pending, r.size), r), Served(s, s.pending, r), TRUE) :
         r \in IF s.open THEN Replies(s.pending, n_return(c)) ELSE {} }

-----------------------------------------------------------------------------
(* Advancing the cursor.                                                   *)

Outcome(c, s, b) == [cur |-> c, srv |-> s, doc |-> b]

\* bson_reader_read on the buffered reply.
ReadEof(c) == c.docs = << >> /\ ~c.corrupt

\* From the second bson_reader_read of _mongoc_cursor_next to its end.
read_and_complete(c, s) ==
  IF c.docs # << >>
  THEN Outcome([c EXCEPT !.docs = Tail(@), !.end_of_event = FALSE,
                         !.done = FALSE], s, Head(c.docs))
  ELSE Outcome([c EXCEPT !.end_of_event = ReadEof(c), !.done = ReadEof(c),
                         !.failed = ~ReadEof(c)], s, NoDoc)

\* Mutant: no GET_MORE is ever sent.
RefillOnce(c, s) == IF c.sent THEN {Rpc(c, s, TRUE)} ELSE cursor_query(c, s)

\* The reader is empty: send the query or a GET_MORE if one is due.
refill(c, s) ==
  IF ~c.sent THEN cursor_query(c, s)
  ELSE IF ReadEof(c) /\ c.cursor_id # 0
       THEN cursor_get_more([c EXCEPT !.end_of_event = TRUE], s)
       ELSE {Rpc(c, s, TRUE)}

\* Mutant: one document too many.
LimitPassed(c) == c.limit # 0 /\ c.count > c.limit

\* The limit is the client's business: the server is not told of it.
LimitReached(c) == c.limit # 0 /\ c.count >= c.limit

\* _mongoc_cursor_next.
cursor_next(c, s) ==
  IF c.done \/ c.failed THEN {Outcome(c, s, NoDoc)}
  ELSE IF LimitReached(c)
       THEN {Outcome([c EXCEPT !.done = TRUE], s, NoDoc)}
  ELSE IF c.sent /\ c.docs # << >> THEN {read_and_complete(c, s)}
  ELSE { IF r.ok THEN read_and_complete(r.cur, r.srv)
                 ELSE Outcome(r.cur, r.srv, NoDoc) : r \in refill(c, s) }

\* Mutant: the iterator over the batch is not advanced.
NextWithoutAdvance(c, s) == Outcome(c, s, Head(c.first_batch))

NextInFirstBatch(c, s) ==
  Outcome([c EXCEPT !.first_batch = Tail(@)], s, Head(c.first_batch))

\* The process_first_batch label of _mongoc_cursor_cursorid_next.
process_first_batch(c, s) ==
  IF c.first_batch # << >> THEN {NextInFirstBatch(c, s)}
  ELSE LET over == [c EXCEPT !.in_first_batch = FALSE, !.end_of_event = TRUE]
       IN  IF c.cursor_id = 0
           THEN {Outcome([over EXCEPT !.done = TRUE], s, NoDoc)}
           ELSE cursor_next(over, s)

\* _mongoc_cursor_cursorid_next; has_cursor is false exactly while ~sent.
cursorid_next(c, s) ==
  IF c.in_first_batch THEN process_first_batch(c, s)
  ELSE IF c.sent THEN cursor_next(c, s)
  ELSE UNION { IF r.ok THEN process_first_batch(r.cur, r.srv)
               ELSE {Outcome(r.cur, r.srv, NoDoc)} : r \in cursor_query(c, s) }

\* _mongoc_cursor_array_next: done is never set at the end of the array.
array_next(c, s) ==
  LET Iterate(d, t) == IF d.first_batch = << >> THEN Outcome(d, t, NoDoc)
                       ELSE NextInFirstBatch(d, t)
  IN  IF c.in_first_batch THEN {Iterate(c, s)}
      ELSE { IF r.ok THEN Iterate(r.cur, r.srv)
             ELSE Outcome(r.cur, r.srv, NoDoc) : r \in cursor_query(c, s) }

iface_next(c, s) ==
  CASE c.iface = "find"     -> cursor_next(c, s)
    [] c.iface = "cursorid" -> cursorid_next(c, s)
    [] c.iface = "array"    -> array_next(c, s)

\* The public call counts every attempt, successful or not.
mongoc_cursor_next(c, s) ==
  IF c.failed THEN {Outcome(c, s, NoDoc)}
  ELSE { [o EXCEPT !.cur.count = (@ + 1) % Word] : o \in iface_next(c, s) }

mongoc_cursor_error(c) == c.failed

\* Mutant: the server is not told.
DestroyedLocally(c, s) == {s}

\* KILL_CURSORS reaches host h: another node than the cursor's ignores it.
Killed(s, h) == IF h = s.host THEN [s EXCEPT !.open = FALSE] ELSE s

\* _mongoc_cursor_destroy: KILL_CURSORS is sent with neither the hint nor the
\* read preferences of the cursor, without waiting for an answer, and an error
\* of the send is ignored.
mongoc_cursor_destroy(c, s) ==
  IF c.cursor_id = 0 THEN {s}
  ELSE {Fault(s)} \cup { Killed(s, h) : h \in select_hosts(s.cluster, FALSE) }

-----------------------------------------------------------------------------
(* The component as a state machine.                                       *)

CursorInit ==
  /\ cursor = cursor_new("find", 0, 0, TRUE)
  /\ server \in [coll: UNION { [1..n -> Doc] : n \in 0..MaxDocs },
                 pending: {<< >>}, handed: {<< >>},
                 open: {FALSE}, faulty: {FALSE}, writes: {0},
                 cluster: Deployments, host: {Primary}]
  /\ handle = "unborn"
  /\ returned = << >>
  /\ ended = FALSE

CursorOpen(c) ==
  /\ handle = "unborn"
  /\ cursor' = c
  /\ handle' = "live"
  /\ UNCHANGED <<server, returned, ended>>

\* One call of mongoc_cursor_next that returns b.
CursorAdvance(b) ==
  /\ handle = "live"
  /\ \E o \in mongoc_cursor_next(cursor, server) :
       /\ o.doc = b
       /\ cursor' = o.cur
       /\ server' = o.srv
  /\ returned' = IF b = NoDoc THEN returned ELSE Append(returned, b)
  /\ ended' = (b = NoDoc)
  /\ UNCHANGED handle

CursorDestroy ==
  /\ handle = "live"
  /\ server' \in mongoc_cursor_destroy(cursor, server)
  /\ handle' = "destroyed"
  /\ UNCHANGED <<cursor, returned, ended>>

\* Another client inserts d: an open server cursor may still reach it.
ServerInsert(d) ==
  /\ server.writes < MaxWrites
  /\ server' = [server EXCEPT !.coll = Append(@, d), !.writes = @ + 1,
                  !.pending = IF server.open THEN Append(@, d) ELSE @]
  /\ UNCHANGED <<cursor, handle, returned, ended>>

\* Another client deletes the last document of the collection.
ServerDelete ==
  /\ server.writes < MaxWrites
  /\ server.coll # << >>
  /\ server' = [server EXCEPT !.coll = Take(@, Len(@) - 1), !.writes = @ + 1,
                  !.pending = IF server.open /\ @ # << >>
                              THEN Take(@, Len(@) - 1) ELSE @]
  /\ UNCHANGED <<cursor, handle, returned, ended>>

\* The server drops a cursor that has been idle for too long.
ServerTimeout ==
  /\ server.open
  /\ server' = [server EXCEPT !.open = FALSE]
  /\ UNCHANGED <<cursor, handle, returned, ended>>

Environment ==
  \/ \E d \in Doc : ServerInsert(d)
  \/ ServerDelete
  \/ ServerTimeout

CursorNext ==
  \/ \E limit \in UInt32, skip \in 0..MaxSkip, accepted \in BOOLEAN :
       CursorOpen(mongoc_collection_find(limit, skip, accepted))
  \/ \E iface \in {"cursorid", "array"} :
       CursorOpen(mongoc_collection_aggregate(iface))
  \/ \E b \in Doc \cup {NoDoc} : CursorAdvance(b)
  \/ CursorDestroy
  \/ Environment

CursorSpec == CursorInit /\ [][CursorNext]_cursorVars

CursorTypeOK ==
  /\ cursor \in CursorType
  /\ server \in ServerType
  /\ handle \in {"unborn", "live", "destroyed"}
  /\ returned \in Seq(Doc)
  /\ ended \in BOOLEAN

-----------------------------------------------------------------------------
(* What the cursor promises Monary.                                        *)

\* What a query with this limit and skip selects from the documents docs.
Selected(docs, limit, skip) ==
  LET rest == Drop(docs, skip)
  IN  IF limit = 0 THEN rest ELSE Take(rest, AtMost(limit, Len(rest)))

\* Nothing is lost, repeated or reordered across the batches: what
\* mongoc_cursor_next has returned, followed by what is buffered, is what the
\* server has sent.
NoLossNoReorder ==
  returned \o cursor.first_batch \o cursor.docs = server.handed

\* A limit is enforced by the client although the server is not told of it.
LimitRespected ==
  cursor.limit # 0 => Len(returned) <= cursor.limit

\* A cursor that came to its end without an error, over a collection nobody
\* wrote to, has returned exactly the selected documents, in order.  (From
\* limit = 2^31 on, the limit is sent to the server as a negative number,
\* that is as another limit.)
EndMeansAll ==
  ( /\ ended
    /\ ~mongoc_cursor_error(cursor)
    /\ server.writes = 0
    /\ cursor.limit < HalfWord )
  => returned = Selected(server.coll, cursor.limit, cursor.skip)

\* Can a cursor be on another node than the one a kill goes to?  Not over a
\* direct connection, nor where a replica set is read at its primary.
KillMayMiss(cur, at) ==
  \/ at.cluster.mode = "sharded_cluster"
  \/ at.cluster.mode = "replica_set" /\ at.cluster.slave_ok /\ cur.iface = "find"

\* A destroyed cursor leaves no cursor open on the server, however early it
\* was abandoned, unless the network failed or the kill, which is sent without
\* the hint of the cursor (mongoc-cursor.c:340), went to another node: to the
\* primary for a query a secondary answered, or to another mongos.
ServerCursorReleased ==
  handle = "destroyed" /\ ~server.faulty /\ ~KillMayMiss(cursor, server) => ~server.open

\* Once mongoc_cursor_next has returned false it never returns a document
\* again, although it may be called again and its count goes on (and wraps).
NothingAfterEnd ==
  [][ended => ended' /\ returned' = returned]_cursorVars
=============================================================================
