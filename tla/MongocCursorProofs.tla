-------------------------- MODULE MongocCursorProofs --------------------------
(* What holds of MongocCursor for every number of documents, every width of *)
(* the counters and every batching of the server.                           *)
EXTENDS MongocCursor, SequenceTheorems, TLAPS

\* Cutting a sequence of documents gives sequences of documents.
LEMMA Parts ==
  ASSUME NEW s \in Seq(Doc), NEW n \in Nat
  PROVE  /\ Drop(s, n) \in Seq(Doc)
         /\ n <= Len(s) => Take(s, n) \in Seq(Doc) /\ Len(Take(s, n)) = n
<1>1. Len(s) \in Nat
  BY LenProperties
<1>2. CASE n <= Len(s)
  <2>1. Drop(s, n) \in Seq(Doc)
    BY <1>1, <1>2, SubSeqProperties DEF Drop
  <2>2. Take(s, n) \in Seq(Doc) /\ Len(Take(s, n)) = n
    BY <1>1, <1>2, SubSeqProperties DEF Take
  <2> QED BY <2>1, <2>2
<1>3. CASE n > Len(s)
  <2>1. Drop(s, n) = << >>
    BY <1>1, <1>3 DEF Drop
  <2> QED BY <1>1, <1>3, <2>1
<1> QED BY <1>1, <1>2, <1>3

\* A reply never has more documents than the server has to send.
LEMMA RepliesType ==
  ASSUME NEW c \in CursorType, NEW s \in ServerType
  PROVE  /\ Found(c, s) \in Seq(Doc)
         /\ QueryReplies(c, s) \subseteq ReplyType(Found(c, s))
         /\ Replies(s.pending, n_return(c)) \subseteq ReplyType(s.pending)
<1>1. s.coll \in Seq(Doc) /\ c.skip \in Nat
  BY CursorConstants DEF ServerType, CursorType
<1>2. Found(c, s) \in Seq(Doc)
  BY <1>1, Parts DEF Found
<1> QED BY <1>2 DEF QueryReplies, Replies, CommandReplies

\* Sending a reply keeps the type of the server.
LEMMA ServedType ==
  ASSUME NEW s \in ServerType, NEW p \in Seq(Doc), NEW r \in ReplyType(p)
  PROVE  /\ Served(s, p, r) \in ServerType
         /\ Take(p, r.size) \in Seq(Doc)
<1>1. r.size \in Nat /\ r.size <= Len(p) /\ r.open \in BOOLEAN
  BY LenProperties DEF ReplyType
<1>2. Take(p, r.size) \in Seq(Doc) /\ Drop(p, r.size) \in Seq(Doc)
  BY <1>1, Parts
<1>3. s.handed \o Take(p, r.size) \in Seq(Doc)
  BY <1>2, ConcatProperties DEF ServerType
<1> QED BY <1>1, <1>2, <1>3 DEF Served, ServerType

\* The results of an RPC.
RpcType == [cur: CursorType, srv: ServerType, ok: BOOLEAN]

\* Recording a failure or a network fault changes flags only.
LEMMA FailureType ==
  ASSUME NEW c \in CursorType, NEW s \in ServerType
  PROVE  /\ Failed(c) \in CursorType
         /\ Fault(s) \in ServerType
         /\ WarmUpFailed(c, s) \in RpcType
         /\ Refused(c, s) \in RpcType
<1>1. Failed(c) \in CursorType /\ [c EXCEPT !.failed = TRUE] \in CursorType
  BY DEF Failed, CursorType
<1>2. Fault(s) \in ServerType /\ [s EXCEPT !.open = FALSE] \in ServerType
  BY DEF Fault, ServerType
<1>3. [Failed(c) EXCEPT !.cursor_id = 0] \in CursorType
  BY <1>1 DEF CursorType
<1> QED
  BY <1>1, <1>2, <1>3 DEF WarmUpFailed, Refused, Rpc, RpcType

\* A reply makes a cursor of the right type.
LEMMA ReplyTaken ==
  ASSUME NEW c \in CursorType, NEW batch \in Seq(Doc), NEW p, NEW r \in ReplyType(p)
  PROVE  Answered(c, batch, r) \in CursorType /\ Continued(c, batch, r) \in CursorType
<1> DEFINE started == [c EXCEPT !.done = FALSE, !.end_of_event = FALSE, !.sent = TRUE,
                                !.cursor_id = IF r.open THEN 1 ELSE 0]
<1>1. started \in CursorType /\ r.corrupt \in BOOLEAN
  BY DEF CursorType, ReplyType
<1>2. Continued(c, batch, r) \in CursorType
  BY <1>1, ZenonT(40) DEF CursorType, Continued
<1> HIDE DEF started
<1>3. /\ [started EXCEPT !.is_command = (c.iface = "array"),
                         !.in_first_batch = TRUE, !.first_batch = batch] \in CursorType
      /\ [started EXCEPT !.docs = batch, !.corrupt = r.corrupt] \in CursorType
  BY <1>1 DEF CursorType
<1> QED BY <1>2, <1>3 DEF Answered, started

\* Sending the query gives a cursor and a server of the right type.
LEMMA HostQueryType ==
  ASSUME NEW c \in CursorType, NEW s \in ServerType
  PROVE  query_at_host(c, s) \subseteq RpcType
<1> DEFINE found == Found(c, s)
<1>1. found \in Seq(Doc) /\ QueryReplies(c, s) \subseteq ReplyType(found)
  BY RepliesType
<1>2. Failed(c) \in CursorType /\ Fault(s) \in ServerType
  BY FailureType
<1>3. Lost(c, s) \in ServerType
  BY <1>1, <1>2 DEF ServerType, Lost
<1> HIDE DEF found
<1>4. ASSUME NEW r \in QueryReplies(c, s)
      PROVE  Rpc(Answered(c, Take(found, r.size), r), Served(s, found, r), TRUE) \in RpcType
  <2>1. Take(found, r.size) \in Seq(Doc) /\ Served(s, found, r) \in ServerType
    BY <1>1, ServedType
  <2>2. Answered(c, Take(found, r.size), r) \in CursorType
    BY <1>1, <2>1, ReplyTaken
  <2> QED BY <2>1, <2>2 DEF Rpc, RpcType
<1>5. \A t \in {Fault(s), Lost(c, s)} : Rpc(Failed(c), t, FALSE) \in RpcType
  BY <1>2, <1>3 DEF Rpc, RpcType
<1> QED BY <1>4, <1>5, FailureType DEF query_at_host, found

\* Who can answer is a node of the cluster, and only the primary where a kill
\* always finds it; sending the query there changes nothing else.
LEMMA WhoAnswers ==
  ASSUME NEW c \in CursorType, NEW s \in ServerType, NEW h \in QueryHosts(c, s)
  PROVE  /\ AtHost(s, h) \in ServerType
         /\ ~KillMayMiss(c, s) => h = Primary
<1>1. h \in Hosts /\ (~KillMayMiss(c, s) => h = Primary)
  BY CursorConstants, Zenon DEF QueryHosts, select_hosts, KillMayMiss, ServerType
<1> QED BY <1>1 DEF AtHost, ServerType

LEMMA OnlyTheHost ==
  ASSUME NEW s \in ServerType, NEW h
  PROVE  /\ AtHost(s, h).coll = s.coll /\ AtHost(s, h).writes = s.writes
         /\ AtHost(s, h).faulty = s.faulty /\ AtHost(s, h).open = s.open
         /\ AtHost(s, h).handed = s.handed /\ AtHost(s, h).pending = s.pending
         /\ AtHost(s, h).cluster = s.cluster /\ AtHost(s, h).host = h
BY DEF AtHost, ServerType

LEMMA QueryType ==
  ASSUME NEW c \in CursorType, NEW s \in ServerType
  PROVE  cursor_query(c, s) \subseteq RpcType
BY WhoAnswers, HostQueryType DEF cursor_query

\* So does a GET_MORE.
LEMMA GetMoreType ==
  ASSUME NEW c \in CursorType, NEW s \in ServerType
  PROVE  cursor_get_more(c, s) \subseteq RpcType
<1>1. s.pending \in Seq(Doc)
  BY DEF ServerType
<1>2. ASSUME NEW r \in Replies(s.pending, n_return(c))
      PROVE  Rpc(Continued(c, Take(s.pending, r.size), r), Served(s, s.pending, r), TRUE)
               \in RpcType
  <2>0. r \in ReplyType(s.pending)
    BY RepliesType
  <2>1. Take(s.pending, r.size) \in Seq(Doc) /\ Served(s, s.pending, r) \in ServerType
    BY <1>1, <2>0, ServedType
  <2>2. Continued(c, Take(s.pending, r.size), r) \in CursorType
    BY <2>0, <2>1, ReplyTaken
  <2> QED BY <2>1, <2>2 DEF Rpc, RpcType
<1>3. Rpc(Failed(c), Fault(s), FALSE) \in RpcType
  BY FailureType DEF Rpc, RpcType
<1> QED BY <1>2, <1>3, FailureType DEF cursor_get_more

\* The outcomes of a call of mongoc_cursor_next.
OutcomeType == [cur: CursorType, srv: ServerType, doc: Doc \cup {NoDoc}]

\* Taking the next document from the buffered reply or from the first batch.
LEMMA TakeNextType ==
  ASSUME NEW c \in CursorType, NEW s \in ServerType
  PROVE  /\ read_and_complete(c, s) \in OutcomeType
         /\ c.first_batch # << >> => NextInFirstBatch(c, s) \in OutcomeType
<1>1. c.docs \in Seq(Doc) /\ c.first_batch \in Seq(Doc)
  BY DEF CursorType
<1>2. ASSUME c.docs # << >> PROVE read_and_complete(c, s) \in OutcomeType
  <2>1. Tail(c.docs) \in Seq(Doc) /\ Head(c.docs) \in Doc
    BY <1>1, <1>2, HeadTailProperties
  <2> DEFINE d == [c EXCEPT !.docs = Tail(@), !.end_of_event = FALSE, !.done = FALSE]
  <2>2. d \in CursorType
    BY <2>1 DEF CursorType
  <2>3. read_and_complete(c, s) = [cur |-> d, srv |-> s, doc |-> Head(c.docs)]
    BY <1>2, Zenon DEF read_and_complete, Outcome
  <2> HIDE DEF d
  <2> QED BY <2>1, <2>2, <2>3 DEF OutcomeType
<1>3. ASSUME c.docs = << >> PROVE read_and_complete(c, s) \in OutcomeType
  <2> DEFINE d == [c EXCEPT !.end_of_event = ReadEof(c), !.done = ReadEof(c),
                           !.failed = ~ReadEof(c)]
  <2>1. d \in CursorType
    BY DEF CursorType, ReadEof
  <2>2. read_and_complete(c, s) = [cur |-> d, srv |-> s, doc |-> NoDoc]
    BY <1>3, Zenon DEF read_and_complete, Outcome
  <2> HIDE DEF d
  <2> QED BY <2>1, <2>2 DEF OutcomeType
<1>4. ASSUME c.first_batch # << >>
      PROVE  NextInFirstBatch(c, s) \in OutcomeType
  <2>1. Tail(c.first_batch) \in Seq(Doc) /\ Head(c.first_batch) \in Doc
    BY <1>1, <1>4, HeadTailProperties
  <2>2. [c EXCEPT !.first_batch = Tail(@)] \in CursorType
    BY <2>1 DEF CursorType
  <2> QED BY <2>1, <2>2 DEF NextInFirstBatch, Outcome, OutcomeType
<1> QED BY <1>2, <1>3, <1>4

\* The outcomes of _mongoc_cursor_next.
LEMMA CursorNextType ==
  ASSUME NEW c \in CursorType, NEW s \in ServerType
  PROVE  cursor_next(c, s) \subseteq OutcomeType
<1>1. [c EXCEPT !.end_of_event = TRUE] \in CursorType
  BY DEF CursorType
<1>2. Rpc(c, s, TRUE) \in RpcType
  BY DEF Rpc, RpcType
<1>3. refill(c, s) \subseteq RpcType
  BY <1>1, <1>2, QueryType, GetMoreType DEF refill
<1>4. Outcome(c, s, NoDoc) \in OutcomeType
  BY DEF Outcome, OutcomeType
<1>5. Outcome([c EXCEPT !.done = TRUE], s, NoDoc) \in OutcomeType
  BY DEF Outcome, OutcomeType, CursorType
<1>6. ASSUME NEW r \in refill(c, s)
      PROVE  (IF r.ok THEN read_and_complete(r.cur, r.srv)
              ELSE Outcome(r.cur, r.srv, NoDoc)) \in OutcomeType
  <2>1. r.cur \in CursorType /\ r.srv \in ServerType
    BY <1>3 DEF RpcType
  <2> QED BY <2>1, TakeNextType DEF Outcome, OutcomeType
<1> QED BY <1>4, <1>5, <1>6, TakeNextType DEF cursor_next

\* The outcomes of the three interfaces.
LEMMA IfaceNextType ==
  ASSUME NEW c \in CursorType, NEW s \in ServerType
  PROVE  iface_next(c, s) \subseteq OutcomeType
<1>1. ASSUME NEW d \in CursorType, NEW t \in ServerType
      PROVE  /\ process_first_batch(d, t) \subseteq OutcomeType
             /\ Outcome(d, t, NoDoc) \in OutcomeType
  <2> DEFINE over == [d EXCEPT !.in_first_batch = FALSE, !.end_of_event = TRUE]
  <2>1. over \in CursorType
    BY DEF CursorType
  <2>2. Outcome(d, t, NoDoc) \in OutcomeType
    BY DEF Outcome, OutcomeType
  <2> HIDE DEF over
  <2>3. Outcome([over EXCEPT !.done = TRUE], t, NoDoc) \in OutcomeType
    BY <2>1 DEF Outcome, OutcomeType, CursorType
  <2> QED BY <2>1, <2>2, <2>3, TakeNextType, CursorNextType DEF process_first_batch, over
<1>2. ASSUME NEW r \in cursor_query(c, s)
      PROVE  r.cur \in CursorType /\ r.srv \in ServerType
  BY QueryType DEF RpcType
<1>3. cursorid_next(c, s) \subseteq OutcomeType
  BY <1>1, <1>2, CursorNextType DEF cursorid_next
<1>4. array_next(c, s) \subseteq OutcomeType
  BY <1>1, <1>2, TakeNextType DEF array_next
<1>5. c.iface \in Interfaces
  BY DEF CursorType
<1> QED BY <1>3, <1>4, <1>5, CursorNextType DEF iface_next, Interfaces

\* Counting the call keeps the width of count.
LEMMA NextType ==
  ASSUME NEW c \in CursorType, NEW s \in ServerType
  PROVE  mongoc_cursor_next(c, s) \subseteq OutcomeType
<1>1. Outcome(c, s, NoDoc) \in OutcomeType
  BY DEF Outcome, OutcomeType
<1>2. ASSUME NEW o \in iface_next(c, s)
      PROVE  [o EXCEPT !.cur.count = (@ + 1) % Word] \in OutcomeType
  <2>1. o \in OutcomeType
    BY IfaceNextType
  <2>2. (o.cur.count + 1) % Word \in UInt32
    BY <2>1, CursorConstants, SMTT(30) DEF OutcomeType, CursorType, UInt32, Word
  <2>3. [o.cur EXCEPT !.count = (@ + 1) % Word] \in CursorType
    BY <2>1, <2>2 DEF OutcomeType, CursorType
  <2> QED BY <2>1, <2>3 DEF OutcomeType
<1> QED BY <1>1, <1>2 DEF mongoc_cursor_next

\* The changes of the collection by other clients.
LEMMA EnvironmentType ==
  ASSUME CursorTypeOK, Environment
  PROVE  server' \in ServerType
<1>1. /\ server.coll \in Seq(Doc) /\ server.pending \in Seq(Doc)
      /\ server.writes \in 0..MaxWrites
  BY DEF CursorTypeOK, ServerType
<1>2. ASSUME NEW d \in Doc, ServerInsert(d)
      PROVE  server' \in ServerType
  <2>1. Append(server.coll, d) \in Seq(Doc) /\ Append(server.pending, d) \in Seq(Doc)
    BY <1>1, AppendProperties
  <2>2. server.writes + 1 \in 0..MaxWrites
    BY <1>1, <1>2, CursorConstants DEF ServerInsert
  <2> QED BY <1>2, <2>1, <2>2 DEF ServerInsert, CursorTypeOK, ServerType
<1>3. ASSUME ServerDelete
      PROVE  server' \in ServerType
  <2>1. ASSUME NEW s \in Seq(Doc), s # << >>
        PROVE  Take(s, Len(s) - 1) \in Seq(Doc)
    <3>1. Len(s) \in Nat \ {0}
      BY <2>1, LenProperties, EmptySeq
    <3> QED BY <3>1, Parts
  <2>2. server.writes + 1 \in 0..MaxWrites
    BY <1>1, <1>3, CursorConstants DEF ServerDelete
  <2>3. Take(server.coll, Len(server.coll) - 1) \in Seq(Doc)
    BY <1>1, <1>3, <2>1 DEF ServerDelete
  <2>4. (IF server.open /\ server.pending # << >>
         THEN Take(server.pending, Len(server.pending) - 1) ELSE server.pending) \in Seq(Doc)
    BY <1>1, <2>1
  <2> QED BY <1>3, <2>2, <2>3, <2>4 DEF ServerDelete, CursorTypeOK, ServerType
<1>4. ASSUME ServerTimeout
      PROVE  server' \in ServerType
  BY <1>4 DEF ServerTimeout, CursorTypeOK, ServerType
<1> QED BY <1>2, <1>3, <1>4 DEF Environment

\* The variables start out with their types.
LEMMA TypeInit == CursorInit => CursorTypeOK
<1> SUFFICES ASSUME CursorInit PROVE CursorTypeOK
  OBVIOUS
<1>1. 0 \in UInt32 /\ 0 \in 0..MaxSkip /\ 0 \in 0..MaxWrites
  BY CursorConstants DEF UInt32, Word
<1>2. << >> \in Seq(Doc)
  BY EmptySeq
<1>3. cursor \in CursorType
  BY <1>1, <1>2 DEF CursorInit, cursor_new, CursorType, Interfaces
<1>4. server \in ServerType
  <2>1. server.coll \in Seq(Doc)
    BY CursorConstants DEF CursorInit
  <2> QED BY <1>1, <1>2, <2>1, CursorConstants DEF CursorInit, ServerType
<1> QED BY <1>2, <1>3, <1>4 DEF CursorInit, CursorTypeOK

\* Every step keeps them.
LEMMA TypeNext == CursorTypeOK /\ [CursorNext]_cursorVars => CursorTypeOK'
<1> SUFFICES ASSUME CursorTypeOK, [CursorNext]_cursorVars PROVE CursorTypeOK'
  OBVIOUS
<1>1. << >> \in Seq(Doc) /\ 0 \in UInt32 /\ 0 \in 0..MaxSkip
  BY EmptySeq, CursorConstants DEF UInt32, Word
<1>2. ASSUME NEW limit \in UInt32, NEW skip \in 0..MaxSkip, NEW accepted \in BOOLEAN,
             CursorOpen(mongoc_collection_find(limit, skip, accepted))
      PROVE  CursorTypeOK'
  BY <1>1, <1>2
     DEF CursorOpen, mongoc_collection_find, cursor_new, CursorTypeOK, CursorType, Interfaces
<1>3. ASSUME NEW iface \in {"cursorid", "array"},
             CursorOpen(mongoc_collection_aggregate(iface))
      PROVE  CursorTypeOK'
  BY <1>1, <1>3
     DEF CursorOpen, mongoc_collection_aggregate, cursor_new, CursorTypeOK, CursorType,
         Interfaces
<1>4. ASSUME NEW b \in Doc \cup {NoDoc}, CursorAdvance(b)
      PROVE  CursorTypeOK'
  <2>1. cursor' \in CursorType /\ server' \in ServerType
    BY <1>4, NextType DEF CursorAdvance, CursorTypeOK, OutcomeType
  <2>2. returned' \in Seq(Doc)
    BY <1>4, AppendProperties DEF CursorAdvance, CursorTypeOK
  <2>3. ended' \in BOOLEAN /\ handle' = handle
    BY <1>4 DEF CursorAdvance
  <2> QED BY <2>1, <2>2, <2>3 DEF CursorTypeOK
<1>5. ASSUME CursorDestroy
      PROVE  CursorTypeOK'
  <2>0. Fault(server) \in ServerType /\ \A h : Killed(server, h) \in ServerType
    BY FailureType DEF Killed, CursorTypeOK, ServerType
  <2>1. server' \in ServerType
    BY <1>5, <2>0 DEF CursorDestroy, mongoc_cursor_destroy, CursorTypeOK
  <2> QED BY <1>5, <2>1 DEF CursorDestroy, CursorTypeOK
<1>6. ASSUME Environment
      PROVE  CursorTypeOK'
  <2>1. UNCHANGED <<cursor, handle, returned, ended>>
    BY <1>6 DEF Environment, ServerInsert, ServerDelete, ServerTimeout
  <2> QED BY <1>6, <2>1, EnvironmentType DEF CursorTypeOK
<1>7. ASSUME UNCHANGED cursorVars
      PROVE  CursorTypeOK'
  BY <1>7 DEF cursorVars, CursorTypeOK
<1> QED BY <1>2, <1>3, <1>4, <1>5, <1>6, <1>7 DEF CursorNext

(***************************************************************************)
(* The cursor's fields keep their types, the counters their width, under   *)
(* every reply, failure and write.                                         *)
(***************************************************************************)
THEOREM CursorTypeCorrect == CursorSpec => []CursorTypeOK
BY TypeInit, TypeNext, PTL DEF CursorSpec

-----------------------------------------------------------------------------
(* What MongocCursor promises of its history, for every number of documents *)
(* and every way to cut them into replies.  NoLossNoReorder: each operator  *)
(* keeps what has been returned and what is buffered in step with what the  *)
(* server has sent.  Then the limit, the end of the cursor and the cursor   *)
(* on the server: each operator keeps what is still to come in step with    *)
(* what the query found.                                                    *)

\* The documents ret and then those buffered in c are those s has sent.
History(ret, c, s) == ret \o c.first_batch \o c.docs = s.handed

\* Where documents can be buffered: a first batch only in the reply of a
\* command, and never together with another batch.
Shape(c) ==
  /\ c.first_batch # << >> => c.in_first_batch
  /\ c.in_first_batch => c.iface # "find" /\ c.docs = << >>
  /\ ~c.sent => c.docs = << >> /\ ~c.in_first_batch
  /\ c.iface = "array" => c.docs = << >> /\ c.is_command
  /\ c.iface = "find" => ~c.is_command
  /\ c.iface = "cursorid" /\ ~c.sent => c.is_command

\* ret after a call that returned b.
Gained(ret, b) == IF b = NoDoc THEN ret ELSE Append(ret, b)

\* Taking the first document of a batch moves it from the buffer to ret.
LEMMA MoveHead ==
  ASSUME NEW ret \in Seq(Doc), NEW s \in Seq(Doc), s # << >>
  PROVE  Append(ret, Head(s)) \o Tail(s) = ret \o s
<1>1. Head(s) \in Doc /\ Tail(s) \in Seq(Doc) /\ <<Head(s)>> \in Seq(Doc)
  BY HeadTailProperties
<1>2. <<Head(s)>> \o Tail(s) = s
  OBVIOUS
<1>3. Append(ret, Head(s)) = ret \o <<Head(s)>>
  BY <1>1, AppendIsConcat
<1>4. (ret \o <<Head(s)>>) \o Tail(s) = ret \o (<<Head(s)>> \o Tail(s))
  BY <1>1, ConcatAssociative
<1> QED BY <1>2, <1>3, <1>4

\* A call that changes neither buffer nor handed keeps the history.
LEMMA SameBuffers ==
  ASSUME NEW ret, NEW c, NEW s, NEW d, NEW t,
         History(ret, c, s), d.first_batch = c.first_batch, d.docs = c.docs,
         t.handed = s.handed
  PROVE  History(ret, d, t)
BY DEF History

\* With nothing buffered, a batch that arrives in either place is what has been
\* sent on top.
LEMMA BatchArrives ==
  ASSUME NEW ret \in Seq(Doc), NEW c \in CursorType, NEW s \in ServerType,
         History(ret, c, s), c.first_batch = << >>, c.docs = << >>,
         NEW batch \in Seq(Doc), NEW d, NEW t, t.handed = s.handed \o batch,
         \/ d.first_batch = batch /\ d.docs = << >>
         \/ d.first_batch = << >> /\ d.docs = batch
  PROVE  History(ret, d, t)
<1>1. ret = s.handed
  BY ConcatEmptySeq DEF History
<1>2. ret \o batch \in Seq(Doc) /\ << >> \in Seq(Doc)
  BY ConcatProperties, EmptySeq
<1>3. (ret \o batch) \o << >> = ret \o batch /\ ret \o << >> = ret
  BY <1>2, ConcatEmptySeq
<1> QED BY <1>1, <1>3 DEF History

\* What a failed RPC leaves alone.
LEMMA FailureKeeps ==
  ASSUME NEW ret, NEW c \in CursorType, NEW s \in ServerType, Shape(c), History(ret, c, s)
  PROVE  /\ \A r \in {WarmUpFailed(c, s), Refused(c, s), Rpc(Failed(c), Fault(s), FALSE)} :
              Shape(r.cur) /\ History(ret, r.cur, r.srv) /\ ~r.ok
         /\ LET r == Rpc(Failed(c), Lost(c, s), FALSE)
            IN  Shape(r.cur) /\ History(ret, r.cur, r.srv) /\ ~r.ok
<1>1. ASSUME NEW d \in {Failed(c), [c EXCEPT !.failed = TRUE],
                        [Failed(c) EXCEPT !.cursor_id = 0]}
      PROVE  Shape(d) /\ d.first_batch = c.first_batch /\ d.docs = c.docs
  BY ZenonT(40) DEF CursorType, Shape, Failed
<1>2. ASSUME NEW t \in {Fault(s), [s EXCEPT !.open = FALSE], Lost(c, s)}
      PROVE  t.handed = s.handed
  BY DEF ServerType, Fault, Lost
<1>3. ASSUME NEW d \in {Failed(c), [c EXCEPT !.failed = TRUE],
                        [Failed(c) EXCEPT !.cursor_id = 0]},
             NEW t \in {Fault(s), [s EXCEPT !.open = FALSE], Lost(c, s)}
      PROVE  LET r == Rpc(d, t, FALSE)
             IN  Shape(r.cur) /\ History(ret, r.cur, r.srv) /\ ~r.ok
  <2>1. Shape(d) /\ History(ret, d, t)
    BY <1>1, <1>2, SameBuffers
  <2> QED BY <2>1 DEF Rpc
<1> QED BY <1>3 DEF WarmUpFailed, Refused

\* A query is sent when nothing is buffered; its reply fills one buffer.
LEMMA HostQueryKeeps ==
  ASSUME NEW ret \in Seq(Doc), NEW c \in CursorType, NEW s \in ServerType,
         Shape(c), History(ret, c, s), c.docs = << >>, ~c.in_first_batch,
         NEW r \in query_at_host(c, s)
  PROVE  /\ Shape(r.cur) /\ History(ret, r.cur, r.srv)
         /\ r.ok => r.cur.sent /\ (r.cur.in_first_batch <=> c.is_command)
         /\ r.ok => r.cur.iface = c.iface
<1>1. CASE \E q \in QueryReplies(c, s) :
             r = Rpc(Answered(c, Take(Found(c, s), q.size), q), Served(s, Found(c, s), q), TRUE)
  <2>1. PICK q \in QueryReplies(c, s) :
          r = Rpc(Answered(c, Take(Found(c, s), q.size), q), Served(s, Found(c, s), q), TRUE)
    BY <1>1
  <2> DEFINE batch == Take(Found(c, s), q.size)
             d == Answered(c, batch, q)
             t == Served(s, Found(c, s), q)
  <2>2. q \in ReplyType(Found(c, s)) /\ Found(c, s) \in Seq(Doc)
    BY RepliesType
  <2>3. batch \in Seq(Doc)
    BY <2>2, ServedType
  <2>4. t.handed = s.handed \o batch
    BY DEF Served, ServerType
  <2>5. c.first_batch = << >>
    BY DEF Shape
  <2>6. r.cur = d /\ r.srv = t
    BY <2>1 DEF Rpc
  <2>7. CASE c.is_command
    <3>1. /\ d.first_batch = batch /\ d.docs = << >> /\ d.in_first_batch /\ d.sent
          /\ d.iface = c.iface /\ (d.is_command <=> c.iface = "array")
      BY <2>7 DEF Answered, CursorType
    <3>2. Shape(d)
      BY <2>7, <3>1 DEF Shape
    <3>3. History(ret, d, t)
      BY <2>3, <2>4, <2>5, <3>1, BatchArrives
    <3> QED BY <2>6, <2>7, <3>1, <3>2, <3>3
  <2>8. CASE ~c.is_command
    <3>1. /\ d.first_batch = << >> /\ d.docs = batch /\ ~d.in_first_batch /\ d.sent
          /\ d.iface = c.iface /\ ~d.is_command
      BY <2>5, <2>8 DEF Answered, CursorType
    <3>2. Shape(d)
      BY <2>8, <3>1 DEF Shape
    <3>3. History(ret, d, t)
      BY <2>3, <2>4, <2>5, <3>1, BatchArrives
    <3> QED BY <2>6, <2>8, <3>1, <3>2, <3>3
  <2> QED BY <2>7, <2>8
<1>2. CASE r \in {WarmUpFailed(c, s), Refused(c, s), Rpc(Failed(c), Fault(s), FALSE),
                   Rpc(Failed(c), Lost(c, s), FALSE)}
  BY <1>2, FailureKeeps
<1> QED BY <1>1, <1>2 DEF query_at_host

LEMMA QueryKeeps ==
  ASSUME NEW ret \in Seq(Doc), NEW c \in CursorType, NEW s \in ServerType,
         Shape(c), History(ret, c, s), c.docs = << >>, ~c.in_first_batch,
         NEW r \in cursor_query(c, s)
  PROVE  /\ Shape(r.cur) /\ History(ret, r.cur, r.srv)
         /\ r.ok => r.cur.sent /\ (r.cur.in_first_batch <=> c.is_command)
         /\ r.ok => r.cur.iface = c.iface
<1>1. PICK h \in QueryHosts(c, s) : r \in query_at_host(c, AtHost(s, h))
  BY DEF cursor_query
<1>2. AtHost(s, h) \in ServerType /\ History(ret, c, AtHost(s, h))
  BY WhoAnswers, OnlyTheHost DEF History
<1> QED BY <1>1, <1>2, HostQueryKeeps

\* So does a GET_MORE.
LEMMA GetMoreKeeps ==
  ASSUME NEW ret \in Seq(Doc), NEW c \in CursorType, NEW s \in ServerType,
         Shape(c), History(ret, c, s), c.docs = << >>, ~c.in_first_batch,
         c.sent, c.iface # "array", NEW r \in cursor_get_more(c, s)
  PROVE  Shape(r.cur) /\ History(ret, r.cur, r.srv) /\ ~r.cur.in_first_batch /\ r.cur.sent
<1>1. CASE \E q \in Replies(s.pending, n_return(c)) :
             r = Rpc(Continued(c, Take(s.pending, q.size), q), Served(s, s.pending, q), TRUE)
  <2>1. PICK q \in Replies(s.pending, n_return(c)) :
          r = Rpc(Continued(c, Take(s.pending, q.size), q), Served(s, s.pending, q), TRUE)
    BY <1>1
  <2> DEFINE batch == Take(s.pending, q.size)
             d == Continued(c, batch, q)
             t == Served(s, s.pending, q)
  <2>2. q \in ReplyType(s.pending) /\ s.pending \in Seq(Doc)
    BY RepliesType DEF ServerType
  <2>3. batch \in Seq(Doc)
    BY <2>2, ServedType
  <2>4. t.handed = s.handed \o batch
    BY DEF Served, ServerType
  <2>5. c.first_batch = << >>
    BY DEF Shape
  <2>6. /\ d.first_batch = << >> /\ d.docs = batch /\ ~d.in_first_batch /\ d.sent
        /\ d.iface = c.iface /\ d.is_command = c.is_command
    BY <2>5 DEF Continued, CursorType
  <2>7. Shape(d)
    BY <2>6 DEF Shape
  <2>8. History(ret, d, t)
    BY <2>3, <2>4, <2>5, <2>6, BatchArrives
  <2> QED BY <2>1, <2>6, <2>7, <2>8 DEF Rpc
<1>2. CASE r \in {WarmUpFailed(c, s), Refused(c, s), Rpc(Failed(c), Fault(s), FALSE)}
  <2> DEFINE D == {Failed(c), [c EXCEPT !.failed = TRUE],
                   [Failed(c) EXCEPT !.cursor_id = 0]}
  <2>1. \A d \in D : ~d.in_first_batch /\ d.sent
    BY DEF Failed, CursorType
  <2>2. r.cur \in D
    BY <1>2 DEF WarmUpFailed, Refused, Rpc
  <2>3. ~r.cur.in_first_batch /\ r.cur.sent
    <3> HIDE DEF D
    <3> QED BY <2>1, <2>2
  <2> QED BY <1>2, <2>3, FailureKeeps
<1> QED BY <1>1, <1>2 DEF cursor_get_more

\* Outcome o of a call made when ret had been returned.
Keeps(ret, o) == Shape(o.cur) /\ History(Gained(ret, o.doc), o.cur, o.srv)

\* Reading the buffered reply: the head of docs is moved, or nothing changes.
LEMMA ReadKeeps ==
  ASSUME NEW ret \in Seq(Doc), NEW c \in CursorType, NEW s \in ServerType,
         Shape(c), History(ret, c, s), ~c.in_first_batch, c.sent
  PROVE  Keeps(ret, read_and_complete(c, s))
<1> DEFINE o == read_and_complete(c, s)
<1>1. c.first_batch = << >> /\ c.docs \in Seq(Doc)
  BY DEF Shape, CursorType
<1>2. CASE c.docs # << >>
  <2>1. o.cur = [c EXCEPT !.docs = Tail(@), !.end_of_event = FALSE, !.done = FALSE]
        /\ o.srv = s /\ o.doc = Head(c.docs)
    BY <1>2 DEF read_and_complete, Outcome
  <2>2. Head(c.docs) \in Doc
    BY <1>1, <1>2, HeadTailProperties
  <2>3. Gained(ret, o.doc) = Append(ret, Head(c.docs))
    BY <2>1, <2>2, NoDocIsNoDocument DEF Gained
  <2> HIDE DEF o
  <2>4. /\ o.cur.first_batch = << >> /\ o.cur.docs = Tail(c.docs)
        /\ o.cur.iface = c.iface /\ ~o.cur.in_first_batch /\ o.cur.sent
        /\ o.cur.is_command = c.is_command
    BY <1>1, <2>1 DEF CursorType
  <2>5. Shape(o.cur)
    BY <1>2, <2>4 DEF Shape
  <2>6. Append(ret, Head(c.docs)) \in Seq(Doc)
    BY <2>2, AppendProperties
  <2>7. History(Append(ret, Head(c.docs)), o.cur, o.srv)
    <3>1. Append(ret, Head(c.docs)) \o << >> = Append(ret, Head(c.docs))
          /\ ret \o << >> = ret
      BY <2>6, ConcatEmptySeq
    <3>2. Append(ret, Head(c.docs)) \o Tail(c.docs) = ret \o c.docs
      BY <1>1, <1>2, MoveHead
    <3> QED BY <1>1, <2>1, <2>4, <3>1, <3>2 DEF History
  <2> QED BY <2>3, <2>5, <2>7 DEF o, Keeps
<1>3. CASE c.docs = << >>
  <2>1. o.cur = [c EXCEPT !.end_of_event = ReadEof(c), !.done = ReadEof(c),
                          !.failed = ~ReadEof(c)]
        /\ o.srv = s /\ o.doc = NoDoc
    BY <1>3 DEF read_and_complete, Outcome
  <2> HIDE DEF o
  <2>2. /\ o.cur.first_batch = c.first_batch /\ o.cur.docs = c.docs
        /\ o.cur.iface = c.iface /\ ~o.cur.in_first_batch /\ o.cur.sent
        /\ o.cur.is_command = c.is_command
    BY <2>1 DEF CursorType
  <2>3. Shape(o.cur)
    BY <2>2 DEF Shape
  <2>4. History(ret, o.cur, o.srv)
    BY <2>1, <2>2, SameBuffers
  <2> QED BY <2>1, <2>3, <2>4 DEF Gained, o, Keeps
<1> QED BY <1>2, <1>3

\* Moving the head of the first batch.
LEMMA FirstBatchKeeps ==
  ASSUME NEW ret \in Seq(Doc), NEW c \in CursorType, NEW s \in ServerType,
         Shape(c), History(ret, c, s), c.first_batch # << >>
  PROVE  Keeps(ret, NextInFirstBatch(c, s))
<1> DEFINE o == NextInFirstBatch(c, s)
<1>1. c.docs = << >> /\ c.first_batch \in Seq(Doc) /\ c.in_first_batch
  BY DEF Shape, CursorType
<1>2. o.cur = [c EXCEPT !.first_batch = Tail(@)] /\ o.srv = s /\ o.doc = Head(c.first_batch)
  BY DEF NextInFirstBatch, Outcome
<1>3. Head(c.first_batch) \in Doc
  BY <1>1, HeadTailProperties
<1>4. Gained(ret, o.doc) = Append(ret, Head(c.first_batch))
  BY <1>2, <1>3, NoDocIsNoDocument DEF Gained
<1> HIDE DEF o
<1>5. /\ o.cur.first_batch = Tail(c.first_batch) /\ o.cur.docs = << >>
      /\ o.cur.iface = c.iface /\ o.cur.in_first_batch
      /\ o.cur.is_command = c.is_command /\ o.cur.sent = c.sent
  BY <1>1, <1>2 DEF CursorType
<1>6. Shape(o.cur)
  BY <1>1, <1>5 DEF Shape
<1>7. Append(ret, Head(c.first_batch)) \o Tail(c.first_batch) = ret \o c.first_batch
  BY <1>1, MoveHead
<1>8. History(Append(ret, Head(c.first_batch)), o.cur, o.srv)
  BY <1>1, <1>2, <1>5, <1>7 DEF History
<1> QED BY <1>4, <1>6, <1>8 DEF o, Keeps

\* A call that returns no document and touches no buffer keeps the history.
LEMMA NothingKeeps ==
  ASSUME NEW ret, NEW c, NEW s, Shape(c), History(ret, c, s)
  PROVE  Keeps(ret, Outcome(c, s, NoDoc))
BY DEF Keeps, Outcome, Gained

\* _mongoc_cursor_next, outside the first batch.
LEMMA CursorNextKeeps ==
  ASSUME NEW ret \in Seq(Doc), NEW c \in CursorType, NEW s \in ServerType,
         Shape(c), History(ret, c, s), ~c.in_first_batch, c.iface # "array",
         ~c.sent => c.iface = "find", NEW o \in cursor_next(c, s)
  PROVE  Keeps(ret, o)
<1> DEFINE waiting == [c EXCEPT !.end_of_event = TRUE]
           limited == [c EXCEPT !.done = TRUE]
<1>1. Shape(limited) /\ History(ret, limited, s)
  <2>1. /\ limited.first_batch = c.first_batch /\ limited.docs = c.docs
        /\ limited.iface = c.iface /\ limited.in_first_batch = c.in_first_batch
        /\ limited.sent = c.sent /\ limited.is_command = c.is_command
    BY DEF CursorType
  <2> HIDE DEF limited
  <2> QED BY <2>1, SameBuffers DEF Shape
<1>2. /\ waiting \in CursorType /\ Shape(waiting) /\ History(ret, waiting, s)
      /\ waiting.docs = c.docs /\ waiting.sent = c.sent /\ waiting.iface = c.iface
      /\ ~waiting.in_first_batch
  <2>1. /\ waiting.first_batch = c.first_batch /\ waiting.docs = c.docs
        /\ waiting.iface = c.iface /\ waiting.in_first_batch = c.in_first_batch
        /\ waiting.sent = c.sent /\ waiting.is_command = c.is_command
        /\ waiting \in CursorType
    BY DEF CursorType
  <2> HIDE DEF waiting
  <2> QED BY <2>1, SameBuffers DEF Shape
<1>3. ASSUME c.docs = << >>, NEW r \in refill(c, s)
      PROVE  Keeps(ret, IF r.ok THEN read_and_complete(r.cur, r.srv)
                        ELSE Outcome(r.cur, r.srv, NoDoc))
  <2> DEFINE Ready == /\ r.cur \in CursorType /\ r.srv \in ServerType
                      /\ Shape(r.cur) /\ History(ret, r.cur, r.srv)
                      /\ r.ok => r.cur.sent /\ ~r.cur.in_first_batch
  <2>1. ASSUME ~c.sent PROVE Ready
    <3>1. r \in cursor_query(c, s)
      BY <1>3, <2>1 DEF refill
    <3>2. ~c.is_command
      BY <2>1 DEF Shape
    <3>3. r.cur \in CursorType /\ r.srv \in ServerType
      BY <3>1, QueryType DEF RpcType
    <3> QED BY <1>3, <3>1, <3>2, <3>3, QueryKeeps
  <2>2. ASSUME c.sent, r \in cursor_get_more(waiting, s) PROVE Ready
    <3>1. r.cur \in CursorType /\ r.srv \in ServerType
      BY <1>2, <2>2, GetMoreType DEF RpcType
    <3> HIDE DEF waiting
    <3>2. Shape(r.cur) /\ History(ret, r.cur, r.srv) /\ ~r.cur.in_first_batch /\ r.cur.sent
      BY <1>2, <1>3, <2>2, GetMoreKeeps
    <3> QED BY <3>1, <3>2
  <2>3. ASSUME c.sent, r = Rpc(c, s, TRUE) PROVE Ready
    BY <2>3 DEF Rpc
  <2>4. Ready
    BY <1>3, <2>1, <2>2, <2>3 DEF refill
  <2> QED BY <2>4, ReadKeeps, NothingKeeps
<1>4. CASE c.done \/ c.failed
  BY <1>4, NothingKeeps DEF cursor_next
<1>5. CASE ~(c.done \/ c.failed) /\ LimitReached(c)
  BY <1>1, <1>5, NothingKeeps DEF cursor_next
<1>6. CASE ~(c.done \/ c.failed) /\ ~LimitReached(c)
  <2>1. CASE c.sent /\ c.docs # << >>
    BY <1>6, <2>1, ReadKeeps DEF cursor_next
  <2>2. CASE ~(c.sent /\ c.docs # << >>)
    <3>1. c.docs = << >>
      BY <2>2 DEF Shape
    <3>2. o \in { IF r.ok THEN read_and_complete(r.cur, r.srv)
                  ELSE Outcome(r.cur, r.srv, NoDoc) : r \in refill(c, s) }
      BY <1>6, <2>2 DEF cursor_next
    <3> QED BY <1>3, <3>1, <3>2
  <2> QED BY <2>1, <2>2
<1> QED BY <1>4, <1>5, <1>6

\* The first batch of an aggregation, and what follows it.
LEMMA ProcessFirstBatchKeeps ==
  ASSUME NEW ret \in Seq(Doc), NEW c \in CursorType, NEW s \in ServerType,
         Shape(c), History(ret, c, s), c.in_first_batch, c.sent, c.iface = "cursorid",
         NEW o \in process_first_batch(c, s)
  PROVE  Keeps(ret, o)
<1> DEFINE over == [c EXCEPT !.in_first_batch = FALSE, !.end_of_event = TRUE]
           last == [over EXCEPT !.done = TRUE]
<1>1. CASE c.first_batch # << >>
  BY <1>1, FirstBatchKeeps DEF process_first_batch
<1>2. CASE c.first_batch = << >>
  <2>1. ASSUME NEW d \in {over, last}
        PROVE  /\ d \in CursorType /\ d.first_batch = c.first_batch /\ d.docs = c.docs
               /\ d.iface = c.iface /\ ~d.in_first_batch /\ d.sent
               /\ d.is_command = c.is_command
    BY ZenonT(40) DEF CursorType
  <2> HIDE DEF over, last
  <2>2. ASSUME NEW d \in {over, last} PROVE Shape(d) /\ History(ret, d, s)
    BY <1>2, <2>1, SameBuffers DEF Shape
  <2>3. o = Outcome(last, s, NoDoc) \/ o \in cursor_next(over, s)
    BY <1>2 DEF process_first_batch, over, last
  <2>4. CASE o = Outcome(last, s, NoDoc)
    BY <2>2, <2>4, NothingKeeps
  <2>5. CASE o \in cursor_next(over, s)
    BY <2>1, <2>2, <2>5, CursorNextKeeps
  <2> QED BY <2>3, <2>4, <2>5
<1> QED BY <1>1, <1>2

\* The three interfaces.
LEMMA IfaceNextKeeps ==
  ASSUME NEW ret \in Seq(Doc), NEW c \in CursorType, NEW s \in ServerType,
         Shape(c), History(ret, c, s), NEW o \in iface_next(c, s)
  PROVE  Keeps(ret, o)
<1>1. c.iface \in {"find", "cursorid", "array"}
  BY DEF CursorType, Interfaces
<1>2. CASE c.iface = "find"
  <2>1. ~c.in_first_batch
    BY <1>2 DEF Shape
  <2>2. o \in cursor_next(c, s)
    BY <1>2 DEF iface_next
  <2> QED BY <1>2, <2>1, <2>2, CursorNextKeeps
<1>3. ASSUME ~c.in_first_batch, c.iface # "find", ~c.sent \/ c.iface = "array",
             NEW r \in cursor_query(c, s)
      PROVE  /\ r.cur \in CursorType /\ r.srv \in ServerType
             /\ Shape(r.cur) /\ History(ret, r.cur, r.srv)
             /\ r.ok => r.cur.sent /\ r.cur.in_first_batch /\ r.cur.iface = c.iface
  <2>1. c.docs = << >> /\ c.is_command
    BY <1>1, <1>3 DEF Shape
  <2>2. r.cur \in CursorType /\ r.srv \in ServerType
    BY <1>3, QueryType DEF RpcType
  <2> QED BY <1>3, <2>1, <2>2, QueryKeeps
<1>4. CASE c.iface = "cursorid"
  <2>1. o \in cursorid_next(c, s)
    BY <1>4 DEF iface_next
  <2>2. CASE c.in_first_batch
    <3>1. c.sent
      BY <2>2 DEF Shape
    <3> QED BY <1>4, <2>1, <2>2, <3>1, ProcessFirstBatchKeeps DEF cursorid_next
  <2>3. CASE ~c.in_first_batch /\ c.sent
    BY <1>4, <2>1, <2>3, CursorNextKeeps DEF cursorid_next
  <2>4. CASE ~c.in_first_batch /\ ~c.sent
    <3>1. PICK r \in cursor_query(c, s) :
            o \in IF r.ok THEN process_first_batch(r.cur, r.srv)
                  ELSE {Outcome(r.cur, r.srv, NoDoc)}
      BY <2>1, <2>4 DEF cursorid_next
    <3>2. /\ r.cur \in CursorType /\ r.srv \in ServerType
          /\ Shape(r.cur) /\ History(ret, r.cur, r.srv)
          /\ r.ok => r.cur.sent /\ r.cur.in_first_batch /\ r.cur.iface = "cursorid"
      BY <1>3, <1>4, <2>4
    <3>3. CASE r.ok
      BY <3>1, <3>2, <3>3, ProcessFirstBatchKeeps
    <3>4. CASE ~r.ok
      BY <3>1, <3>2, <3>4, NothingKeeps
    <3> QED BY <3>3, <3>4
  <2> QED BY <2>2, <2>3, <2>4
<1>5. CASE c.iface = "array"
  <2>1. o \in array_next(c, s)
    BY <1>5 DEF iface_next
  <2>2. ASSUME NEW d \in CursorType, NEW t \in ServerType, Shape(d), History(ret, d, t),
               \/ d.first_batch = << >> /\ o = Outcome(d, t, NoDoc)
               \/ d.first_batch # << >> /\ o = NextInFirstBatch(d, t)
        PROVE  Keeps(ret, o)
    BY <2>2, FirstBatchKeeps, NothingKeeps
  <2>3. CASE c.in_first_batch
    BY <2>1, <2>2, <2>3 DEF array_next
  <2>4. CASE ~c.in_first_batch
    <3>1. PICK r \in cursor_query(c, s) :
            o = IF r.ok /\ r.cur.first_batch # << >> THEN NextInFirstBatch(r.cur, r.srv)
                ELSE Outcome(r.cur, r.srv, NoDoc)
      BY <2>1, <2>4 DEF array_next
    <3>2. /\ r.cur \in CursorType /\ r.srv \in ServerType
          /\ Shape(r.cur) /\ History(ret, r.cur, r.srv)
      BY <1>3, <1>5, <2>4
    <3> QED BY <3>1, <3>2, FirstBatchKeeps, NothingKeeps
  <2> QED BY <2>3, <2>4
<1> QED BY <1>1, <1>2, <1>4, <1>5

\* The public call: counting the attempt touches no buffer.
LEMMA NextKeeps ==
  ASSUME NEW ret \in Seq(Doc), NEW c \in CursorType, NEW s \in ServerType,
         Shape(c), History(ret, c, s), NEW o \in mongoc_cursor_next(c, s)
  PROVE  Keeps(ret, o)
<1>1. CASE c.failed
  BY <1>1, NothingKeeps DEF mongoc_cursor_next
<1>2. CASE ~c.failed
  <2>1. PICK q \in iface_next(c, s) : o = [q EXCEPT !.cur.count = (@ + 1) % Word]
    BY <1>2 DEF mongoc_cursor_next
  <2>2. Keeps(ret, q) /\ q \in OutcomeType
    BY IfaceNextKeeps, IfaceNextType
  <2>3. /\ o.doc = q.doc /\ o.srv = q.srv
        /\ o.cur.first_batch = q.cur.first_batch /\ o.cur.docs = q.cur.docs
        /\ o.cur.iface = q.cur.iface /\ o.cur.in_first_batch = q.cur.in_first_batch
        /\ o.cur.sent = q.cur.sent /\ o.cur.is_command = q.cur.is_command
    BY <2>1, <2>2 DEF OutcomeType, CursorType
  <2> QED BY <2>2, <2>3 DEF Keeps, Shape, History
<1> QED BY <1>1, <1>2

-----------------------------------------------------------------------------
\* The inductive invariant: the history, where documents may be buffered, and
\* nothing buffered or sent before the cursor is opened.
HistoryInv ==
  /\ CursorTypeOK
  /\ Shape(cursor)
  /\ History(returned, cursor, server)
  /\ handle = "unborn" => returned = << >> /\ server.handed = << >>

\* A new cursor has empty buffers.
LEMMA NewShape ==
  ASSUME NEW iface \in Interfaces, NEW limit, NEW skip, NEW accepted \in BOOLEAN,
         iface # "find" => accepted
  PROVE  LET c == cursor_new(iface, limit, skip, accepted)
         IN  Shape(c) /\ c.first_batch = << >> /\ c.docs = << >>
BY DEF cursor_new, Shape, Interfaces

\* Nothing is returned, buffered or sent at first.
LEMMA HistoryInit == CursorInit => HistoryInv
<1> SUFFICES ASSUME CursorInit PROVE HistoryInv
  OBVIOUS
<1>1. CursorTypeOK
  BY TypeInit
<1>2. Shape(cursor) /\ cursor.first_batch = << >> /\ cursor.docs = << >>
  BY NewShape DEF CursorInit, Interfaces
<1>3. returned = << >> /\ server.handed = << >>
  BY DEF CursorInit
<1>4. History(returned, cursor, server)
  BY <1>2, <1>3, EmptySeq, ConcatEmptySeq DEF History
<1> QED BY <1>1, <1>2, <1>3, <1>4 DEF HistoryInv

\* Every step keeps the invariant: only CursorAdvance touches the buffers.
LEMMA HistoryNext == HistoryInv /\ [CursorNext]_cursorVars => HistoryInv'
<1> SUFFICES ASSUME HistoryInv, [CursorNext]_cursorVars PROVE HistoryInv'
  OBVIOUS
<1>0. CursorTypeOK'
  BY TypeNext DEF HistoryInv
<1>1. ASSUME NEW c, Shape(c), c.first_batch = << >>, c.docs = << >>, CursorOpen(c)
      PROVE  HistoryInv'
  <2>1. handle' = "live" /\ cursor' = c /\ returned' = << >> /\ server'.handed = << >>
    BY <1>1 DEF CursorOpen, HistoryInv
  <2>2. History(returned, cursor, server)'
    BY <1>1, <2>1, EmptySeq, ConcatEmptySeq DEF History
  <2>3. Shape(cursor)'
    BY <1>1, <2>1 DEF Shape
  <2> QED BY <1>0, <2>1, <2>2, <2>3 DEF HistoryInv
<1>2. ASSUME NEW limit \in UInt32, NEW skip \in 0..MaxSkip, NEW accepted \in BOOLEAN,
             CursorOpen(mongoc_collection_find(limit, skip, accepted))
      PROVE  HistoryInv'
  BY <1>1, <1>2, NewShape DEF mongoc_collection_find, Interfaces
<1>3. ASSUME NEW iface \in {"cursorid", "array"},
             CursorOpen(mongoc_collection_aggregate(iface))
      PROVE  HistoryInv'
  BY <1>1, <1>3, NewShape DEF mongoc_collection_aggregate, Interfaces
<1>4. ASSUME NEW b \in Doc \cup {NoDoc}, CursorAdvance(b)
      PROVE  HistoryInv'
  <2>1. PICK o \in mongoc_cursor_next(cursor, server) :
          o.doc = b /\ cursor' = o.cur /\ server' = o.srv
    BY <1>4 DEF CursorAdvance
  <2>2. Keeps(returned, o)
    BY NextKeeps DEF HistoryInv, CursorTypeOK
  <2>3. returned' = Gained(returned, o.doc) /\ handle' = "live"
    BY <1>4, <2>1 DEF CursorAdvance, Gained
  <2> QED BY <1>0, <2>1, <2>2, <2>3 DEF Keeps, HistoryInv, Shape, History
<1>5. ASSUME server'.handed = server.handed,
             UNCHANGED <<cursor, returned>>, handle' # "unborn" \/ UNCHANGED handle
      PROVE  HistoryInv'
  BY <1>0, <1>5 DEF HistoryInv, Shape, History
<1>6. ASSUME CursorDestroy
      PROVE  HistoryInv'
  <2>1. server'.handed = server.handed
    BY <1>6
       DEF CursorDestroy, mongoc_cursor_destroy, Killed, Fault, HistoryInv, CursorTypeOK, ServerType
  <2> QED BY <1>5, <1>6, <2>1 DEF CursorDestroy
<1>7. ASSUME Environment
      PROVE  HistoryInv'
  <2>1. UNCHANGED <<cursor, handle, returned>>
    BY <1>7 DEF Environment, ServerInsert, ServerDelete, ServerTimeout
  <2>2. server'.handed = server.handed
    BY <1>7 DEF Environment, ServerInsert, ServerDelete, ServerTimeout, HistoryInv,
                CursorTypeOK, ServerType
  <2> QED BY <1>5, <2>1, <2>2
<1>8. ASSUME UNCHANGED cursorVars
      PROVE  HistoryInv'
  BY <1>5, <1>8 DEF cursorVars
<1> QED BY <1>2, <1>3, <1>4, <1>6, <1>7, <1>8 DEF CursorNext

(***************************************************************************)
(* However the server cuts the documents into replies, whatever fails and  *)
(* whoever writes meanwhile, the documents mongoc_cursor_next returned and *)
(* those still buffered are those the server sent, in the order it sent    *)
(* them: none is dropped, repeated or moved where the first batch of an    *)
(* aggregation gives way to GET_MORE.                                      *)
(***************************************************************************)
THEOREM NoLossNoReorderHolds == CursorSpec => []NoLossNoReorder
<1>1. HistoryInv => NoLossNoReorder
  BY DEF HistoryInv, History, NoLossNoReorder
<1> QED BY <1>1, HistoryInit, HistoryNext, PTL DEF CursorSpec

-----------------------------------------------------------------------------
(* The limit, the end and the cursor on the server.                        *)

\* No further call returns a document.
Over(c) ==
  \/ c.failed
  \/ c.iface # "array" /\ c.done
  \/ c.iface = "array" /\ c.in_first_batch /\ c.first_batch = << >>

\* Only a find has a limit, and an aggregation is done only once it has left
\* its first batch; the array interface never leaves it, and has no cursor on
\* the server.
Stage(c) ==
  /\ c.limit # 0 => c.iface = "find"
  /\ c.iface # "find" /\ c.done /\ ~c.failed => c.sent /\ ~c.in_first_batch
  /\ c.iface = "array" /\ c.sent /\ ~c.failed => c.in_first_batch
  /\ c.iface = "array" => c.cursor_id = 0

\* The client has the id of the cursor that is open on the server.
Known(c, s) == s.open /\ ~s.faulty => c.cursor_id # 0

\* What was sent and what is still to be sent is what the query found; without
\* a cursor id nothing is still to be sent.
Rest(c, s) ==
  s.writes = 0 /\ ~c.failed /\ c.limit < HalfWord /\ c.sent =>
    /\ s.handed \o s.pending = Found(c, s)
    /\ c.cursor_id = 0 => s.pending = << >>

\* Nothing is sent before the query.
Unsent(c, s) == ~c.sent => s.handed = << >>

\* Where a kill always finds the primary the cursor is there.
Near(c, s) == ~KillMayMiss(c, s) => s.host = Primary

Sound(c, s) == Stage(c) /\ Known(c, s) /\ Rest(c, s) /\ Unsent(c, s) /\ Near(c, s)

\* What no call changes before it counts itself.
Fixed(c, s, d, t) ==
  /\ d.limit = c.limit /\ d.skip = c.skip /\ d.iface = c.iface /\ d.count = c.count
  /\ t.coll = s.coll /\ t.writes = s.writes

\* The limit leaves room for another document.
Room(c) == c.limit # 0 => c.count < c.limit

\* Everything the server had was taken from the buffers.
Drained(c) == c.sent /\ c.cursor_id = 0 /\ c.first_batch = << >> /\ c.docs = << >>

\* The elements of a part of a sequence, and those of the second of two.
LEMMA ElementOfPart ==
  ASSUME NEW s, NEW m \in Int, NEW n \in Int, \A i \in m..n : s[i] \in Doc,
         NEW j \in 1..(n - m + 1)
  PROVE  SubSeq(s, m, n)[j] = s[m + j - 1]
BY SubSeqProperties

\* An element behind the end of the first sequence is one of the second.
LEMMA ElementBehind ==
  ASSUME NEW s \in Seq(Doc), NEW t \in Seq(Doc), NEW i \in Nat, NEW k \in Nat, NEW l \in Nat,
         Len(s) = k, Len(t) = l, k + 1 <= i, i <= k + l
  PROVE  (s \o t)[i] = t[i - k]
<1>1. i \in 1..(Len(s) + Len(t)) /\ ~ (i <= Len(s))
  OBVIOUS
<1>2. \A j \in 1..(Len(s) + Len(t)) : (s \o t)[j] = IF j <= Len(s) THEN s[j] ELSE t[j - Len(s)]
  BY ConcatProperties, Zenon
<1>3. (s \o t)[i] = t[i - Len(s)]
  BY <1>1, <1>2, Zenon
<1>4. QED
  BY <1>3, Zenon

\* A batch and what remains make up the whole.
LEMMA TakeDrop ==
  ASSUME NEW p \in Seq(Doc), NEW k \in 0..Len(p)
  PROVE  /\ Take(p, k) \o Drop(p, k) = p
         /\ k = Len(p) => Drop(p, k) = << >> /\ Take(p, k) = p
<1>1. Len(p) \in Nat /\ k \in Nat /\ k <= Len(p)
  BY LenProperties
<1>2. Take(p, k) \in Seq(Doc) /\ Len(Take(p, k)) = k /\ Drop(p, k) \in Seq(Doc)
  BY <1>1, Parts
<1>3. Len(Drop(p, k)) = Len(p) - k
  BY <1>1 DEF Drop
<1>4. Len(Take(p, k) \o Drop(p, k)) = Len(p) /\ Take(p, k) \o Drop(p, k) \in Seq(Doc)
  BY <1>1, <1>2, <1>3, ConcatProperties
<1>5. ASSUME NEW i \in 1..Len(p) PROVE (Take(p, k) \o Drop(p, k))[i] = p[i]
  <2>1. CASE i <= k
    <3>1. Take(p, k)[i] = p[i]
      BY <1>1, <2>1 DEF Take
    <3>2. (Take(p, k) \o Drop(p, k))[i] = Take(p, k)[i]
      BY <1>1, <1>2, <2>1, ConcatProperties
    <3> QED BY <3>1, <3>2
  <2>2. CASE i > k
    <3>1. Drop(p, k)[i - k] = p[i]
      <4>1. i - k \in 1..(Len(p) - (k + 1) + 1) /\ (k + 1) + (i - k) - 1 = i
        BY <1>1, <2>2
      <4>2. k + 1 \in Int /\ Len(p) \in Int /\ \A j \in (k + 1)..Len(p) : p[j] \in Doc
        BY <1>1
      <4>3. SubSeq(p, k + 1, Len(p))[i - k] = p[(k + 1) + (i - k) - 1]
        BY <4>1, <4>2, ElementOfPart
      <4> QED BY <4>1, <4>3, Zenon DEF Drop
    <3>2. (Take(p, k) \o Drop(p, k))[i] = Drop(p, k)[i - k]
      <4>1. k + 1 <= i /\ i <= k + (Len(p) - k)
        BY <1>1, <2>2
      <4> QED BY <1>1, <1>2, <1>3, <4>1, ElementBehind
    <3> QED BY <3>1, <3>2
  <2>3. i <= k \/ i > k
    BY <1>1
  <2> QED BY <2>1, <2>2, <2>3, Zenon
<1>6. Take(p, k) \o Drop(p, k) = p
  BY <1>4, <1>5, SeqEqual
<1>7. ASSUME k = Len(p) PROVE Drop(p, k) = << >>
  BY <1>1, <1>2, <1>3, <1>7, EmptySeq
<1>8. ASSUME k = Len(p) PROVE Take(p, k) = p
  BY <1>2, <1>6, <1>7, <1>8, ConcatEmptySeq
<1> QED BY <1>6, <1>7, <1>8

\* With room left, the number sent to the server is no limit.
LEMMA RoomIsNoLimit ==
  ASSUME NEW c \in CursorType, Room(c), c.limit < HalfWord
  PROVE  n_return(c) \in Nat
<1>1. c.limit \in Nat /\ c.count \in Nat /\ HalfWord \in Nat \ {0}
  BY CursorConstants DEF CursorType, UInt32, Word
<1>2. CASE c.limit # 0
  <2>1. c.limit - c.count \in 0..(HalfWord - 1)
    BY <1>1, <1>2 DEF Room
  <2>2. (c.limit - c.count) % Word = c.limit - c.count
    BY <1>1, <2>1 DEF Word
  <2> QED BY <1>1, <1>2, <2>1, <2>2 DEF n_return, AtMost, Int32
<1>3. CASE c.limit = 0
  BY <1>3 DEF n_return
<1> QED BY <1>2, <1>3

\* A reply without documents closes the server cursor, and so does, unless a
\* single batch was asked for, only a reply with all that is left.
LEMMA LastReply ==
  ASSUME NEW p \in Seq(Doc), NEW n \in Int, NEW r \in Replies(p, n)
  PROVE  /\ r \in ReplyType(p)
         /\ r.size = 0 => ~r.open
         /\ n >= 0 /\ ~r.open => r.size = Len(p)
<1>1. /\ r \in ReplyType(p) /\ r.size \in BatchSizes(p, n) /\ r.open \in MayStayOpen(p, n, r.size)
      /\ r.size \in 0..Len(p) /\ r.open \in BOOLEAN
  BY DEF Replies, ReplyType
<1>2. CASE p = << >>
  <2>1. r.size = 0 /\ Len(p) = 0
    BY <1>1, <1>2, EmptySeq DEF BatchSizes
  <2>2. ~r.open
    BY <1>1, <1>2 DEF MayStayOpen
  <2> QED BY <1>1, <2>1, <2>2
<1>3. CASE p # << >>
  <2>1. r.size # 0
    BY <1>1, <1>3 DEF BatchSizes
  <2>2. ASSUME n >= 0, r.size < Len(p) PROVE r.open
    <3>1. ~(n < 0 \/ p = << >>)
      BY <1>3, <2>2
    <3>2. MayStayOpen(p, n, r.size) = {TRUE}
      BY <2>2, <3>1, Zenon DEF MayStayOpen
    <3> QED BY <1>1, <3>2, Zenon
  <2> QED BY <1>1, <2>1, <2>2, LenProperties
<1> QED BY <1>2, <1>3

\* The two ends of an RPC: what every result r of one, made from c and s, keeps.
Fetched(c, s, r) ==
  /\ Fixed(c, s, r.cur, r.srv)
  /\ Sound(r.cur, r.srv)
  /\ ~r.ok => r.cur.failed
  /\ r.ok => ~r.cur.failed /\ ~r.cur.done /\ r.cur.sent
  /\ r.ok /\ ~r.cur.in_first_batch /\ ReadEof(r.cur) => r.cur.cursor_id = 0

\* A failed RPC: the cursor has failed, and a server cursor that is left behind
\* is the network's doing.
LEMMA FailureFetched ==
  ASSUME NEW c \in CursorType, NEW s \in ServerType, Stage(c), Unsent(c, s), Near(c, s),
         NEW r \in {WarmUpFailed(c, s), Refused(c, s), Rpc(Failed(c), Fault(s), FALSE),
                    Rpc(Failed(c), Lost(c, s), FALSE)}
  PROVE  Fetched(c, s, r)
<1> DEFINE D == {Failed(c), [c EXCEPT !.failed = TRUE], [Failed(c) EXCEPT !.cursor_id = 0]}
           T == {Fault(s), [s EXCEPT !.open = FALSE], Lost(c, s)}
<1>1. ASSUME NEW d \in D
      PROVE  /\ d.failed /\ d.sent = c.sent /\ d.cursor_id \in {c.cursor_id, 0}
             /\ d.limit = c.limit /\ d.skip = c.skip /\ d.iface = c.iface /\ d.count = c.count
  BY DEF Failed, CursorType
<1>2. ASSUME NEW t \in T
      PROVE  /\ t.coll = s.coll /\ t.writes = s.writes /\ t.handed = s.handed
             /\ ~(t.open /\ ~t.faulty) /\ t.cluster = s.cluster /\ t.host = s.host
  BY DEF Fault, Lost, ServerType
<1>3. r.cur \in D /\ r.srv \in T /\ ~r.ok
  BY DEF WarmUpFailed, Refused, Rpc
<1> HIDE DEF D, T
<1>4. Stage(r.cur) /\ r.cur.failed
  BY <1>1, <1>3 DEF Stage
<1>5. /\ Known(r.cur, r.srv) /\ Rest(r.cur, r.srv) /\ Unsent(r.cur, r.srv)
      /\ Near(r.cur, r.srv)
  BY <1>1, <1>2, <1>3 DEF Known, Rest, Unsent, Near, KillMayMiss
<1>6. Fixed(c, s, r.cur, r.srv)
  BY <1>1, <1>2, <1>3 DEF Fixed
<1> QED BY <1>3, <1>4, <1>5, <1>6 DEF Fetched, Sound

\* A reply that brings a batch of p, with p following what was handed out.
LEMMA ServedRest ==
  ASSUME NEW s \in ServerType, NEW p \in Seq(Doc), NEW r \in ReplyType(p)
  PROVE  LET t == Served(s, p, r)
         IN  /\ t.coll = s.coll /\ t.writes = s.writes /\ t.faulty = s.faulty /\ t.open = r.open
             /\ t.cluster = s.cluster /\ t.host = s.host
             /\ t.handed \o t.pending = s.handed \o p
             /\ r.size = Len(p) => t.pending = << >>
             /\ p = << >> => t.handed = s.handed
<1> DEFINE t == Served(s, p, r)
<1>1. /\ t.coll = s.coll /\ t.writes = s.writes /\ t.faulty = s.faulty /\ t.open = r.open
      /\ t.cluster = s.cluster /\ t.host = s.host
      /\ t.handed = s.handed \o Take(p, r.size) /\ t.pending = Drop(p, r.size)
  BY DEF Served, ServerType
<1>2. r.size \in 0..Len(p) /\ s.handed \in Seq(Doc)
  BY DEF ReplyType, ServerType
<1>3. /\ Take(p, r.size) \o Drop(p, r.size) = p
      /\ r.size = Len(p) => Drop(p, r.size) = << >> /\ Take(p, r.size) = p
  BY <1>2, TakeDrop
<1>4. Take(p, r.size) \in Seq(Doc) /\ Drop(p, r.size) \in Seq(Doc)
  <2>1. r.size \in Nat /\ r.size <= Len(p)
    BY <1>2, LenProperties
  <2> QED BY <2>1, Parts
<1>5. (s.handed \o Take(p, r.size)) \o Drop(p, r.size) =
        s.handed \o (Take(p, r.size) \o Drop(p, r.size))
  <2> DEFINE h == s.handed
             u == Take(p, r.size)
             v == Drop(p, r.size)
  <2>1. h \in Seq(Doc) /\ u \in Seq(Doc) /\ v \in Seq(Doc)
    BY <1>2, <1>4
  <2> HIDE DEF h, u, v
  <2>2. (h \o u) \o v = h \o (u \o v)
    BY <2>1, ConcatAssociative
  <2> QED BY <2>2 DEF h, u, v
<1>6. ASSUME p = << >> PROVE t.handed = s.handed
  <2>1. Take(p, r.size) = << >>
    BY <1>2, <1>3, <1>6, EmptySeq
  <2> QED BY <1>1, <1>2, <2>1, ConcatEmptySeq
<1> HIDE DEF t
<1> QED BY <1>1, <1>3, <1>5, <1>6 DEF t

\* The query: what it finds is what is sent and to be sent.
LEMMA HostQueryFetched ==
  ASSUME NEW c \in CursorType, NEW s \in ServerType, Shape(c), Stage(c), Unsent(c, s),
         Near(c, s), ~c.failed, ~c.sent, Room(c), NEW r \in query_at_host(c, s)
  PROVE  Fetched(c, s, r)
<1>1. CASE r \in {WarmUpFailed(c, s), Refused(c, s), Rpc(Failed(c), Fault(s), FALSE),
                   Rpc(Failed(c), Lost(c, s), FALSE)}
  BY <1>1, FailureFetched
<1>2. CASE \E q \in QueryReplies(c, s) :
             r = Rpc(Answered(c, Take(Found(c, s), q.size), q), Served(s, Found(c, s), q), TRUE)
  <2>1. PICK q \in QueryReplies(c, s) :
          r = Rpc(Answered(c, Take(Found(c, s), q.size), q), Served(s, Found(c, s), q), TRUE)
    BY <1>2
  <2> DEFINE p == Found(c, s)
             d == Answered(c, Take(p, q.size), q)
             t == Served(s, p, q)
  <2>2. q \in ReplyType(p) /\ p \in Seq(Doc) /\ q.open \in BOOLEAN /\ q.size \in 0..Len(p)
    BY RepliesType DEF ReplyType
  <2>3. r.cur = d /\ r.srv = t /\ r.ok
    BY <2>1 DEF Rpc
  <2>4. /\ d.limit = c.limit /\ d.skip = c.skip /\ d.iface = c.iface /\ d.count = c.count
        /\ ~d.failed /\ ~d.done /\ d.sent /\ d.cursor_id = (IF q.open THEN 1 ELSE 0)
        /\ c.is_command => d.in_first_batch
        /\ ~c.is_command => d.docs = Take(p, q.size)
    BY DEF Answered, CursorType
  <2>5. /\ t.coll = s.coll /\ t.writes = s.writes /\ t.faulty = s.faulty /\ t.open = q.open
        /\ t.cluster = s.cluster /\ t.host = s.host
        /\ t.handed \o t.pending = s.handed \o p
        /\ q.size = Len(p) => t.pending = << >>
    BY <2>2, ServedRest
  <2>6. s.handed \o p = p
    BY <2>2, ConcatEmptySeq DEF Unsent
  <2>7. Found(d, t) = p
    BY <2>4, <2>5 DEF Found
  <2>8. CASE c.is_command
    <3>1. q.size < Len(p) => q.open
      BY <2>8 DEF QueryReplies, CommandReplies
    <3>2. ~q.open => q.size = Len(p)
      BY <2>2, <3>1, LenProperties
    <3> HIDE DEF d, t, p
    <3>3. Known(d, t) /\ Unsent(d, t) /\ Near(d, t)
      BY <2>2, <2>4, <2>5 DEF Sound, Known, Unsent, Near, KillMayMiss
    <3>4. Rest(d, t)
      <4>1. d.cursor_id = 0 => t.pending = << >>
        BY <2>2, <2>4, <2>5, <3>2
      <4> QED BY <2>5, <2>6, <2>7, <4>1, Zenon DEF Rest
    <3>5. Stage(d)
      <4>1. c.iface = "array" => ~q.open
        BY <2>8 DEF QueryReplies, CommandReplies
      <4> QED BY <2>2, <2>4, <2>8, <4>1 DEF Stage
    <3> QED BY <2>3, <2>4, <2>5, <2>8, <3>3, <3>4, <3>5 DEF Fetched, Sound, Fixed
  <2>9. CASE ~c.is_command
    <3>1. q \in Replies(p, n_return(c)) /\ c.iface = "find"
      BY <2>9 DEF QueryReplies, Shape, CursorType, Interfaces
    <3>2. n_return(c) \in Int
      BY CursorConstants DEF n_return, AtMost, Int32, CursorType, UInt32, Word
    <3>3. /\ q.size = 0 => ~q.open
          /\ n_return(c) >= 0 /\ ~q.open => q.size = Len(p)
      BY <2>2, <3>1, <3>2, LastReply
    <3>4. c.limit < HalfWord /\ ~q.open => q.size = Len(p)
      BY <3>3, RoomIsNoLimit
    <3>5. d.docs = << >> => q.size = 0
      <4>1. q.size \in Nat /\ q.size <= Len(p)
        BY <2>2, LenProperties
      <4>2. Len(Take(p, q.size)) = q.size
        BY <2>2, <4>1, Parts
      <4> QED BY <2>4, <2>9, <4>2, EmptySeq
    <3> HIDE DEF d, t, p
    <3>6. Known(d, t) /\ Unsent(d, t) /\ Near(d, t)
      BY <2>2, <2>4, <2>5 DEF Sound, Known, Unsent, Near, KillMayMiss
    <3>7. Rest(d, t)
      <4>1. d.limit < HalfWord /\ d.cursor_id = 0 => t.pending = << >>
        BY <2>2, <2>4, <2>5, <3>4
      <4> QED BY <2>5, <2>6, <2>7, <4>1, Zenon DEF Rest
    <3>8. Stage(d)
      BY <2>4, <3>1 DEF Stage
    <3>9. ReadEof(d) => d.cursor_id = 0
      BY <2>4, <3>3, <3>5 DEF ReadEof
    <3> QED BY <2>3, <2>4, <2>5, <3>6, <3>7, <3>8, <3>9 DEF Fetched, Sound, Fixed
  <2> QED BY <2>8, <2>9
<1> QED BY <1>1, <1>2 DEF query_at_host

LEMMA QueryFetched ==
  ASSUME NEW c \in CursorType, NEW s \in ServerType, Shape(c), Stage(c), Unsent(c, s),
         Near(c, s), ~c.failed, ~c.sent, Room(c), NEW r \in cursor_query(c, s)
  PROVE  Fetched(c, s, r)
<1>1. PICK h \in QueryHosts(c, s) : r \in query_at_host(c, AtHost(s, h))
  BY DEF cursor_query
<1>2. AtHost(s, h) \in ServerType /\ Unsent(c, AtHost(s, h)) /\ Near(c, AtHost(s, h))
  BY WhoAnswers, OnlyTheHost DEF Unsent, Near, KillMayMiss
<1>3. Fetched(c, AtHost(s, h), r)
  BY <1>1, <1>2, HostQueryFetched
<1> QED BY <1>3, OnlyTheHost DEF Fetched, Fixed

\* A GET_MORE: what is still to be sent grows shorter.
LEMMA GetMoreFetched ==
  ASSUME NEW c \in CursorType, NEW s \in ServerType, Shape(c), Sound(c, s),
         ~c.failed, ~c.done, c.sent, c.iface # "array", Room(c), NEW r \in cursor_get_more(c, s)
  PROVE  Fetched(c, s, r)
<1>1. CASE r \in {WarmUpFailed(c, s), Refused(c, s), Rpc(Failed(c), Fault(s), FALSE)}
  BY <1>1, FailureFetched DEF Sound
<1>2. CASE \E q \in Replies(s.pending, n_return(c)) :
             r = Rpc(Continued(c, Take(s.pending, q.size), q), Served(s, s.pending, q), TRUE)
  <2>1. PICK q \in Replies(s.pending, n_return(c)) :
          r = Rpc(Continued(c, Take(s.pending, q.size), q), Served(s, s.pending, q), TRUE)
    BY <1>2
  <2> DEFINE p == s.pending
             d == Continued(c, Take(p, q.size), q)
             t == Served(s, p, q)
  <2>2. q \in ReplyType(p) /\ p \in Seq(Doc) /\ q.open \in BOOLEAN /\ q.size \in 0..Len(p)
    BY RepliesType DEF ReplyType, ServerType
  <2>3. r.cur = d /\ r.srv = t /\ r.ok
    BY <2>1 DEF Rpc
  <2>4. /\ d.limit = c.limit /\ d.skip = c.skip /\ d.iface = c.iface /\ d.count = c.count
        /\ ~d.failed /\ ~d.done /\ d.sent /\ d.cursor_id = (IF q.open THEN 1 ELSE 0)
        /\ d.docs = Take(p, q.size)
    BY DEF Continued, CursorType
  <2>5. /\ t.coll = s.coll /\ t.writes = s.writes /\ t.faulty = s.faulty /\ t.open = q.open
        /\ t.cluster = s.cluster /\ t.host = s.host
        /\ t.handed \o t.pending = s.handed \o p
        /\ q.size = Len(p) => t.pending = << >>
    BY <2>2, ServedRest
  <2>6. Found(d, t) = Found(c, s)
    BY <2>4, <2>5 DEF Found
  <2>7. n_return(c) \in Int
    BY CursorConstants DEF n_return, AtMost, Int32, CursorType, UInt32, Word
  <2>8. /\ q.size = 0 => ~q.open
        /\ n_return(c) >= 0 /\ ~q.open => q.size = Len(p)
    BY <2>2, <2>7, LastReply
  <2>9. c.limit < HalfWord /\ ~q.open => q.size = Len(p)
    BY <2>8, RoomIsNoLimit
  <2>10. d.docs = << >> => q.size = 0
    <3>1. q.size \in Nat /\ q.size <= Len(p)
      BY <2>2, LenProperties
    <3>2. Len(Take(p, q.size)) = q.size
      BY <2>2, <3>1, Parts
    <3> QED BY <2>4, <3>2, EmptySeq
  <2> HIDE DEF d, t
  <2>11. Known(d, t) /\ Unsent(d, t) /\ Near(d, t)
    BY <2>2, <2>4, <2>5 DEF Sound, Known, Unsent, Near, KillMayMiss
  <2>12. Rest(d, t)
    <3>1. d.limit < HalfWord /\ d.cursor_id = 0 => t.pending = << >>
      BY <2>2, <2>4, <2>5, <2>9
    <3>2. s.writes = 0 /\ c.limit < HalfWord => s.handed \o p = Found(c, s)
      BY DEF Sound, Rest
    <3> QED BY <2>4, <2>5, <2>6, <3>1, <3>2, Zenon DEF Rest
  <2>13. Stage(d)
    BY <2>4 DEF Sound, Stage
  <2>14. ReadEof(d) => d.cursor_id = 0
    BY <2>4, <2>8, <2>10 DEF ReadEof
  <2> QED BY <2>3, <2>4, <2>5, <2>11, <2>12, <2>13, <2>14 DEF Fetched, Sound, Fixed
<1> QED BY <1>1, <1>2 DEF cursor_get_more

\* What an outcome o of a call made with c and s says of the end: it has come
\* when no document is returned, and only by a failure, at the limit or when
\* there is nothing left.
Ends(c, s, o) ==
  /\ Fixed(c, s, o.cur, o.srv)
  /\ Sound(o.cur, o.srv)
  /\ o.doc = NoDoc => Over(o.cur) /\ (o.cur.failed \/ LimitReached(c) \/ Drained(o.cur))
  /\ o.doc # NoDoc => ~LimitReached(c) /\ ~o.cur.done

\* An end seen from a state in which nothing fixed was different.
LEMMA EndsBefore ==
  ASSUME NEW c, NEW s, NEW d, NEW t, NEW o, Fixed(c, s, d, t), Ends(d, t, o)
  PROVE  Ends(c, s, o)
BY DEF Ends, Fixed, LimitReached

\* A failed RPC ends the cursor.
LEMMA FailureEnds ==
  ASSUME NEW c, NEW s, NEW r, Fetched(c, s, r), ~r.ok
  PROVE  Ends(c, s, Outcome(r.cur, r.srv, NoDoc))
BY DEF Ends, Fetched, Outcome, Over

\* Reading the buffered reply.
LEMMA ReadEnds ==
  ASSUME NEW c \in CursorType, NEW s \in ServerType, Shape(c), Sound(c, s),
         ~c.failed, ~c.done, c.sent, ~c.in_first_batch, c.iface # "array",
         ReadEof(c) => c.cursor_id = 0, ~LimitReached(c)
  PROVE  Ends(c, s, read_and_complete(c, s))
<1> DEFINE o == read_and_complete(c, s)
<1>1. c.docs \in Seq(Doc) /\ c.first_batch = << >>
  BY DEF CursorType, Shape
<1>2. CASE c.docs # << >>
  <2>1. /\ o.cur = [c EXCEPT !.docs = Tail(@), !.end_of_event = FALSE, !.done = FALSE]
        /\ o.srv = s /\ o.doc = Head(c.docs)
    BY <1>2 DEF read_and_complete, Outcome
  <2>2. o.doc # NoDoc
    BY <1>1, <1>2, <2>1, HeadTailProperties, NoDocIsNoDocument
  <2> HIDE DEF o
  <2>3. /\ o.cur.limit = c.limit /\ o.cur.skip = c.skip /\ o.cur.iface = c.iface
        /\ o.cur.count = c.count /\ ~o.cur.failed /\ ~o.cur.done /\ o.cur.sent
        /\ o.cur.cursor_id = c.cursor_id
    BY <2>1 DEF CursorType
  <2>4. Sound(o.cur, o.srv)
    BY <2>1, <2>3 DEF Sound, Stage, Known, Rest, Unsent, Near, KillMayMiss, Found
  <2>5. Fixed(c, s, o.cur, o.srv)
    BY <2>1, <2>3 DEF Fixed
  <2> QED BY <2>2, <2>3, <2>4, <2>5 DEF Ends, o
<1>3. CASE c.docs = << >>
  <2>1. /\ o.cur = [c EXCEPT !.end_of_event = ReadEof(c), !.done = ReadEof(c),
                             !.failed = ~ReadEof(c)]
        /\ o.srv = s /\ o.doc = NoDoc
    BY <1>3 DEF read_and_complete, Outcome
  <2> HIDE DEF o
  <2>2. /\ o.cur.limit = c.limit /\ o.cur.skip = c.skip /\ o.cur.iface = c.iface
        /\ o.cur.count = c.count /\ o.cur.sent /\ o.cur.cursor_id = c.cursor_id
        /\ o.cur.first_batch = c.first_batch /\ o.cur.docs = c.docs
        /\ o.cur.in_first_batch = c.in_first_batch
    BY <2>1 DEF CursorType
  <2>3. o.cur.failed = ~ReadEof(c) /\ o.cur.done = ReadEof(c)
    BY <2>1 DEF CursorType
  <2>4. Sound(o.cur, o.srv)
    BY <2>1, <2>2 DEF Sound, Stage, Known, Rest, Unsent, Near, KillMayMiss, Found
  <2>5. Fixed(c, s, o.cur, o.srv)
    BY <2>1, <2>2 DEF Fixed
  <2>6. Over(o.cur) /\ (o.cur.failed \/ Drained(o.cur))
    BY <1>1, <1>3, <2>2, <2>3 DEF Over, Drained
  <2> QED BY <2>1, <2>4, <2>5, <2>6 DEF Ends, o
<1> QED BY <1>2, <1>3

\* _mongoc_cursor_next on a cursor that goes on.
LEMMA CursorNextEnds ==
  ASSUME NEW ret \in Seq(Doc), NEW c \in CursorType, NEW s \in ServerType,
         Shape(c), History(ret, c, s), Sound(c, s), ~c.failed, ~c.done,
         ~c.in_first_batch, c.iface # "array", ~c.sent => c.iface = "find",
         NEW o \in cursor_next(c, s)
  PROVE  Ends(c, s, o)
<1> DEFINE waiting == [c EXCEPT !.end_of_event = TRUE]
           limited == [c EXCEPT !.done = TRUE]
<1>1. CASE LimitReached(c)
  <2>1. o = Outcome(limited, s, NoDoc)
    BY <1>1 DEF cursor_next
  <2>2. /\ limited.limit = c.limit /\ limited.skip = c.skip /\ limited.iface = c.iface
        /\ limited.count = c.count /\ limited.sent = c.sent /\ limited.cursor_id = c.cursor_id
        /\ limited.done /\ limited.failed = c.failed
    BY DEF CursorType
  <2>3. c.iface = "find"
    BY <1>1 DEF LimitReached, Sound, Stage
  <2> HIDE DEF limited
  <2>4. Stage(limited) /\ Over(limited)
    BY <2>2, <2>3 DEF Stage, Over
  <2>5. /\ Known(limited, s) /\ Rest(limited, s) /\ Unsent(limited, s)
        /\ Near(limited, s)
    BY <2>2 DEF Sound, Known, Rest, Unsent, Near, KillMayMiss, Found
  <2>6. Fixed(c, s, limited, s)
    BY <2>2 DEF Fixed
  <2> QED BY <1>1, <2>1, <2>4, <2>5, <2>6 DEF Ends, Sound, Outcome
<1>2. CASE ~LimitReached(c) /\ c.sent /\ c.docs # << >>
  <2>1. o = read_and_complete(c, s) /\ ~ReadEof(c)
    BY <1>2 DEF cursor_next, ReadEof
  <2> QED BY <1>2, <2>1, ReadEnds
<1>3. CASE ~LimitReached(c) /\ ~(c.sent /\ c.docs # << >>)
  <2>1. PICK r \in refill(c, s) :
          o = IF r.ok THEN read_and_complete(r.cur, r.srv) ELSE Outcome(r.cur, r.srv, NoDoc)
    BY <1>3 DEF cursor_next
  <2>2. c.docs = << >> /\ Room(c)
    <3>1. c.limit \in Nat /\ c.count \in Nat
      BY CursorConstants DEF CursorType, UInt32, Word
    <3> QED BY <1>3, <3>1 DEF Shape, Room, LimitReached
  <2> DEFINE Good == /\ r.cur \in CursorType /\ r.srv \in ServerType /\ Fetched(c, s, r)
                     /\ r.ok => Shape(r.cur) /\ ~r.cur.in_first_batch
  <2>3. ASSUME ~c.sent PROVE Good
    <3>1. r \in cursor_query(c, s) /\ ~c.is_command
      BY <2>1, <2>3 DEF refill, Shape
    <3>2. r.cur \in CursorType /\ r.srv \in ServerType
      BY <3>1, QueryType DEF RpcType
    <3>3. Fetched(c, s, r)
      BY <2>2, <2>3, <3>1, QueryFetched DEF Sound
    <3> QED BY <2>2, <3>1, <3>2, <3>3, QueryKeeps
  <2>4. ASSUME c.sent, r \in cursor_get_more(waiting, s) PROVE Good
    <3>1. /\ waiting.limit = c.limit /\ waiting.skip = c.skip /\ waiting.iface = c.iface
          /\ waiting.count = c.count /\ waiting.sent = c.sent
          /\ waiting.cursor_id = c.cursor_id /\ waiting.done = c.done
          /\ waiting.failed = c.failed /\ waiting.in_first_batch = c.in_first_batch
          /\ waiting.first_batch = c.first_batch /\ waiting.docs = c.docs
          /\ waiting.is_command = c.is_command /\ waiting \in CursorType
      BY DEF CursorType
    <3> HIDE DEF waiting
    <3>2. Shape(waiting) /\ History(ret, waiting, s) /\ Room(waiting)
      BY <2>2, <3>1, SameBuffers DEF Shape, Room
    <3>3. Sound(waiting, s)
      BY <3>1 DEF Sound, Stage, Known, Rest, Unsent, Near, KillMayMiss, Found
    <3>4. Fetched(waiting, s, r)
      BY <2>4, <3>1, <3>2, <3>3, GetMoreFetched
    <3>5. Fetched(c, s, r)
      BY <3>1, <3>4 DEF Fetched, Fixed
    <3>6. r.cur \in CursorType /\ r.srv \in ServerType
      BY <2>4, <3>1, GetMoreType DEF RpcType
    <3>7. Shape(r.cur) /\ ~r.cur.in_first_batch
      BY <2>2, <2>4, <3>1, <3>2, GetMoreKeeps
    <3> QED BY <3>5, <3>6, <3>7
  <2>5. ASSUME c.sent, r = Rpc(c, s, TRUE), ~(ReadEof(c) /\ c.cursor_id # 0) PROVE Good
    BY <2>5 DEF Rpc, Fetched, Fixed
  <2>6. Good
    BY <2>1, <2>3, <2>4, <2>5 DEF refill
  <2>7. CASE ~r.ok
    BY <2>1, <2>6, <2>7, FailureEnds
  <2>8. CASE r.ok
    <3>1. /\ Fixed(c, s, r.cur, r.srv) /\ Sound(r.cur, r.srv) /\ ~r.cur.failed /\ ~r.cur.done
          /\ r.cur.sent /\ (ReadEof(r.cur) => r.cur.cursor_id = 0)
      BY <2>6, <2>8 DEF Fetched
    <3>2. ~LimitReached(r.cur) /\ r.cur.iface # "array"
      BY <1>3, <3>1 DEF Fixed, LimitReached
    <3>3. Ends(r.cur, r.srv, o)
      BY <2>1, <2>6, <2>8, <3>1, <3>2, ReadEnds
    <3> QED BY <3>1, <3>3, EndsBefore
  <2> QED BY <2>7, <2>8
<1> QED BY <1>1, <1>2, <1>3

\* Taking a document from the first batch.
LEMMA FirstBatchEnds ==
  ASSUME NEW c \in CursorType, NEW s \in ServerType, Shape(c), Sound(c, s), ~c.done,
         c.first_batch # << >>
  PROVE  Ends(c, s, NextInFirstBatch(c, s))
<1> DEFINE d == [c EXCEPT !.first_batch = Tail(@)]
<1>1. c.first_batch \in Seq(Doc) /\ c.in_first_batch /\ c.iface # "find"
  BY DEF CursorType, Shape
<1>2. Head(c.first_batch) # NoDoc
  BY <1>1, HeadTailProperties, NoDocIsNoDocument
<1>3. /\ d.limit = c.limit /\ d.skip = c.skip /\ d.iface = c.iface /\ d.count = c.count
      /\ d.sent = c.sent /\ d.cursor_id = c.cursor_id /\ d.done = c.done
      /\ d.failed = c.failed /\ d.in_first_batch = c.in_first_batch
  BY DEF CursorType
<1>4. NextInFirstBatch(c, s) = Outcome(d, s, Head(c.first_batch))
  BY DEF NextInFirstBatch
<1> HIDE DEF d
<1>5. Sound(d, s) /\ Fixed(c, s, d, s)
  BY <1>3 DEF Sound, Stage, Known, Rest, Unsent, Near, KillMayMiss, Found, Fixed
<1>6. ~LimitReached(c)
  BY <1>1 DEF LimitReached, Sound, Stage
<1> QED BY <1>2, <1>3, <1>4, <1>5, <1>6 DEF Ends, Outcome

\* The first batch of an aggregation, and what follows it.
LEMMA ProcessFirstBatchEnds ==
  ASSUME NEW ret \in Seq(Doc), NEW c \in CursorType, NEW s \in ServerType,
         Shape(c), History(ret, c, s), Sound(c, s), ~c.failed, ~c.done,
         c.in_first_batch, c.sent, c.iface = "cursorid",
         NEW o \in process_first_batch(c, s)
  PROVE  Ends(c, s, o)
<1> DEFINE over == [c EXCEPT !.in_first_batch = FALSE, !.end_of_event = TRUE]
           last == [over EXCEPT !.done = TRUE]
<1>1. CASE c.first_batch # << >>
  BY <1>1, FirstBatchEnds DEF process_first_batch
<1>2. CASE c.first_batch = << >>
  <2>1. ASSUME NEW d \in {over, last}
        PROVE  /\ d \in CursorType /\ d.first_batch = c.first_batch /\ d.docs = c.docs
               /\ d.iface = c.iface /\ ~d.in_first_batch /\ d.sent
               /\ d.is_command = c.is_command /\ d.limit = c.limit /\ d.skip = c.skip
               /\ d.count = c.count /\ d.cursor_id = c.cursor_id /\ ~d.failed
    BY ZenonT(40) DEF CursorType
  <2>2. ~over.done /\ last.done
    BY DEF CursorType
  <2>3. \/ o = Outcome(last, s, NoDoc) /\ c.cursor_id = 0
        \/ o \in cursor_next(over, s)
    BY <1>2 DEF process_first_batch
  <2> HIDE DEF over, last
  <2>4. ASSUME NEW d \in {over, last}
        PROVE  Shape(d) /\ History(ret, d, s) /\ Fixed(c, s, d, s) /\ Sound(d, s)
    <3>1. Shape(d) /\ History(ret, d, s)
      BY <1>2, <2>1, SameBuffers DEF Shape
    <3>2. Fixed(c, s, d, s)
      BY <2>1 DEF Fixed
    <3>3. Sound(d, s)
      BY <2>1 DEF Sound, Stage, Known, Rest, Unsent, Near, KillMayMiss, Found
    <3> QED BY <3>1, <3>2, <3>3
  <2>5. CASE o = Outcome(last, s, NoDoc) /\ c.cursor_id = 0
    <3>1. c.docs = << >>
      BY DEF Shape
    <3>2. Over(last) /\ Drained(last)
      BY <1>2, <2>1, <2>2, <2>5, <3>1 DEF Over, Drained
    <3> QED BY <2>4, <2>5, <3>2 DEF Ends, Outcome
  <2>6. CASE o \in cursor_next(over, s)
    <3>1. Ends(over, s, o)
      BY <2>1, <2>2, <2>4, <2>6, CursorNextEnds
    <3> QED BY <2>4, <3>1, EndsBefore
  <2> QED BY <2>3, <2>5, <2>6
<1> QED BY <1>1, <1>2

\* The three interfaces, on a cursor that goes on.
LEMMA IfaceNextEnds ==
  ASSUME NEW ret \in Seq(Doc), NEW c \in CursorType, NEW s \in ServerType,
         Shape(c), History(ret, c, s), Sound(c, s), ~c.failed, ~c.done,
         NEW o \in iface_next(c, s)
  PROVE  Ends(c, s, o)
<1>1. c.iface \in {"find", "cursorid", "array"}
  BY DEF CursorType, Interfaces
<1>2. CASE c.iface = "find"
  <2>1. ~c.in_first_batch /\ o \in cursor_next(c, s)
    BY <1>2 DEF Shape, iface_next
  <2> QED BY <1>1, <1>2, <2>1, CursorNextEnds
<1>3. ASSUME c.iface # "find", ~c.in_first_batch, ~c.sent, NEW r \in cursor_query(c, s)
      PROVE  /\ r.cur \in CursorType /\ r.srv \in ServerType
             /\ Shape(r.cur) /\ History(ret, r.cur, r.srv) /\ Fetched(c, s, r)
             /\ r.ok => r.cur.in_first_batch /\ r.cur.iface = c.iface
  <2>1. c.docs = << >> /\ c.is_command /\ Room(c)
    BY <1>1, <1>3 DEF Shape, Room, Sound, Stage
  <2>2. r.cur \in CursorType /\ r.srv \in ServerType
    BY <1>3, QueryType DEF RpcType
  <2>3. Fetched(c, s, r)
    BY <1>1, <1>3, <2>1, QueryFetched DEF Sound
  <2> QED BY <1>3, <2>1, <2>2, <2>3, QueryKeeps
<1>4. CASE c.iface = "cursorid"
  <2>1. o \in cursorid_next(c, s)
    BY <1>4 DEF iface_next
  <2>2. CASE c.in_first_batch
    <3>1. c.sent
      BY <2>2 DEF Shape
    <3> QED BY <1>1, <1>4, <2>1, <2>2, <3>1, ProcessFirstBatchEnds DEF cursorid_next
  <2>3. CASE ~c.in_first_batch /\ c.sent
    BY <1>1, <1>4, <2>1, <2>3, CursorNextEnds DEF cursorid_next
  <2>4. CASE ~c.in_first_batch /\ ~c.sent
    <3>1. PICK r \in cursor_query(c, s) :
            o \in IF r.ok THEN process_first_batch(r.cur, r.srv)
                  ELSE {Outcome(r.cur, r.srv, NoDoc)}
      BY <2>1, <2>4 DEF cursorid_next
    <3>2. /\ r.cur \in CursorType /\ r.srv \in ServerType
          /\ Shape(r.cur) /\ History(ret, r.cur, r.srv) /\ Fetched(c, s, r)
          /\ r.ok => r.cur.in_first_batch /\ r.cur.iface = "cursorid"
      BY <1>3, <1>4, <2>4
    <3>3. CASE r.ok
      <4>1. /\ Fixed(c, s, r.cur, r.srv) /\ Sound(r.cur, r.srv)
            /\ ~r.cur.failed /\ ~r.cur.done /\ r.cur.sent
        BY <3>2, <3>3 DEF Fetched
      <4>2. Ends(r.cur, r.srv, o)
        BY <3>1, <3>2, <3>3, <4>1, ProcessFirstBatchEnds
      <4> QED BY <4>1, <4>2, EndsBefore
    <3>4. CASE ~r.ok
      BY <3>1, <3>2, <3>4, FailureEnds
    <3> QED BY <3>3, <3>4
  <2> QED BY <2>2, <2>3, <2>4
<1>5. CASE c.iface = "array"
  <2>1. o \in array_next(c, s)
    BY <1>5 DEF iface_next
  <2>2. CASE c.in_first_batch
    <3>1. CASE c.first_batch # << >>
      <4>1. o = NextInFirstBatch(c, s)
        BY <2>1, <2>2, <3>1 DEF array_next
      <4> QED BY <3>1, <4>1, FirstBatchEnds
    <3>2. CASE c.first_batch = << >>
      <4>1. o = Outcome(c, s, NoDoc)
        BY <2>1, <2>2, <3>2 DEF array_next
      <4>2. Over(c) /\ Drained(c)
        BY <1>5, <2>2, <3>2 DEF Over, Drained, Shape, Sound, Stage
      <4> QED BY <4>1, <4>2 DEF Ends, Outcome, Fixed
    <3> QED BY <3>1, <3>2
  <2>3. CASE ~c.in_first_batch
    <3>1. ~c.sent
      BY <1>1, <1>5, <2>3 DEF Sound, Stage
    <3>2. PICK r \in cursor_query(c, s) :
            o = IF r.ok /\ r.cur.first_batch # << >> THEN NextInFirstBatch(r.cur, r.srv)
                ELSE Outcome(r.cur, r.srv, NoDoc)
      BY <2>1, <2>3 DEF array_next
    <3>3. /\ r.cur \in CursorType /\ r.srv \in ServerType
          /\ Shape(r.cur) /\ History(ret, r.cur, r.srv) /\ Fetched(c, s, r)
          /\ r.ok => r.cur.in_first_batch /\ r.cur.iface = "array"
      BY <1>3, <1>5, <2>3, <3>1
    <3>4. CASE ~r.ok
      BY <3>2, <3>3, <3>4, FailureEnds
    <3>5. CASE r.ok /\ r.cur.first_batch # << >>
      <4>1. Fixed(c, s, r.cur, r.srv) /\ Sound(r.cur, r.srv) /\ ~r.cur.done
        BY <3>3, <3>5 DEF Fetched
      <4>2. Ends(r.cur, r.srv, o)
        BY <3>2, <3>3, <3>5, <4>1, FirstBatchEnds
      <4> QED BY <4>1, <4>2, EndsBefore
    <3>6. CASE r.ok /\ r.cur.first_batch = << >>
      <4>1. /\ Fixed(c, s, r.cur, r.srv) /\ Sound(r.cur, r.srv) /\ r.cur.sent
            /\ o = Outcome(r.cur, r.srv, NoDoc)
        BY <3>2, <3>3, <3>6 DEF Fetched
      <4>2. Over(r.cur)
        BY <3>3, <3>6 DEF Over
      <4>3. r.cur.docs = << >> /\ r.cur.cursor_id = 0
        BY <3>3, <3>6, <4>1 DEF Shape, Sound, Stage
      <4> QED BY <3>6, <4>1, <4>2, <4>3 DEF Ends, Outcome, Drained
    <3> QED BY <3>4, <3>5, <3>6
  <2> QED BY <2>2, <2>3
<1> QED BY <1>1, <1>2, <1>4, <1>5

\* A cursor that is done only counts the calls.
LEMMA DoneStays ==
  ASSUME NEW c \in CursorType, NEW s, Shape(c), Stage(c), c.failed \/ c.done,
         NEW o \in mongoc_cursor_next(c, s)
  PROVE  /\ o.doc = NoDoc /\ o.srv = s
         /\ o.cur = c \/ o.cur = [c EXCEPT !.count = (@ + 1) % Word]
<1>1. CASE c.failed
  BY <1>1 DEF mongoc_cursor_next, Outcome
<1>2. CASE ~c.failed
  <2>1. c.iface \in {"find", "cursorid"} /\ c.done /\ (c.iface = "cursorid" => c.sent /\ ~c.in_first_batch)
    BY <1>2 DEF Stage, CursorType, Interfaces
  <2>2. cursor_next(c, s) = {Outcome(c, s, NoDoc)}
    BY <2>1 DEF cursor_next
  <2>3. iface_next(c, s) = {Outcome(c, s, NoDoc)}
    <3>1. CASE c.iface = "find"
      BY <2>2, <3>1 DEF iface_next
    <3>2. CASE c.iface = "cursorid"
      BY <2>1, <2>2, <3>2 DEF iface_next, cursorid_next
    <3> QED BY <2>1, <3>1, <3>2
  <2>4. o = [Outcome(c, s, NoDoc) EXCEPT !.cur.count = (@ + 1) % Word]
    BY <1>2, <2>3 DEF mongoc_cursor_next
  <2> QED BY <2>4 DEF Outcome
<1> QED BY <1>1, <1>2

\* Nothing follows the end of the array.
LEMMA ArrayStays ==
  ASSUME NEW c, NEW s, c.iface = "array", c.in_first_batch, c.first_batch = << >>, ~c.failed,
         NEW o \in mongoc_cursor_next(c, s)
  PROVE  o.doc = NoDoc
<1>1. iface_next(c, s) = {Outcome(c, s, NoDoc)}
  BY DEF iface_next, array_next
<1> QED BY <1>1 DEF mongoc_cursor_next, Outcome

\* The public call on a cursor that goes on: it is counted, and otherwise as
\* its interface says.
LEMMA NextEnds ==
  ASSUME NEW ret \in Seq(Doc), NEW c \in CursorType, NEW s \in ServerType,
         Shape(c), History(ret, c, s), Sound(c, s), ~c.failed, ~c.done,
         NEW o \in mongoc_cursor_next(c, s)
  PROVE  /\ Sound(o.cur, o.srv)
         /\ o.cur.limit = c.limit /\ o.cur.skip = c.skip /\ o.cur.iface = c.iface
         /\ o.cur.count = (c.count + 1) % Word
         /\ o.srv.coll = s.coll /\ o.srv.writes = s.writes
         /\ o.doc = NoDoc => Over(o.cur) /\ (o.cur.failed \/ LimitReached(c) \/ Drained(o.cur))
         /\ o.doc # NoDoc => ~LimitReached(c) /\ ~o.cur.done
<1>1. PICK q \in iface_next(c, s) : o = [q EXCEPT !.cur.count = (@ + 1) % Word]
  BY DEF mongoc_cursor_next
<1>2. Ends(c, s, q) /\ q \in OutcomeType
  BY IfaceNextEnds, IfaceNextType
<1>3. /\ o.doc = q.doc /\ o.srv = q.srv /\ o.cur.count = (q.cur.count + 1) % Word
      /\ o.cur.first_batch = q.cur.first_batch /\ o.cur.docs = q.cur.docs
      /\ o.cur.iface = q.cur.iface /\ o.cur.in_first_batch = q.cur.in_first_batch
      /\ o.cur.sent = q.cur.sent /\ o.cur.done = q.cur.done /\ o.cur.failed = q.cur.failed
      /\ o.cur.limit = q.cur.limit /\ o.cur.skip = q.cur.skip
      /\ o.cur.cursor_id = q.cur.cursor_id
  BY <1>1, <1>2 DEF OutcomeType, CursorType
<1>4. Sound(o.cur, o.srv)
  BY <1>2, <1>3 DEF Ends, Sound, Stage, Known, Rest, Unsent, Near, KillMayMiss, Found
<1>5. /\ o.doc = NoDoc => Over(o.cur) /\ (o.cur.failed \/ LimitReached(c) \/ Drained(o.cur))
      /\ o.doc # NoDoc => ~LimitReached(c) /\ ~o.cur.done
  BY <1>2, <1>3 DEF Ends, Over, Drained
<1> QED BY <1>2, <1>3, <1>4, <1>5 DEF Ends, Fixed

-----------------------------------------------------------------------------
\* Until the cursor has come to its end, a limited one has counted exactly the
\* documents it returned: no call was in vain, and count has not wrapped.
Counted(ret, c, over) == c.limit # 0 /\ ~over => Len(ret) = c.count

\* The inductive invariant of the end, beside HistoryInv.
EndInv ==
  /\ Sound(cursor, server)
  /\ handle = "unborn" => ~ended /\ ~server.open /\ server.host = Primary
  /\ ended => Over(cursor)
  /\ cursor.done => cursor.failed \/ ended
  /\ Counted(returned, cursor, ended)
  /\ LimitRespected
  /\ EndMeansAll
  /\ ServerCursorReleased

\* Before the query nothing has been returned.
LEMMA NothingBefore ==
  ASSUME NEW ret \in Seq(Doc), NEW c \in CursorType, NEW s \in ServerType,
         History(ret, c, s), Unsent(c, s), ~c.sent
  PROVE  ret = << >>
<1> DEFINE a == c.first_batch
           b == c.docs
<1>1. a \in Seq(Doc) /\ b \in Seq(Doc) /\ (ret \o a) \o b = << >>
  BY DEF CursorType, History, Unsent
<1> HIDE DEF a, b
<1>2. ret \o a \in Seq(Doc)
  BY <1>1, ConcatProperties
<1> DEFINE m == ret \o a
<1>3. m \in Seq(Doc) /\ m \o b = << >>
  BY <1>1, <1>2
<1> HIDE DEF m
<1>4. m = << >>
  BY <1>1, <1>3, ConcatEqualIffEmpty
<1> QED BY <1>1, <1>4, ConcatEqualIffEmpty DEF m

\* Four sequences in a row.
LEMMA Regroup ==
  ASSUME NEW x \in Seq(Doc), NEW y \in Seq(Doc), NEW z \in Seq(Doc), NEW w \in Seq(Doc)
  PROVE  /\ ((x \o y) \o z) \o w = x \o (y \o (z \o w))
         /\ y \o (z \o w) \in Seq(Doc)
<1> DEFINE m == x \o y
           n == z \o w
<1>1. m \in Seq(Doc) /\ n \in Seq(Doc)
  BY ConcatProperties
<1> HIDE DEF m, n
<1>2. (m \o z) \o w = m \o (z \o w)
  BY <1>1, ConcatAssociative, SMTT(30)
<1>3. (x \o y) \o n = x \o (y \o n)
  BY <1>1, ConcatAssociative, SMTT(30)
<1>4. y \o n \in Seq(Doc)
  BY <1>1, ConcatProperties
<1> QED BY <1>2, <1>3, <1>4 DEF m, n

\* After the query, what has been returned and what is buffered or still to be
\* sent is what it found.
LEMMA StillToCome ==
  ASSUME NEW ret \in Seq(Doc), NEW c \in CursorType, NEW s \in ServerType,
         History(ret, c, s), Sound(c, s), ~c.failed, s.writes = 0, c.limit < HalfWord, c.sent
  PROVE  \E rest \in Seq(Doc) : ret \o rest = Found(c, s)
<1> DEFINE a == c.first_batch
           b == c.docs
           e == s.pending
           f == Found(c, s)
<1>1. a \in Seq(Doc) /\ b \in Seq(Doc) /\ e \in Seq(Doc)
  BY DEF CursorType, ServerType
<1>2. ((ret \o a) \o b) \o e = f
  BY DEF History, Sound, Rest
<1> HIDE DEF a, b, e, f
<1>3. ((ret \o a) \o b) \o e = ret \o (a \o (b \o e)) /\ a \o (b \o e) \in Seq(Doc)
  BY <1>1, Regroup
<1> QED BY <1>2, <1>3 DEF f

\* The first part of a sequence is as many of its elements.
LEMMA FirstPart ==
  ASSUME NEW ret \in Seq(Doc), NEW rest \in Seq(Doc)
  PROVE  LET f == ret \o rest
         IN  f \in Seq(Doc) /\ Len(ret) <= Len(f) /\ Take(f, Len(ret)) = ret
<1> DEFINE f == ret \o rest
<1>1. /\ f \in Seq(Doc) /\ Len(f) = Len(ret) + Len(rest)
      /\ Len(rest) \in Nat /\ Len(ret) \in Nat
  BY ConcatProperties, LenProperties
<1>0. \A i \in 1..Len(ret) : f[i] = ret[i]
  BY <1>1, ConcatProperties
<1> HIDE DEF f
<1>2. Len(ret) <= Len(f)
  BY <1>1
<1>3. Take(f, Len(ret)) \in Seq(Doc) /\ Len(Take(f, Len(ret))) = Len(ret)
  BY <1>1, <1>2, Parts
<1>4. ASSUME NEW i \in 1..Len(ret) PROVE Take(f, Len(ret))[i] = ret[i]
  <2> DEFINE k == Len(ret)
  <2>1. k \in Nat /\ k <= Len(f) /\ i \in 1..k /\ f \in Seq(Doc)
    BY <1>1, <1>2
  <2> HIDE DEF k
  <2>2. Take(f, k)[i] = f[i]
    BY <2>1 DEF Take
  <2> QED BY <1>0, <2>2 DEF k
<1>5. Take(f, Len(ret)) = ret
  BY <1>3, <1>4, SeqEqual
<1> QED BY <1>1, <1>2, <1>5 DEF f

\* What has been returned when the end is reached without an error.
LEMMA AllSelected ==
  ASSUME NEW ret \in Seq(Doc), NEW c \in CursorType, NEW s \in ServerType,
         History(ret, c, s), Sound(c, s), ~c.failed, s.writes = 0, c.limit < HalfWord,
         c.limit # 0 => Len(ret) <= c.limit,
         \/ Drained(c)
         \/ c.limit # 0 /\ Len(ret) = c.limit
  PROVE  ret = Selected(s.coll, c.limit, c.skip)
<1> DEFINE f == Found(c, s)
<1>1. f \in Seq(Doc) /\ Len(f) \in Nat /\ Len(ret) \in Nat /\ c.limit \in Nat
  BY RepliesType, LenProperties, CursorConstants DEF CursorType, UInt32, Word
<1>2. Selected(s.coll, c.limit, c.skip) = IF c.limit = 0 THEN f ELSE Take(f, AtMost(c.limit, Len(f)))
  BY DEF Selected, Found
<1>3. c.first_batch \in Seq(Doc) /\ c.docs \in Seq(Doc) /\ s.handed \in Seq(Doc) /\ s.pending \in Seq(Doc)
  BY DEF CursorType, ServerType
<1> HIDE DEF f
<1>4. CASE Drained(c)
  <2>1. s.handed \o s.pending = f /\ s.pending = << >>
    BY <1>4 DEF Sound, Rest, Drained, f
  <2>2. s.handed = f
    BY <1>3, <2>1, ConcatEmptySeq
  <2>3. ret \o c.first_batch \o c.docs = ret
    BY <1>3, <1>4, ConcatEmptySeq DEF Drained
  <2>4. ret = f
    BY <2>2, <2>3 DEF History
  <2>5. c.limit # 0 => AtMost(c.limit, Len(f)) = Len(f)
    BY <1>1, <2>4 DEF AtMost
  <2>6. Take(f, Len(f)) = f
    BY <1>1, TakeDrop
  <2> QED BY <1>2, <2>4, <2>5, <2>6
<1>5. CASE c.limit # 0 /\ Len(ret) = c.limit
  <2>1. c.sent
    BY <1>5, NothingBefore, EmptySeq DEF Sound
  <2>2. PICK rest \in Seq(Doc) : ret \o rest = f
    BY <2>1, StillToCome DEF f
  <2>3. Len(ret) <= Len(f) /\ Take(f, Len(ret)) = ret
    BY <2>2, FirstPart
  <2>4. AtMost(c.limit, Len(f)) = Len(ret)
    BY <1>1, <1>5, <2>3 DEF AtMost
  <2> QED BY <1>2, <1>5, <2>3, <2>4
<1> QED BY <1>4, <1>5

\* Opening the cursor: the limit counts from here.
LEMMA OpenEnds ==
  ASSUME HistoryInv, EndInv, NEW iface \in Interfaces, NEW limit, NEW skip,
         NEW accepted \in BOOLEAN, limit # 0 => iface = "find", iface # "find" => accepted,
         limit \in Nat, CursorOpen(cursor_new(iface, limit, skip, accepted))
  PROVE  EndInv'
<1>1. /\ cursor' = cursor_new(iface, limit, skip, accepted) /\ server' = server
      /\ returned' = << >> /\ ended' = FALSE /\ handle' = "live"
      /\ server.handed = << >> /\ ~server.open /\ server.host = Primary
  BY DEF CursorOpen, HistoryInv, EndInv
<1>2. /\ cursor'.limit = limit /\ cursor'.count = 0 /\ cursor'.iface = iface
      /\ cursor'.sent = ~accepted /\ cursor'.failed = ~accepted /\ cursor'.done = ~accepted
      /\ cursor'.cursor_id = 0
  BY <1>1 DEF cursor_new
<1>3. Sound(cursor, server)'
  BY <1>1, <1>2 DEF Sound, Stage, Known, Rest, Unsent, Near, KillMayMiss
<1>4. Counted(returned, cursor, ended)' /\ LimitRespected'
  BY <1>1, <1>2, EmptySeq DEF Counted, LimitRespected
<1>5. EndMeansAll' /\ ServerCursorReleased'
  BY <1>1 DEF EndMeansAll, ServerCursorReleased
<1> QED BY <1>1, <1>2, <1>3, <1>4, <1>5 DEF EndInv

\* A call of mongoc_cursor_next.
LEMMA AdvanceEnds ==
  ASSUME HistoryInv, HistoryInv', EndInv, NEW b \in Doc \cup {NoDoc}, CursorAdvance(b)
  PROVE  EndInv' /\ (ended => ended' /\ returned' = returned)
<1>1. PICK o \in mongoc_cursor_next(cursor, server) :
        o.doc = b /\ cursor' = o.cur /\ server' = o.srv
  BY DEF CursorAdvance
<1>2. /\ returned' = (IF b = NoDoc THEN returned ELSE Append(returned, b))
      /\ ended' = (b = NoDoc) /\ handle = "live" /\ handle' = "live"
  BY DEF CursorAdvance
<1>3. /\ cursor \in CursorType /\ server \in ServerType /\ returned \in Seq(Doc)
      /\ cursor' \in CursorType /\ server' \in ServerType /\ returned' \in Seq(Doc)
      /\ Shape(cursor) /\ History(returned, cursor, server) /\ Sound(cursor, server)
      /\ History(returned', cursor', server') /\ ended \in BOOLEAN
  BY DEF HistoryInv, EndInv, CursorTypeOK, History
<1>4. /\ cursor.limit \in Nat /\ cursor.count \in Nat /\ cursor.limit < Word
      /\ Word \in Nat \ {0} /\ Len(returned) \in Nat
  BY <1>3, CursorConstants, LenProperties DEF CursorType, UInt32, Word
<1>5. ServerCursorReleased'
  BY <1>2 DEF ServerCursorReleased
<1>6. CASE cursor.failed \/ cursor.done
  <2>1. /\ b = NoDoc /\ server' = server
        /\ cursor' = cursor \/ cursor' = [cursor EXCEPT !.count = (@ + 1) % Word]
    BY <1>1, <1>3, <1>6, DoneStays DEF Sound
  <2>2. /\ cursor'.first_batch = cursor.first_batch /\ cursor'.iface = cursor.iface
        /\ cursor'.in_first_batch = cursor.in_first_batch /\ cursor'.sent = cursor.sent
        /\ cursor'.done = cursor.done /\ cursor'.failed = cursor.failed
        /\ cursor'.limit = cursor.limit /\ cursor'.skip = cursor.skip
        /\ cursor'.cursor_id = cursor.cursor_id /\ cursor'.docs = cursor.docs
    BY <1>3, <2>1 DEF CursorType
  <2>3. Sound(cursor, server)'
    BY <1>3, <2>1, <2>2 DEF Sound, Stage, Known, Rest, Unsent, Near, KillMayMiss, Found
  <2>4. Over(cursor)'
    BY <1>3, <1>6, <2>2 DEF Over, Sound, Stage
  <2>5. LimitRespected' /\ Counted(returned, cursor, ended)'
    BY <1>2, <2>1, <2>2 DEF EndInv, LimitRespected, Counted
  <2>6. EndMeansAll'
    <3>1. CASE ended
      BY <1>2, <2>1, <2>2, <3>1 DEF EndInv, EndMeansAll, mongoc_cursor_error
    <3>2. CASE ~ended
      BY <1>6, <2>2, <3>2 DEF EndInv, EndMeansAll, mongoc_cursor_error
    <3> QED BY <3>1, <3>2
  <2> QED BY <1>2, <1>5, <2>1, <2>3, <2>4, <2>5, <2>6 DEF EndInv
<1>7. CASE ~cursor.failed /\ ~cursor.done
  <2>1. /\ Sound(cursor, server)'
        /\ cursor'.limit = cursor.limit /\ cursor'.skip = cursor.skip
        /\ cursor'.iface = cursor.iface /\ cursor'.count = (cursor.count + 1) % Word
        /\ server'.coll = server.coll /\ server'.writes = server.writes
        /\ b = NoDoc => /\ Over(cursor)'
                        /\ cursor'.failed \/ LimitReached(cursor) \/ Drained(cursor')
        /\ b # NoDoc => ~LimitReached(cursor) /\ ~cursor'.done
    BY <1>1, <1>3, <1>7, NextEnds DEF Sound, Over, Drained
  <2>2. ended => b = NoDoc
    BY <1>1, <1>7, ArrayStays DEF EndInv, Over
  <2>3. LimitRespected' /\ Counted(returned, cursor, ended)'
    <3>1. CASE b = NoDoc
      BY <1>2, <2>1, <3>1 DEF EndInv, LimitRespected, Counted
    <3>2. CASE b # NoDoc
      <4>1. b \in Doc /\ ~ended /\ returned' = Append(returned, b)
        BY <1>2, <2>2, <3>2
      <4>2. Len(returned') = Len(returned) + 1
        BY <1>3, <4>1, AppendProperties
      <4>3. ASSUME cursor.limit # 0
            PROVE  Len(returned') <= cursor.limit /\ Len(returned') = cursor'.count
        <5>1. Len(returned) = cursor.count
          BY <4>1, <4>3 DEF EndInv, Counted
        <5>2. cursor.count < cursor.limit
          BY <1>4, <2>1, <3>2, <4>3 DEF LimitReached
        <5>3. (cursor.count + 1) % Word = cursor.count + 1
          BY <1>4, <5>2
        <5> QED BY <1>4, <2>1, <4>2, <5>1, <5>2, <5>3
      <4> QED BY <2>1, <4>3 DEF LimitRespected, Counted
    <3> QED BY <3>1, <3>2
  <2>4. EndMeansAll'
    <3> SUFFICES ASSUME b = NoDoc, ~cursor'.failed, server'.writes = 0, cursor'.limit < HalfWord
                 PROVE  returned' = Selected(server'.coll, cursor'.limit, cursor'.skip)
      BY <1>2 DEF EndMeansAll, mongoc_cursor_error
    <3>1. returned' = returned /\ (cursor'.limit # 0 => Len(returned') <= cursor'.limit)
      BY <1>2, <2>3 DEF LimitRespected
    <3>2. CASE Drained(cursor')
      BY <1>3, <2>1, <3>1, <3>2, AllSelected DEF Sound, History
    <3>3. CASE LimitReached(cursor)
      <4>1. cursor.limit # 0 /\ ~ended /\ Len(returned) = cursor.count
        BY <1>3, <1>7, <3>3 DEF LimitReached, EndInv, Over, Sound, Stage, Counted
      <4>2. Len(returned') = cursor'.limit /\ cursor'.limit # 0
        BY <1>4, <2>1, <3>1, <3>3, <4>1 DEF LimitReached
      <4> QED BY <1>3, <2>1, <3>1, <4>2, AllSelected
    <3> QED BY <2>1, <3>2, <3>3
  <2> QED BY <1>2, <1>5, <2>1, <2>2, <2>3, <2>4 DEF EndInv
<1> QED BY <1>6, <1>7

\* What a call leaves alone.
LEMMA AdvanceFixed ==
  ASSUME HistoryInv, EndInv, NEW b \in Doc \cup {NoDoc}, CursorAdvance(b)
  PROVE  /\ cursor'.limit = cursor.limit /\ cursor'.skip = cursor.skip
         /\ server'.coll = server.coll /\ server'.writes = server.writes
<1>1. PICK o \in mongoc_cursor_next(cursor, server) : cursor' = o.cur /\ server' = o.srv
  BY DEF CursorAdvance
<1>2. /\ cursor \in CursorType /\ server \in ServerType /\ returned \in Seq(Doc)
      /\ Shape(cursor) /\ History(returned, cursor, server) /\ Sound(cursor, server)
  BY DEF HistoryInv, EndInv, CursorTypeOK
<1>3. CASE cursor.failed \/ cursor.done
  <2>1. /\ server' = server
        /\ cursor' = cursor \/ cursor' = [cursor EXCEPT !.count = (@ + 1) % Word]
    BY <1>1, <1>2, <1>3, DoneStays DEF Sound
  <2> QED BY <1>2, <2>1 DEF CursorType
<1>4. CASE ~cursor.failed /\ ~cursor.done
  BY <1>1, <1>2, <1>4, NextEnds
<1> QED BY <1>3, <1>4

\* A cursor comes with no end in sight.
LEMMA EndInit == CursorInit => EndInv
<1> SUFFICES ASSUME CursorInit PROVE EndInv
  OBVIOUS
<1>1. /\ cursor = cursor_new("find", 0, 0, TRUE) /\ returned = << >> /\ ended = FALSE
      /\ handle = "unborn" /\ ~server.open /\ server.handed = << >>
      /\ server.host = Primary
  BY DEF CursorInit
<1>2. /\ cursor.limit = 0 /\ cursor.iface = "find" /\ ~cursor.sent /\ ~cursor.failed
      /\ ~cursor.done /\ cursor.cursor_id = 0
  BY <1>1 DEF cursor_new
<1>3. Sound(cursor, server)
  BY <1>1, <1>2 DEF Sound, Stage, Known, Rest, Unsent, Near, KillMayMiss
<1> QED
  BY <1>1, <1>2, <1>3 DEF EndInv, Counted, LimitRespected, EndMeansAll, ServerCursorReleased

\* Destroying the cursor, what other clients do, and doing nothing.
LEMMA OthersEnd ==
  ASSUME HistoryInv, EndInv, CursorDestroy \/ Environment \/ UNCHANGED cursorVars
  PROVE  EndInv' /\ (ended => ended' /\ returned' = returned)
<1>1. /\ UNCHANGED <<cursor, returned, ended>>
      /\ handle' = "unborn" => handle = "unborn"
      /\ handle' = handle \/ (handle' = "destroyed" /\ CursorDestroy)
  BY DEF CursorDestroy, Environment, ServerInsert, ServerDelete, ServerTimeout, cursorVars
<1>2. server \in ServerType /\ cursor \in CursorType
  BY DEF HistoryInv, CursorTypeOK
<1>3. /\ server'.handed = server.handed
      /\ server'.cluster = server.cluster /\ server'.host = server.host
      /\ server'.open => server.open \/ server'.faulty
      /\ server.faulty => server'.faulty
      /\ \/ server'.coll = server.coll /\ server'.writes = server.writes
            /\ server'.pending = server.pending
         \/ server'.writes # 0
  <2>1. CASE CursorDestroy
    BY <1>2, <2>1 DEF CursorDestroy, mongoc_cursor_destroy, Killed, Fault, ServerType
  <2>2. ASSUME NEW d \in Doc, ServerInsert(d)
        PROVE  /\ server'.handed = server.handed /\ server'.open = server.open
               /\ server'.cluster = server.cluster /\ server'.host = server.host
               /\ server'.faulty = server.faulty /\ server'.writes # 0
    BY <1>2, <2>2 DEF ServerInsert, ServerType
  <2>3. ASSUME ServerDelete
        PROVE  /\ server'.handed = server.handed /\ server'.open = server.open
               /\ server'.cluster = server.cluster /\ server'.host = server.host
               /\ server'.faulty = server.faulty /\ server'.writes # 0
    BY <1>2, <2>3 DEF ServerDelete, ServerType
  <2>4. CASE ServerTimeout
    BY <1>2, <2>4 DEF ServerTimeout, ServerType
  <2>5. CASE UNCHANGED cursorVars
    BY <2>5 DEF cursorVars
  <2> QED BY <2>1, <2>2, <2>3, <2>4, <2>5 DEF Environment
<1>4. Sound(cursor, server)'
  BY <1>1, <1>3 DEF EndInv, Sound, Stage, Known, Rest, Unsent, Near, KillMayMiss, Found
<1>5. Counted(returned, cursor, ended)' /\ LimitRespected'
  BY <1>1 DEF EndInv, Counted, LimitRespected
<1>6. EndMeansAll'
  BY <1>1, <1>3 DEF EndInv, EndMeansAll
<1>7. ServerCursorReleased'
  <2>1. CASE CursorDestroy
    <3>1. CASE cursor.cursor_id # 0
      <4>1. ASSUME ~KillMayMiss(cursor, server)
            PROVE  select_hosts(server.cluster, FALSE) = {server.host}
        BY <1>2, <4>1, CursorConstants, Zenon
           DEF EndInv, Sound, Near, KillMayMiss, select_hosts, ServerType
      <4>2. ASSUME ~KillMayMiss(cursor, server), ~server'.faulty
            PROVE  server' = [server EXCEPT !.open = FALSE]
        BY <2>1, <3>1, <4>1, <4>2, <1>2
           DEF CursorDestroy, mongoc_cursor_destroy, Killed, Fault, ServerType
      <4> QED BY <1>1, <1>2, <1>3, <4>2 DEF ServerCursorReleased, KillMayMiss, ServerType
    <3>2. CASE cursor.cursor_id = 0
      BY <2>1, <3>2
         DEF CursorDestroy, mongoc_cursor_destroy, Killed, ServerCursorReleased, EndInv, Sound, Known
    <3> QED BY <3>1, <3>2
  <2>2. CASE ~CursorDestroy
    BY <1>1, <1>3, <2>2 DEF EndInv, ServerCursorReleased, KillMayMiss
  <2> QED BY <2>1, <2>2
<1>8. (handle = "unborn" => ~ended /\ ~server.open /\ server.host = Primary)'
  <2>1. CASE CursorDestroy
    BY <1>1, <2>1 DEF CursorDestroy
  <2>2. CASE ~CursorDestroy
    <3>1. (server'.open => server.open) /\ server'.host = server.host
      BY <1>2, <1>3, <2>2
         DEF Environment, ServerInsert, ServerDelete, ServerTimeout, cursorVars, ServerType
    <3> QED BY <1>1, <3>1 DEF EndInv
  <2> QED BY <2>1, <2>2
<1>9. (ended => Over(cursor))' /\ (cursor.done => cursor.failed \/ ended)'
  BY <1>1 DEF EndInv, Over
<1> QED BY <1>1, <1>4, <1>5, <1>6, <1>7, <1>8, <1>9 DEF EndInv

\* Every step keeps the invariant, and no step goes on after the end.
LEMMA EndNext ==
  HistoryInv /\ HistoryInv' /\ EndInv /\ [CursorNext]_cursorVars =>
    EndInv' /\ (ended => ended' /\ returned' = returned)
<1> SUFFICES ASSUME HistoryInv, HistoryInv', EndInv, [CursorNext]_cursorVars
             PROVE  EndInv' /\ (ended => ended' /\ returned' = returned)
  OBVIOUS
<1>1. ASSUME NEW limit \in UInt32, NEW skip \in 0..MaxSkip, NEW accepted \in BOOLEAN,
             CursorOpen(mongoc_collection_find(limit, skip, accepted))
      PROVE  EndInv' /\ ~ended
  <2>1. limit \in Nat /\ "find" \in Interfaces
    BY CursorConstants DEF UInt32, Word, Interfaces
  <2>2. CursorOpen(cursor_new("find", limit, skip, accepted))
    BY <1>1 DEF mongoc_collection_find
  <2> QED BY <2>1, <2>2, OpenEnds DEF CursorOpen, EndInv
<1>2. ASSUME NEW iface \in {"cursorid", "array"},
             CursorOpen(mongoc_collection_aggregate(iface))
      PROVE  EndInv' /\ ~ended
  <2>1. iface \in Interfaces /\ iface # "find"
    BY DEF Interfaces
  <2>2. CursorOpen(cursor_new(iface, 0, 0, TRUE))
    BY <1>2 DEF mongoc_collection_aggregate
  <2>3. EndInv'
    BY <2>1, <2>2, OpenEnds
  <2> QED BY <2>2, <2>3 DEF CursorOpen, EndInv
<1> QED BY <1>1, <1>2, AdvanceEnds, OthersEnd DEF CursorNext

\* Both invariants hold.
LEMMA EndInvHolds == CursorSpec => [](HistoryInv /\ EndInv)
<1>1. HistoryInv /\ EndInv /\ [CursorNext]_cursorVars => (HistoryInv /\ EndInv)'
  BY HistoryNext, EndNext
<1> QED BY <1>1, HistoryInit, EndInit, PTL DEF CursorSpec

(***************************************************************************)
(* The client alone enforces the limit, whatever the server sends and      *)
(* however often mongoc_cursor_next is called after the end, when count    *)
(* goes on and wraps.                                                      *)
(***************************************************************************)
THEOREM LimitRespectedHolds == CursorSpec => []LimitRespected
<1>1. HistoryInv /\ EndInv => LimitRespected
  BY DEF EndInv
<1> QED BY <1>1, EndInvHolds, PTL

(***************************************************************************)
(* A cursor that came to its end without an error has returned everything  *)
(* that was asked for, in order: neither an empty batch nor a reply that   *)
(* closes the server cursor early is taken for the end.                    *)
(***************************************************************************)
THEOREM EndMeansAllHolds == CursorSpec => []EndMeansAll
<1>1. HistoryInv /\ EndInv => EndMeansAll
  BY DEF EndInv
<1> QED BY <1>1, EndInvHolds, PTL

(***************************************************************************)
(* mongoc_cursor_destroy kills the server cursor, however early the cursor *)
(* is abandoned, unless the network failed, where the node a kill is sent  *)
(* to is the one the query went to: a direct connection, and a replica set *)
(* whose primary answers.  The client always has the id of a cursor that   *)
(* is open; it does not always tell the node that has it (KillMayMiss).    *)
(***************************************************************************)
THEOREM ServerCursorReleasedHolds == CursorSpec => []ServerCursorReleased
<1>1. HistoryInv /\ EndInv => ServerCursorReleased
  BY DEF EndInv
<1> QED BY <1>1, EndInvHolds, PTL

(***************************************************************************)
(* Once mongoc_cursor_next has returned false it never returns a document  *)
(* again: an action property, from the same invariant.                     *)
(***************************************************************************)
THEOREM NothingAfterEndHolds == CursorSpec => NothingAfterEnd
<1>1. HistoryInv /\ EndInv /\ HistoryInv' /\ [CursorNext]_cursorVars =>
        [ended => ended' /\ returned' = returned]_cursorVars
  BY EndNext
<1> QED BY <1>1, EndInvHolds, PTL DEF CursorSpec, NothingAfterEnd

-----------------------------------------------------------------------------
(* What one call adds to the documents that reached the client.            *)

\* Between s and t the server sent batch.
Sent(s, t, batch) == t.handed = s.handed \o batch

\* Outcome o of a call made with s: more may have been sent, and a call that
\* returns no document has brought none.
Sends(s, o) ==
  \E batch \in Seq(Doc) : Sent(s, o.srv, batch) /\ (o.doc = NoDoc => batch = << >>)

\* A call that leaves handed alone.
LEMMA SendsNothing ==
  ASSUME NEW s \in ServerType, NEW o, o.srv.handed = s.handed
  PROVE  Sends(s, o)
<1>1. << >> \in Seq(Doc) /\ s.handed \o << >> = s.handed
  BY EmptySeq, ConcatEmptySeq DEF ServerType
<1> QED BY <1>1 DEF Sends, Sent

\* What a failed RPC leaves behind was not sent to this client.
LEMMA FailureSends ==
  ASSUME NEW c \in CursorType, NEW s \in ServerType,
         NEW r \in {WarmUpFailed(c, s), Refused(c, s), Rpc(Failed(c), Fault(s), FALSE),
                    Rpc(Failed(c), Lost(c, s), FALSE)}
  PROVE  ~r.ok /\ r.srv.handed = s.handed
<1>1. ASSUME NEW t \in {Fault(s), [s EXCEPT !.open = FALSE], Lost(c, s)}
      PROVE  t.handed = s.handed
  BY DEF Fault, Lost, ServerType
<1>2. ~r.ok /\ r.srv \in {Fault(s), [s EXCEPT !.open = FALSE], Lost(c, s)}
  BY DEF WarmUpFailed, Refused, Rpc
<1> QED BY <1>1, <1>2

\* The reply to a query: its documents are where the cursor reads next.
LEMMA HostQuerySends ==
  ASSUME NEW c \in CursorType, NEW s \in ServerType, NEW r \in query_at_host(c, s)
  PROVE  /\ ~r.ok => r.srv.handed = s.handed
         /\ r.ok => \E batch \in Seq(Doc) :
              /\ Sent(s, r.srv, batch)
              /\ IF c.is_command THEN r.cur.first_batch = batch ELSE r.cur.docs = batch
<1>1. CASE \E q \in QueryReplies(c, s) :
             r = Rpc(Answered(c, Take(Found(c, s), q.size), q), Served(s, Found(c, s), q), TRUE)
  <2>1. PICK q \in QueryReplies(c, s) :
          r = Rpc(Answered(c, Take(Found(c, s), q.size), q), Served(s, Found(c, s), q), TRUE)
    BY <1>1
  <2> DEFINE batch == Take(Found(c, s), q.size)
  <2>2. q \in ReplyType(Found(c, s)) /\ Found(c, s) \in Seq(Doc)
    BY RepliesType
  <2>3. batch \in Seq(Doc)
    BY <2>2, ServedType
  <2>4. r.ok /\ r.cur = Answered(c, batch, q) /\ r.srv = Served(s, Found(c, s), q)
    BY <2>1 DEF Rpc
  <2>5. Sent(s, r.srv, batch)
    BY <2>4 DEF Sent, Served, ServerType
  <2> HIDE DEF batch
  <2>6. IF c.is_command THEN r.cur.first_batch = batch ELSE r.cur.docs = batch
    BY <2>4 DEF Answered, CursorType
  <2> QED BY <2>3, <2>4, <2>5, <2>6
<1>2. CASE r \in {WarmUpFailed(c, s), Refused(c, s), Rpc(Failed(c), Fault(s), FALSE),
                   Rpc(Failed(c), Lost(c, s), FALSE)}
  BY <1>2, FailureSends
<1> QED BY <1>1, <1>2 DEF query_at_host

LEMMA QuerySends ==
  ASSUME NEW c \in CursorType, NEW s \in ServerType, NEW r \in cursor_query(c, s)
  PROVE  /\ ~r.ok => r.srv.handed = s.handed
         /\ r.ok => \E batch \in Seq(Doc) :
              /\ Sent(s, r.srv, batch)
              /\ IF c.is_command THEN r.cur.first_batch = batch ELSE r.cur.docs = batch
<1>1. PICK h \in QueryHosts(c, s) : r \in query_at_host(c, AtHost(s, h))
  BY DEF cursor_query
<1>2. AtHost(s, h) \in ServerType /\ AtHost(s, h).handed = s.handed
  BY WhoAnswers, OnlyTheHost
<1>3. /\ ~r.ok => r.srv.handed = AtHost(s, h).handed
      /\ r.ok => \E batch \in Seq(Doc) :
           /\ Sent(AtHost(s, h), r.srv, batch)
           /\ IF c.is_command THEN r.cur.first_batch = batch ELSE r.cur.docs = batch
  BY <1>1, <1>2, HostQuerySends
<1>4. \A batch : Sent(AtHost(s, h), r.srv, batch) => Sent(s, r.srv, batch)
  BY <1>2 DEF Sent
<1> QED BY <1>2, <1>3, <1>4

\* The reply to a GET_MORE.
LEMMA GetMoreSends ==
  ASSUME NEW c \in CursorType, NEW s \in ServerType, NEW r \in cursor_get_more(c, s)
  PROVE  /\ ~r.ok => r.srv.handed = s.handed
         /\ r.ok => \E batch \in Seq(Doc) : Sent(s, r.srv, batch) /\ r.cur.docs = batch
<1>1. CASE \E q \in Replies(s.pending, n_return(c)) :
             r = Rpc(Continued(c, Take(s.pending, q.size), q), Served(s, s.pending, q), TRUE)
  <2>1. PICK q \in Replies(s.pending, n_return(c)) :
          r = Rpc(Continued(c, Take(s.pending, q.size), q), Served(s, s.pending, q), TRUE)
    BY <1>1
  <2> DEFINE batch == Take(s.pending, q.size)
  <2>2. q \in ReplyType(s.pending) /\ s.pending \in Seq(Doc)
    BY RepliesType DEF ServerType
  <2>3. batch \in Seq(Doc)
    BY <2>2, ServedType
  <2>4. r.ok /\ r.cur = Continued(c, batch, q) /\ r.srv = Served(s, s.pending, q)
    BY <2>1 DEF Rpc
  <2>5. Sent(s, r.srv, batch)
    BY <2>4 DEF Sent, Served, ServerType
  <2> HIDE DEF batch
  <2>6. r.cur.docs = batch
    BY <2>4 DEF Continued, CursorType
  <2> QED BY <2>3, <2>4, <2>5, <2>6
<1>2. CASE r \in {WarmUpFailed(c, s), Refused(c, s), Rpc(Failed(c), Fault(s), FALSE)}
  BY <1>2, FailureSends
<1> QED BY <1>1, <1>2 DEF cursor_get_more

\* Reading moves no document between the server and the client, and returns
\* none only when none is buffered.
LEMMA ReadSends ==
  ASSUME NEW c \in CursorType, NEW s
  PROVE  LET o == read_and_complete(c, s)
         IN  o.srv = s /\ (o.doc = NoDoc => c.docs = << >>)
<1>1. CASE c.docs # << >>
  <2>1. Head(c.docs) # NoDoc
    BY <1>1, HeadTailProperties, NoDocIsNoDocument DEF CursorType
  <2> QED BY <1>1, <2>1 DEF read_and_complete, Outcome
<1>2. CASE c.docs = << >>
  BY <1>2 DEF read_and_complete, Outcome
<1> QED BY <1>1, <1>2

\* _mongoc_cursor_next, outside the first batch.
LEMMA CursorNextSends ==
  ASSUME NEW c \in CursorType, NEW s \in ServerType, ~c.sent => ~c.is_command,
         NEW o \in cursor_next(c, s)
  PROVE  Sends(s, o)
<1>1. CASE o.srv = s
  BY <1>1, SendsNothing
<1>2. CASE \E r \in refill(c, s) :
             o = IF r.ok THEN read_and_complete(r.cur, r.srv) ELSE Outcome(r.cur, r.srv, NoDoc)
  <2> DEFINE waiting == [c EXCEPT !.end_of_event = TRUE]
  <2>1. PICK r \in refill(c, s) :
             o = IF r.ok THEN read_and_complete(r.cur, r.srv) ELSE Outcome(r.cur, r.srv, NoDoc)
    BY <1>2
  <2>2. waiting \in CursorType
    BY DEF CursorType
  <2>3. \/ ~c.sent /\ r \in cursor_query(c, s)
        \/ r \in cursor_get_more(waiting, s)
        \/ r = Rpc(c, s, TRUE)
    BY <2>1 DEF refill
  <2> HIDE DEF waiting
  <2>4. CASE r = Rpc(c, s, TRUE)
    <3>1. o.srv = s
      BY <2>1, <2>4, ReadSends DEF Rpc
    <3> QED BY <3>1, SendsNothing
  <2>5. CASE r # Rpc(c, s, TRUE)
    <3>1. r.cur \in CursorType /\ r.srv \in ServerType
      BY <2>2, <2>3, <2>5, QueryType, GetMoreType DEF RpcType
    <3>2. /\ ~r.ok => r.srv.handed = s.handed
          /\ r.ok => \E batch \in Seq(Doc) : Sent(s, r.srv, batch) /\ r.cur.docs = batch
      BY <2>2, <2>3, <2>5, QuerySends, GetMoreSends, ZenonT(40)
    <3>3. CASE ~r.ok
      <4>1. o.srv = r.srv
        BY <2>1, <3>3 DEF Outcome
      <4> QED BY <3>2, <3>3, <4>1, SendsNothing
    <3>4. CASE r.ok
      <4>1. o.srv = r.srv /\ (o.doc = NoDoc => r.cur.docs = << >>)
        BY <2>1, <3>1, <3>4, ReadSends
      <4> QED BY <3>2, <3>4, <4>1 DEF Sends
    <3> QED BY <3>3, <3>4
  <2> QED BY <2>4, <2>5
<1>3. o.srv = s \/ \E r \in refill(c, s) :
             o = IF r.ok THEN read_and_complete(r.cur, r.srv) ELSE Outcome(r.cur, r.srv, NoDoc)
  <2>1. read_and_complete(c, s).srv = s
    BY ReadSends
  <2> QED BY <2>1 DEF cursor_next, Outcome
<1> QED BY <1>1, <1>2, <1>3

\* Taking a document from the first batch.
LEMMA FirstBatchSends ==
  ASSUME NEW c \in CursorType, NEW s, c.first_batch # << >>
  PROVE  NextInFirstBatch(c, s).srv = s /\ NextInFirstBatch(c, s).doc # NoDoc
<1>1. Head(c.first_batch) # NoDoc
  BY HeadTailProperties, NoDocIsNoDocument DEF CursorType
<1> QED BY <1>1 DEF NextInFirstBatch, Outcome

\* The first batch of an aggregation, and what follows it.
LEMMA ProcessFirstBatchSends ==
  ASSUME NEW c \in CursorType, NEW s \in ServerType, c.sent,
         NEW o \in process_first_batch(c, s)
  PROVE  /\ Sends(s, o)
         /\ c.first_batch # << >> => o.srv = s /\ o.doc # NoDoc
<1>1. CASE c.first_batch # << >>
  <2>1. o.srv = s /\ o.doc # NoDoc
    BY <1>1, FirstBatchSends DEF process_first_batch
  <2> QED BY <2>1, SendsNothing
<1>2. CASE c.first_batch = << >>
  <2> DEFINE over == [c EXCEPT !.in_first_batch = FALSE, !.end_of_event = TRUE]
             last == [over EXCEPT !.done = TRUE]
  <2>1. o = Outcome(last, s, NoDoc) \/ o \in cursor_next(over, s)
    BY <1>2 DEF process_first_batch
  <2>2. over \in CursorType /\ over.sent
    BY DEF CursorType
  <2> HIDE DEF over, last
  <2>3. CASE o = Outcome(last, s, NoDoc)
    BY <1>2, <2>3, SendsNothing DEF Outcome
  <2>4. CASE o \in cursor_next(over, s)
    BY <1>2, <2>2, <2>4, CursorNextSends
  <2> QED BY <1>2, <2>1, <2>3, <2>4
<1> QED BY <1>1, <1>2

\* The three interfaces.
LEMMA IfaceNextSends ==
  ASSUME NEW ret \in Seq(Doc), NEW c \in CursorType, NEW s \in ServerType,
         Shape(c), History(ret, c, s), c.iface = "array" /\ c.sent => c.in_first_batch,
         NEW o \in iface_next(c, s)
  PROVE  Sends(s, o)
<1>1. c.iface \in {"find", "cursorid", "array"}
  BY DEF CursorType, Interfaces
<1>2. CASE c.iface = "find"
  <2>1. ~c.is_command /\ o \in cursor_next(c, s)
    BY <1>2 DEF Shape, iface_next
  <2> QED BY <2>1, CursorNextSends
<1>3. ASSUME c.iface # "find", ~c.in_first_batch, ~c.sent, NEW r \in cursor_query(c, s)
      PROVE  /\ r.cur \in CursorType /\ r.srv \in ServerType /\ (r.ok => r.cur.sent)
             /\ ~r.ok => r.srv.handed = s.handed
             /\ r.ok => \E batch \in Seq(Doc) :
                          Sent(s, r.srv, batch) /\ r.cur.first_batch = batch
  <2>1. c.docs = << >> /\ c.is_command
    BY <1>1, <1>3 DEF Shape
  <2>2. r.cur \in CursorType /\ r.srv \in ServerType
    BY <1>3, QueryType DEF RpcType
  <2>3. r.ok => r.cur.sent
    BY <1>3, <2>1, QueryKeeps
  <2> QED BY <1>3, <2>1, <2>2, <2>3, QuerySends
<1>4. CASE c.iface = "cursorid"
  <2>1. o \in cursorid_next(c, s)
    BY <1>4 DEF iface_next
  <2>2. CASE c.in_first_batch
    <3>1. c.sent
      BY <2>2 DEF Shape
    <3> QED BY <2>1, <2>2, <3>1, ProcessFirstBatchSends DEF cursorid_next
  <2>3. CASE ~c.in_first_batch /\ c.sent
    BY <2>1, <2>3, CursorNextSends DEF cursorid_next
  <2>4. CASE ~c.in_first_batch /\ ~c.sent
    <3>1. PICK r \in cursor_query(c, s) :
            o \in IF r.ok THEN process_first_batch(r.cur, r.srv)
                  ELSE {Outcome(r.cur, r.srv, NoDoc)}
      BY <2>1, <2>4 DEF cursorid_next
    <3>2. CASE ~r.ok
      BY <1>3, <1>4, <2>4, <3>1, <3>2, SendsNothing DEF Outcome
    <3>3. CASE r.ok
      <4>1. PICK batch \in Seq(Doc) : Sent(s, r.srv, batch) /\ r.cur.first_batch = batch
        BY <1>3, <1>4, <2>4, <3>3
      <4>2. /\ r.cur \in CursorType /\ r.srv \in ServerType /\ r.cur.sent
            /\ o \in process_first_batch(r.cur, r.srv)
        BY <1>3, <1>4, <2>4, <3>1, <3>3
      <4>3. /\ Sends(r.srv, o)
            /\ batch # << >> => o.srv = r.srv /\ o.doc # NoDoc
        BY <4>1, <4>2, ProcessFirstBatchSends
      <4>4. CASE batch # << >>
        BY <4>1, <4>3, <4>4 DEF Sends
      <4>5. CASE batch = << >>
        <5>1. r.srv.handed = s.handed
          BY <4>1, <4>5, ConcatEmptySeq DEF Sent, ServerType
        <5> QED BY <4>3, <5>1 DEF Sends, Sent
      <4> QED BY <4>4, <4>5
    <3> QED BY <3>2, <3>3
  <2> QED BY <2>2, <2>3, <2>4
<1>5. CASE c.iface = "array"
  <2>1. o \in array_next(c, s)
    BY <1>5 DEF iface_next
  <2>2. CASE c.in_first_batch
    <3>1. o.srv = s
      BY <2>1, <2>2, FirstBatchSends DEF array_next, Outcome
    <3> QED BY <3>1, SendsNothing
  <2>3. CASE ~c.in_first_batch
    <3>1. ~c.sent
      BY <1>5, <2>3
    <3>2. PICK r \in cursor_query(c, s) :
            o = IF r.ok /\ r.cur.first_batch # << >> THEN NextInFirstBatch(r.cur, r.srv)
                ELSE Outcome(r.cur, r.srv, NoDoc)
      BY <2>1, <2>3 DEF array_next
    <3>3. CASE ~r.ok
      BY <1>3, <1>5, <2>3, <3>1, <3>2, <3>3, SendsNothing DEF Outcome
    <3>4. CASE r.ok
      <4>1. PICK batch \in Seq(Doc) : Sent(s, r.srv, batch) /\ r.cur.first_batch = batch
        BY <1>3, <1>5, <2>3, <3>1, <3>4
      <4>2. r.cur \in CursorType
        BY <1>3, <1>5, <2>3, <3>1
      <4>3. o.srv = r.srv /\ (o.doc = NoDoc => batch = << >>)
        BY <3>2, <3>4, <4>1, <4>2, FirstBatchSends DEF Outcome
      <4> QED BY <4>1, <4>3 DEF Sends
    <3> QED BY <3>3, <3>4
  <2> QED BY <2>2, <2>3
<1> QED BY <1>1, <1>2, <1>4, <1>5

\* The public call: what reached the client only grows, and grows only with a
\* call that returns a document.
LEMMA AdvanceSends ==
  ASSUME HistoryInv, EndInv, NEW b, CursorAdvance(b)
  PROVE  \E batch \in Seq(Doc) :
           Sent(server, server', batch) /\ (b = NoDoc => batch = << >>)
<1>1. /\ returned \in Seq(Doc) /\ cursor \in CursorType /\ server \in ServerType
      /\ Shape(cursor) /\ History(returned, cursor, server) /\ Stage(cursor)
  BY DEF HistoryInv, CursorTypeOK, EndInv, Sound, NoLossNoReorder, History
<1>2. PICK o \in mongoc_cursor_next(cursor, server) : o.doc = b /\ server' = o.srv
  BY DEF CursorAdvance
<1>3. Sends(server, o)
  <2>1. CASE cursor.failed
    BY <1>1, <1>2, <2>1, SendsNothing DEF mongoc_cursor_next, Outcome
  <2>2. CASE ~cursor.failed
    <3>1. PICK q \in iface_next(cursor, server) : o = [q EXCEPT !.cur.count = (@ + 1) % Word]
      BY <2>2 DEF mongoc_cursor_next
    <3>2. q \in OutcomeType
      BY <1>1, IfaceNextType
    <3>3. o.doc = q.doc /\ o.srv = q.srv
      BY <3>1, <3>2 DEF OutcomeType
    <3>4. Sends(server, q)
      BY <1>1, <2>2, IfaceNextSends DEF Stage
    <3> QED BY <3>3, <3>4 DEF Sends
  <2> QED BY <2>1, <2>2
<1> QED BY <1>2, <1>3 DEF Sends
=============================================================================
