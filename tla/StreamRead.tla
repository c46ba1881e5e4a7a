----------------------------- MODULE StreamRead -----------------------------
(***************************************************************************)
(* Reading from a server: a mongoc_buffer_t (rpc) that the cluster fills   *)
(* with mongoc_buffer_append_from_stream, over the buffered stream the     *)
(* client puts on every connection (mongoc-stream-buffered.c, with a       *)
(* mongoc_buffer_t of its own, buf), over a base stream: a socket, a file  *)
(* or TLS on a socket.  A call is started by one step, and every recv(),   *)
(* read() or BIO_read() of the base stream is another, so that the peer    *)
(* and the clock move between them.                                        *)
(*                                                                         *)
(* The peer's bytes are 1, 2, ..., in order; 0 is memory nothing was read  *)
(* into.  Every read of the base stream has one iovec, as the comment of   *)
(* _mongoc_stream_socket_readv says.  OpenSSL is external: it hands on the *)
(* bytes it is given.                                                      *)
(***************************************************************************)
EXTENDS PowersOfTwo, Integers, Sequences

CONSTANTS
  StreamKinds,       \* the base streams tried, among "socket", "file" and "tls"
  Total,       \* the number of bytes the peer has to send
  BufferSize,  \* the buffer_size of mongoc_stream_buffered_new
  RpcSize,     \* the buflen of the cluster's buffer
  Sizes,       \* the sizes a caller asks for
  Timeouts     \* "forever" (timeout_msec = -1) and "finite" (not negative)

ASSUME StreamAssumption ==
  /\ StreamKinds \subseteq {"socket", "file", "tls"} /\ Total \in Nat
  /\ {BufferSize, RpcSize} \subseteq Nat \ {0}
  /\ Sizes \subseteq Nat \ {0} /\ Timeouts \subseteq {"forever", "finite"}
  /\ \A n \in Sizes : \E p \in Powers : Total + n <= p

VARIABLES
  kind,   \* the base stream
  net,    \* what the peer delivered, whether it closed, what was taken, and
          \* whether this side still has its descriptor
  buf,    \* the buffered stream's mongoc_buffer_t
  rpc,    \* the caller's mongoc_buffer_t
  pending,   \* the call under way, and what the last one returned
  read,   \* every byte handed to the caller
  reply,  \* those appended to rpc since it was last cleared
  failed  \* whether a call has failed since the streams were made

streamVars == <<kind, net, buf, rpc, pending, read, reply, failed>>

ByteNumbers == 0 .. Total

(***************************************************************************)
(* mongoc-buffer.c                                                         *)
(***************************************************************************)
buffer_init(size) == [data |-> [i \in 0 .. size - 1 |-> 0],
                      datalen |-> size, off |-> 0, len |-> 0]

Contents(b) == [i \in 1 .. b.len |-> b.data[b.off + i - 1]]

SPACE_FOR(b, size) == b.datalen - b.off - b.len >= size

Compacted(b) ==
  [b EXCEPT !.data = [i \in DOMAIN b.data |->
                        IF i < b.len THEN b.data[b.off + i] ELSE b.data[i]],
            !.off = 0]

Resized(b, size) ==
  [b EXCEPT !.datalen = size,
            !.data = [i \in 0 .. size - 1 |->
                        IF i < b.datalen THEN b.data[i] ELSE 0]]

\* Bytes written behind the contents, whose length the caller adds later.
Appended(b, s) ==
  [b EXCEPT !.data = [i \in DOMAIN b.data |->
                        IF i - b.off - b.len \in 0 .. Len(s) - 1
                        THEN s[i - b.off - b.len + 1] ELSE b.data[i]]]

Longer(b, n) == [b EXCEPT !.len = @ + n]

\* mongoc_buffer_append_from_stream makes room before it reads.
append_room(b, size) ==
  LET c == Compacted(b)
  IN  IF SPACE_FOR(b, size) THEN b
      ELSE IF SPACE_FOR(c, size) THEN c
      ELSE Resized(c, next_power_of_two(size + c.len + c.off))

\* Mutant: the contents are not moved before the offset is reset.
NoMemmove(b, min) ==
  LET c == [b EXCEPT !.off = 0]
  IN  IF SPACE_FOR(c, min) THEN c ELSE Resized(c, next_power_of_two(c.len + min))

\* _mongoc_buffer_fill makes room for min_bytes, the minimum that is missing.
fill_room(b, min) ==
  LET c == Compacted(b)
  IN  IF SPACE_FOR(c, min) THEN c ELSE Resized(c, next_power_of_two(c.len + min))

\* The first n bytes of a buffer are copied out.
Taken(b, n) == [b EXCEPT !.off = @ + n, !.len = @ - n]

buffer_clear(b) == [b EXCEPT !.off = 0, !.len = 0]

-----------------------------------------------------------------------------
NoRead(ret) == [op |-> "idle", size |-> 0, min |-> 0, got |-> <<>>,
              timeout |-> "finite", past |-> FALSE, ret |-> ret]

StreamInit ==
  /\ kind \in StreamKinds
  /\ net \in IF kind = "file"
             THEN [delivered : 0 .. Total, closed : {TRUE}, reset : {FALSE},
                   taken : {0}, open : {TRUE}]
             ELSE {[delivered |-> 0, closed |-> FALSE, reset |-> FALSE,
                    taken |-> 0, open |-> TRUE]}
  /\ buf = buffer_init(BufferSize)
  /\ rpc = buffer_init(RpcSize)
  /\ pending = NoRead(0)
  /\ read = <<>>
  /\ reply = <<>>
  /\ failed = FALSE

(***************************************************************************)
(* The environment: the peer sends, shuts down or resets the connection,   *)
(* and the deadline of the call passes.                                    *)
(***************************************************************************)
Arrive ==
  /\ ~net.closed /\ ~net.reset /\ net.delivered < Total
  /\ net' = [net EXCEPT !.delivered = @ + 1]
  /\ UNCHANGED <<kind, buf, rpc, pending, read, reply, failed>>

PeerCloses ==
  /\ ~net.closed /\ ~net.reset
  /\ \/ net' = [net EXCEPT !.closed = TRUE]
     \/ net' = [net EXCEPT !.reset = TRUE]
  /\ UNCHANGED <<kind, buf, rpc, pending, read, reply, failed>>

TimeoutPasses ==
  /\ pending.op # "idle" /\ pending.timeout = "finite" /\ ~pending.past
  /\ pending' = [pending EXCEPT !.past = TRUE]
  /\ UNCHANGED <<kind, net, buf, rpc, read, reply, failed>>

(***************************************************************************)
(* The end of a call.  mongoc_stream_buffered_readv copies what was asked  *)
(* for out of its buffer; append_from_stream puts it behind the contents   *)
(* of the caller's.                                                        *)
(***************************************************************************)
Handed(op, b, n) ==
  LET s == [i \in 1 .. n |-> b.data[b.off + i - 1]]
  IN  /\ buf' = Taken(b, n)
      /\ read' = read \o s
      /\ rpc' = IF op = "append" THEN Longer(Appended(append_room(rpc, n), s), n) ELSE rpc
      /\ reply' = IF op = "append" THEN reply \o s ELSE reply
      /\ pending' = NoRead(n)
      /\ UNCHANGED <<kind, failed>>

ReadFails(op, b, n) ==
  /\ buf' = b
  /\ rpc' = IF op = "append" THEN append_room(rpc, n) ELSE rpc
  /\ pending' = NoRead(-1)
  /\ failed' = TRUE
  /\ UNCHANGED <<kind, read, reply>>

\* The assertion of mongoc_stream_buffered_readv.
Aborts == /\ pending' = [NoRead(-1) EXCEPT !.op = "aborted"]
          /\ UNCHANGED <<kind, buf, rpc, read, reply, failed>>

\* What _mongoc_buffer_fill does when the base stream's read returned r,
\* having written got behind the contents.
buffer_fill(r, got) ==
  LET stored == Appended(buf, got)
      b == Longer(stored, r)
  IN  IF r = -1 THEN ReadFails(pending.op, stored, pending.size)
      ELSE IF b.len < pending.min THEN ReadFails(pending.op, b, pending.size)
      ELSE IF b.len < pending.size THEN Aborts
      ELSE Handed(pending.op, b, pending.size)

\* mongoc_buffer_append_from_stream and mongoc_stream_buffered_readv of n
\* bytes: from the buffer when it has them, else from the base stream.
Start(op, n, timeout) ==
  /\ pending.op = "idle"
  /\ IF n <= buf.len
     THEN Handed(op, buf, n)
     ELSE /\ buf' = fill_room(buf, n - buf.len)
          /\ pending' = [op |-> op, size |-> n, min |-> n - buf.len, got |-> <<>>,
                      timeout |-> timeout, past |-> FALSE, ret |-> 0]
          /\ UNCHANGED <<kind, rpc, read, reply, failed>>
  /\ UNCHANGED net

append_from_stream(n, timeout) == Start("append", n, timeout)

buffered_readv(n, timeout) == Start("readv", n, timeout)

\* _mongoc_buffer_clear, between two replies.
clear ==
  /\ pending.op = "idle" /\ rpc.len > 0
  /\ rpc' = buffer_clear(rpc)
  /\ reply' = <<>>
  /\ UNCHANGED <<kind, net, buf, pending, read, failed>>

\* mongoc_stream_buffered_close closes the base stream's descriptor.
buffered_close ==
  /\ pending.op = "idle" /\ net.open
  /\ net' = [net EXCEPT !.open = FALSE]
  /\ UNCHANGED <<kind, buf, rpc, pending, read, reply, failed>>

-----------------------------------------------------------------------------
Reading == pending.op \in {"append", "readv"}

Want == buf.datalen - buf.len - Len(pending.got)   \* avail_bytes still unread

Available == net.delivered - net.taken

\* k bytes come out of the kernel.
Got(k) == pending.got \o [i \in 1 .. k |-> net.taken + i]

Receives(k) ==
  /\ net.open /\ ~net.reset
  /\ net' = [net EXCEPT !.taken = @ + k]

\* recv() has nothing to give: the peer closed, the connection is broken, the
\* descriptor is closed, or poll() came back at the deadline.
NoByte ==
  /\ UNCHANGED net
  /\ ~net.open \/ net.reset \/ (Available = 0 /\ (net.closed \/ pending.past))

Continues(got) ==
  /\ pending' = [pending EXCEPT !.got = got]
  /\ UNCHANGED <<kind, buf, rpc, read, reply, failed>>

\* One turn of _mongoc_stream_socket_readv.
socket_readv ==
  /\ kind = "socket"
  /\ \/ \E k \in 1 .. Want :
          /\ k <= Available
          /\ Receives(k)
          /\ IF Len(Got(k)) >= pending.min THEN buffer_fill(Len(Got(k)), Got(k))
             ELSE Continues(Got(k))
     \/ /\ NoByte
        /\ buffer_fill(IF Len(pending.got) >= pending.min THEN Len(pending.got) ELSE -1, pending.got)

\* _mongoc_stream_file_readv: one readv() of the descriptor, whatever it gives.
file_readv ==
  /\ kind = "file"
  /\ \/ \E k \in 1 .. Want :
          k <= Available /\ Receives(k) /\ buffer_fill(k, Got(k))
     \/ Available = 0 /\ net.open /\ UNCHANGED net /\ buffer_fill(0, <<>>)
     \/ UNCHANGED net /\ buffer_fill(-1, <<>>)

\* _mongoc_stream_tls_bio_read reads with min_bytes = 0, so that the socket
\* answers 0 for an end of the stream, an error and a timeout alike.
bio_read_zero == NoByte

\* One turn of _mongoc_stream_tls_readv: when nothing comes, only a deadline
\* ends the loop.
tls_readv ==
  /\ kind = "tls"
  /\ \/ \E k \in 1 .. Want :
          /\ k <= Available
          /\ Receives(k)
          /\ IF Len(Got(k)) >= pending.min THEN buffer_fill(Len(Got(k)), Got(k))
             ELSE Continues(Got(k))
     \/ bio_read_zero /\ pending.past /\ buffer_fill(-1, pending.got)
     \/ bio_read_zero /\ ~pending.past /\ UNCHANGED streamVars       \* reads again at once

\* BIO_read answers -1: the peer does not speak TLS as it should.
ProtocolError ==
  /\ Reading /\ kind = "tls"
  /\ UNCHANGED net
  /\ buffer_fill(-1, pending.got)

StreamTurn == Reading /\ (socket_readv \/ file_readv \/ tls_readv)

StreamNext ==
  \/ Arrive \/ PeerCloses \/ TimeoutPasses
  \/ \E n \in Sizes, t \in Timeouts : append_from_stream(n, t) \/ buffered_readv(n, t)
  \/ clear \/ buffered_close
  \/ StreamTurn \/ ProtocolError

StreamSpec == StreamInit /\ [][StreamNext]_streamVars

(***************************************************************************)
(* A call that is under way runs, and a deadline passes.  Nothing is asked *)
(* of the peer, which may send nothing and never close.                    *)
(***************************************************************************)
StreamFairness == WF_streamVars(StreamTurn) /\ WF_streamVars(TimeoutPasses)

-----------------------------------------------------------------------------
BufferTypeOK(b) ==
  /\ b.datalen \in Nat \ {0} /\ b.off \in Nat /\ b.len \in Nat
  /\ b.data \in [0 .. b.datalen - 1 -> ByteNumbers]

\* The type invariant: two buffers, a connection and a call.
StreamTypeOK ==
  /\ kind \in StreamKinds
  /\ net \in [delivered : 0 .. Total, closed : BOOLEAN, reset : BOOLEAN,
              taken : 0 .. Total, open : BOOLEAN]
  /\ BufferTypeOK(buf) /\ BufferTypeOK(rpc)
  /\ pending.op \in {"idle", "append", "readv", "aborted"}
  /\ pending.ret \in Int /\ pending.size \in Nat /\ pending.min \in Nat
  /\ pending.past \in BOOLEAN /\ failed \in BOOLEAN

\* The contents of both buffers stay within their allocation, over every order
\* of appends, compactions, growth and clears (mongoc-buffer.c).
ContentsFit ==
  \A b \in {buf, rpc} : b.off + b.len <= b.datalen

\* As long as no call has failed the caller's bytes, followed by those that
\* wait in the buffer, are those taken from the connection, each one once and
\* in the order the peer sent them (_mongoc_buffer_fill moves its contents,
\* mongoc_stream_buffered_readv consumes them).
NothingLostOrRepeated ==
  pending.op = "idle" /\ ~failed =>
    read \o Contents(buf) = [i \in 1 .. net.taken |-> i]

\* The caller's buffer holds the bytes appended since it was cleared, in their
\* order, also after calls that failed between two appends
\* (mongoc_buffer_append_from_stream adds to the length on success only).
ReplyIntact ==
  pending.op # "aborted" => Contents(rpc) = reply

\* Over a socket and over TLS, whose reads return the minimum or -1, the
\* assertion of mongoc_stream_buffered_readv holds at every end of a fill.
AssertionHolds ==
  kind # "file" => pending.op # "aborted"

\* A call with a deadline ends, whatever the peer does.
CallsEnd ==
  (pending.op \in {"append", "readv"} /\ pending.timeout = "finite")
     ~> (pending.op \in {"idle", "aborted"})

\* The two buffers between the connection and the caller: nothing lost,
\* repeated, reordered or outside, in whatever portions the bytes come.
BytesInOrder ==
  /\ StreamTypeOK /\ ContentsFit
  /\ NothingLostOrRepeated /\ ReplyIntact /\ AssertionHolds
=============================================================================
