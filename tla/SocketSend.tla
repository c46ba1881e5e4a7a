----------------------------- MODULE SocketSend -----------------------------
(***************************************************************************)
(* One call of mongoc_socket_sendv on a connected, non-blocking socket     *)
(* (mongoc-socket.c), one turn of its loop, or one send() of its slow      *)
(* path, per step.  The message's bytes are 1, 2, ..., N, cut into the     *)
(* buffers of an iovec; the wire is what the kernel accepted, in order.    *)
(***************************************************************************)
EXTENDS Sums, Integers, Sequences, FiniteSetsExt

CONSTANTS
  MaxBuffers,  \* the most buffers of an iovec
  MaxLength,   \* the most bytes of a buffer
  MaxSlow,     \* bound: how often one call takes the slow path
  Expiry       \* "never" (-1), "now" (0) or "later" (a time on the clock)

ASSUME SendAssumption ==
  /\ {MaxBuffers, MaxLength} \subseteq Nat \ {0} /\ MaxSlow \in Nat
  /\ Expiry \subseteq {"never", "now", "later"}

VARIABLES
  msg,     \* the iovec as the caller passed it
  iov,     \* the iovec as sendv left it: [base, len] of every buffer
  cur,     \* the first buffer not yet sent completely
  ret,     \* the bytes counted so far
  wire,    \* the bytes the kernel took
  errno,   \* sock->errno_ and errno: "none", "again", "broken", "size", "timedout"
  expire,  \* expire_at, and whether the clock has passed it
  sending,      \* "try", "slow", "sent", "wait" or "done"
  slow,    \* the slow path: how often it was taken, the buffer it has reached
  result   \* what mongoc_socket_sendv returned

sendVars == <<msg, iov, cur, ret, wire, errno, expire, sending, slow, result>>

\* The messages: iovecs, as sequences of the lengths of their buffers.
Messages == UNION {[1 .. n -> 0 .. MaxLength] : n \in 1 .. MaxBuffers}

\* The iovec of a message: where its buffers start, and how long they are.
Buffers(m) == [i \in DOMAIN m |-> [base |-> SumsOf(m)[i - 1], len |-> m[i]]]

\* The bytes from base, as far as len.
Piece(base, len) == [i \in 1 .. len |-> base + i]

\* The lengths of the buffers that are left of an iovec, and how many bytes
\* there are up to the end of buffer i.
Lens == [i \in 1 .. Len(iov) - cur + 1 |-> iov[cur + i - 1].len]
Sent(i) == SumsOf(Lens)[i - cur + 1]

\* The bytes that are left, in order: byte j is in the first buffer that ends
\* there or later.
Left ==
  [j \in 1 .. SumOf(Lens) |->
     LET i == Min({k \in cur .. Len(iov) : Sent(k) >= j})
     IN  iov[i].base + j - Sent(i - 1)]

SendInit ==
  /\ msg \in Messages
  /\ iov = Buffers(msg)
  /\ cur = 1 /\ ret = 0 /\ wire = <<>> /\ errno = "none"
  /\ \E e \in Expiry : expire = [at |-> e, past |-> e = "now"]
  /\ sending = "try"
  /\ slow = [times |-> 0, i |-> 1]
  /\ result = 0

DeadlinePasses ==
  /\ expire.at = "later" /\ ~expire.past /\ sending # "done"
  /\ expire' = [expire EXCEPT !.past = TRUE]
  /\ UNCHANGED <<msg, iov, cur, ret, wire, errno, sending, slow, result>>

SendReturn(r) == sending' = "done" /\ result' = r

OrFailed(r) == IF r # 0 THEN r ELSE -1

(***************************************************************************)
(* What the loop does with the bytes one sendmsg() accepted: it counts     *)
(* them, steps over the buffers they fill, and shortens the next one.      *)
(***************************************************************************)
\* Mutant: the buffer that was sent in part is sent again from its start.
SkipWholeOnly(n) ==
  LET next == Min({i \in cur .. Len(iov) : Sent(i) > n} \cup {Len(iov) + 1})
  IN  /\ cur' = next
      /\ ret' = ret + n
      /\ iov' = iov

Advance(n) ==
  LET next == Min({i \in cur .. Len(iov) : Sent(i) > n} \cup {Len(iov) + 1})
      rest == n - Sent(next - 1)
  IN  /\ cur' = next
      /\ ret' = ret + n
      /\ iov' = IF next > Len(iov) THEN iov
                ELSE [iov EXCEPT ![next] = [base |-> @.base + rest, len |-> @.len - rest]]

\* sendmsg() accepts n of the bytes that are left.
Accepted(n) ==
  /\ wire' = wire \o SubSeq(Left, 1, n)
  /\ Advance(n)
  /\ IF cur' > Len(iov) THEN SendReturn(ret') ELSE sending' = "wait" /\ UNCHANGED result
  /\ UNCHANGED <<errno, slow>>

\* sendmsg() accepts nothing: an error ends the call, and so does the deadline.
Refused(e) ==
  /\ errno' = IF e # "broken" /\ expire.past THEN "timedout" ELSE e
  /\ IF e = "broken" \/ expire.past THEN SendReturn(OrFailed(ret))
     ELSE sending' = "wait" /\ UNCHANGED result
  /\ UNCHANGED <<iov, cur, ret, wire, slow>>

\* _mongoc_socket_try_sendv, and what mongoc_socket_sendv makes of its result.
\* An iovec of more buffers than sendmsg() takes is sent by the slow path.
socket_try_sendv ==
  /\ sending = "try"
  /\ \/ \E n \in 1 .. Len(Left) : Accepted(n)
     \/ Left = <<>> /\ Refused(errno)   \* nothing to send: 0 bytes
     \/ \E e \in {"again", "broken"} : Refused(e)
     \/ /\ sending' = "slow"
        /\ errno' = "size"
        /\ slow.times < MaxSlow
        /\ slow' = [times |-> slow.times + 1, i |-> cur]
        /\ UNCHANGED <<iov, cur, ret, wire, result>>
  /\ UNCHANGED <<msg, expire>>

\* One send() of _mongoc_socket_try_sendv_slow, whose result its caller drops:
\* _mongoc_socket_try_sendv returns the -1 of sendmsg() all the same.
try_sendv_slow ==
  /\ sending = "slow"
  /\ \/ \E n \in 0 .. iov[slow.i].len :
          /\ n > 0 \/ iov[slow.i].len = 0
          /\ wire' = wire \o Piece(iov[slow.i].base, n)
          /\ slow' = [slow EXCEPT !.i = @ + 1]
          /\ IF n = iov[slow.i].len /\ slow.i < Len(iov)
             THEN sending' = "slow" /\ UNCHANGED <<errno, result>>
             ELSE SendReturn(OrFailed(ret)) /\ UNCHANGED errno   \* errno is "size"
     \/ /\ errno' = "broken" /\ SendReturn(OrFailed(ret))
        /\ UNCHANGED <<wire, slow>>
     \/ /\ IF expire.past THEN errno' = "timedout" /\ SendReturn(OrFailed(ret))
           ELSE errno' = "again" /\ sending' = "wait" /\ UNCHANGED result
        /\ UNCHANGED <<wire, slow>>
  /\ UNCHANGED <<msg, iov, cur, ret, expire>>

\* _mongoc_socket_wait: poll() says that the socket takes bytes again, or it
\* fails, is interrupted, sees an error alone or reaches the deadline.
socket_wait ==
  /\ sending = "wait"
  /\ \/ sending' = "try" /\ UNCHANGED <<errno, result>>
     \/ /\ errno' = IF ret = 0 THEN "timedout" ELSE errno
        /\ SendReturn(OrFailed(ret))
  /\ UNCHANGED <<msg, iov, cur, ret, wire, expire, slow>>

SendNext == DeadlinePasses \/ socket_try_sendv \/ try_sendv_slow \/ socket_wait

SendSpec == SendInit /\ [][SendNext]_sendVars

-----------------------------------------------------------------------------
\* The type invariant: the iovec stays within the message.
SendTypeOK ==
  /\ cur \in 1 .. Len(iov) + 1 /\ ret \in 0 .. SumOf(msg)
  /\ DOMAIN iov = DOMAIN msg
  /\ \A i \in DOMAIN iov : iov[i].base \in Nat /\ iov[i].len \in Nat
  /\ sending \in {"try", "slow", "wait", "done"}
  /\ result \in -1 .. SumOf(msg)

\* However often the kernel takes only part of the buffers, the wire carries
\* the message from its start, no byte twice and none left out, as long as
\* sendmsg() takes the iovec (the loop of mongoc_socket_sendv).
WireIsPrefix ==
  slow.times = 0 => wire = Piece(0, Len(wire))

\* What sendv returns is what the wire has, -1 standing for nothing, wherever
\* the loop stopped: a caller that compares it with the length of its message
\* knows how much of it the server can have seen.
ResultCounts ==
  sending = "done" /\ slow.times = 0 =>
    result = IF wire = <<>> THEN -1 ELSE Len(wire)

\* A dead connection is not tried again: once an error other than "try again"
\* was seen, the call is over (the comment at the top of the loop).
BrokenEnds ==
  errno = "broken" => sending = "done"

\* The loop of mongoc_socket_sendv: what is on the wire is what it reports,
\* wherever the kernel cut it and however it ended.
SentAsCounted == SendTypeOK /\ WireIsPrefix /\ ResultCounts /\ BrokenEnds
=============================================================================
