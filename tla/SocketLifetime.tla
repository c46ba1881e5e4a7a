--------------------------- MODULE SocketLifetime ---------------------------
(***************************************************************************)
(* The descriptors behind the driver's streams: how the client's stream    *)
(* initiator makes them (mongoc-client.c over mongoc-socket.c, TLS and the *)
(* buffered stream), how file streams do, and how close and destroy give   *)
(* them back to the kernel, while other threads of the process open files. *)
(* The kernel hands out the lowest free number, so that a number that was  *)
(* closed soon names something else.                                       *)
(***************************************************************************)
EXTENDS Integers, FiniteSets, FiniteSetsExt

CONSTANTS
  Conns,      \* the streams an application makes
  Fds,        \* the descriptor numbers of the process, from 0
  MaxAddrs    \* the most addresses a name resolves to

ASSUME LifetimeAssumption ==
  /\ IsFiniteSet(Fds) /\ Fds = 0 .. Cardinality(Fds) - 1 /\ MaxAddrs \in Nat \ {0}
  /\ {"free", "other"} \cap Conns = {}

VARIABLES
  table,   \* the kernel's: what a descriptor is open for
  conn,    \* a stream of the driver: how far it is, and the sd it holds
  stolen,  \* whether a close() hit a descriptor of someone else
  odd      \* the failures met that the properties tell apart

lifetimeVars == <<table, conn, stolen, odd>>

NoFd == -1

Fresh == [stage |-> "none", type |-> "socket", sd |-> NoFd, addrs |-> 0]

LifetimeInit ==
  /\ table = [f \in Fds |-> "free"]
  /\ conn = [c \in Conns |-> Fresh]
  /\ stolen = FALSE
  /\ odd = {}

Free == {f \in Fds : table[f] = "free"}

\* socket(), open() and accept() take the lowest free number.
Opened(c) == table' = [table EXCEPT ![Min(Free)] = c]

\* Another thread opens and closes files of its own.
OtherOpens ==
  /\ Free # {} /\ Opened("other")
  /\ UNCHANGED <<conn, stolen, odd>>

OtherCloses ==
  /\ \E f \in Fds : table[f] = "other" /\ table' = [table EXCEPT ![f] = "free"]
  /\ UNCHANGED <<conn, stolen, odd>>

\* close() by stream c: the number is free again, whoever it belonged to, also
\* when close() was interrupted and answers -1.
Close(c, fd) ==
  /\ table' = [table EXCEPT ![fd] = "free"]
  /\ stolen' = (stolen \/ table[fd] \notin {c, "free"})

NoClose == UNCHANGED <<table, stolen>>

(***************************************************************************)
(* mongoc_client_default_stream_initiator, mongoc_client_connect_tcp       *)
(***************************************************************************)
\* getaddrinfo answers with n addresses, or fails: NULL and an error.
connect_tcp(c) ==
  /\ conn[c].stage = "none"
  /\ \E n \in 0 .. MaxAddrs :
       conn' = [conn EXCEPT ![c] = IF n = 0 THEN Fresh
                                   ELSE [Fresh EXCEPT !.stage = "address", !.addrs = n]]
  /\ UNCHANGED <<table, stolen, odd>>

\* Mutant: a socket that cannot be made non-blocking is not closed.
NewKeepsFd(c) ==
  /\ conn[c].stage = "address" /\ conn[c].addrs > 0
  /\ \/ Free # {} /\ Opened(c)
        /\ conn' = [conn EXCEPT ![c].stage = "socket", ![c].sd = Min(Free)]
     \/ Free # {} /\ Opened(c) /\ conn' = [conn EXCEPT ![c].addrs = @ - 1]
     \/ UNCHANGED table /\ conn' = [conn EXCEPT ![c].addrs = @ - 1]
  /\ UNCHANGED <<stolen, odd>>

\* mongoc_socket_new: the descriptor, made non-blocking or closed again.
socket_new(c) ==
  /\ conn[c].stage = "address" /\ conn[c].addrs > 0
  /\ \/ Free # {} /\ Opened(c)
        /\ conn' = [conn EXCEPT ![c].stage = "socket", ![c].sd = Min(Free)]
     \/ UNCHANGED table /\ conn' = [conn EXCEPT ![c].addrs = @ - 1]
  /\ UNCHANGED <<stolen, odd>>

\* mongoc_socket_close: shutdown() and close(), unless it was closed before.
\* A close() that fails leaves the number in the socket.
socket_close(c) ==
  IF conn[c].sd = NoFd THEN NoClose ELSE Close(c, conn[c].sd)

\* mongoc_socket_destroy, or mongoc_stream_destroy of the whole chain, and the
\* stage the stream is in afterwards.
destroyed(c, next) ==
  /\ socket_close(c)
  /\ conn' = [conn EXCEPT ![c] = next]

\* mongoc_socket_connect: connect() answers at once, or the socket is waited
\* for until the deadline and its SO_ERROR read.  A socket that fails is
\* destroyed, and the next address is tried.
socket_connect(c) ==
  /\ conn[c].stage = "socket"
  /\ \/ /\ conn' = [conn EXCEPT ![c].stage = "base"]
        /\ NoClose
     \/ destroyed(c, [conn[c] EXCEPT !.stage = "address", !.sd = NoFd, !.addrs = @ - 1])
  /\ UNCHANGED odd

\* No address is left: NULL and an error again.
connect_fails(c) ==
  /\ conn[c].stage = "address" /\ conn[c].addrs = 0
  /\ conn' = [conn EXCEPT ![c] = Fresh]
  /\ UNCHANGED <<table, stolen, odd>>

\* mongoc_client_connect_unix: one socket, one connect() without a deadline.
connect_unix(c) ==
  /\ conn[c].stage = "none"
  /\ \/ /\ Free # {} /\ Opened(c)
        /\ conn' = [conn EXCEPT ![c] = [Fresh EXCEPT !.stage = "base", !.sd = Min(Free)]]
     \/ /\ UNCHANGED table
        /\ conn' = [conn EXCEPT ![c] = Fresh]
  /\ UNCHANGED <<stolen, odd>>

\* mongoc_socket_accept on a listening socket: as mongoc_socket_new, with the
\* same close() when the socket cannot be made non-blocking.
socket_accept(c) ==
  /\ conn[c].stage = "none"
  /\ Free # {} /\ Opened(c)
  /\ conn' = [conn EXCEPT ![c] = [Fresh EXCEPT !.stage = "base", !.sd = Min(Free)]]
  /\ UNCHANGED <<stolen, odd>>

\* The last part of the initiator: TLS when the URI asks for it, and the
\* buffered stream on top.  mongoc_stream_tls_new answers NULL when there is
\* no SSL context, and its result replaces the only pointer to the base stream.
stream_tls_new(c) ==
  /\ conn[c].stage = "base"
  /\ \/ /\ conn' = [conn EXCEPT ![c].stage = "tls"]
        /\ UNCHANGED odd
     \/ /\ conn' = [conn EXCEPT ![c] = Fresh]
        /\ odd' = odd \cup {"tls"}
  /\ UNCHANGED <<table, stolen>>

\* mongoc_stream_tls_do_handshake and _check_cert; a refusal destroys the chain.
tls_handshake(c) ==
  /\ conn[c].stage = "tls"
  /\ \/ conn' = [conn EXCEPT ![c].stage = "ready"] /\ NoClose
     \/ destroyed(c, Fresh)
  /\ UNCHANGED odd

stream_buffered_new(c) ==
  /\ conn[c].stage = "base"
  /\ conn' = [conn EXCEPT ![c].stage = "ready"]
  /\ UNCHANGED <<table, stolen, odd>>

\* mongoc_stream_file_new_for_path.
stream_file_new(c) ==
  /\ conn[c].stage = "none"
  /\ Free # {} /\ Opened(c)
  /\ conn' = [conn EXCEPT ![c] = [Fresh EXCEPT !.stage = "ready", !.type = "file",
                                               !.sd = Min(Free)]]
  /\ UNCHANGED <<stolen, odd>>

(***************************************************************************)
(* mongoc_stream_close and mongoc_stream_destroy of a finished stream,     *)
(* passed down to the socket or the file.                                  *)
(***************************************************************************)

stream_socket_close(c) ==
  /\ conn[c].stage = "ready" /\ conn[c].type = "socket"
  /\ \/ /\ socket_close(c)
        /\ conn' = [conn EXCEPT ![c].sd = NoFd]
        /\ UNCHANGED odd
     \/ /\ conn[c].sd # NoFd
        /\ socket_close(c)
        /\ odd' = odd \cup {"close"}
        /\ UNCHANGED conn

\* _mongoc_stream_file_close forgets the number whatever close() answered.
stream_file_close(c) ==
  /\ conn[c].stage = "ready" /\ conn[c].type = "file"
  /\ socket_close(c)
  /\ conn' = [conn EXCEPT ![c].sd = NoFd]
  /\ UNCHANGED odd

stream_socket_destroy(c) ==
  /\ conn[c].stage = "ready" /\ conn[c].type = "socket"
  /\ destroyed(c, Fresh)
  /\ UNCHANGED odd

\* _mongoc_stream_file_destroy closes a descriptor that is not 0.
stream_file_destroy(c) ==
  /\ conn[c].stage = "ready" /\ conn[c].type = "file"
  /\ IF conn[c].sd \in {0, NoFd} THEN NoClose ELSE Close(c, conn[c].sd)
  /\ odd' = IF conn[c].sd = 0 THEN odd \cup {"zero"} ELSE odd
  /\ conn' = [conn EXCEPT ![c] = Fresh]

Initiate(c) ==
  \/ connect_tcp(c) \/ socket_new(c) \/ socket_connect(c)
  \/ connect_fails(c) \/ connect_unix(c) \/ socket_accept(c)
  \/ stream_tls_new(c) \/ tls_handshake(c) \/ stream_buffered_new(c)
  \/ stream_file_new(c)

Finish(c) ==
  \/ stream_socket_close(c) \/ stream_socket_destroy(c)
  \/ stream_file_close(c) \/ stream_file_destroy(c)

LifetimeNext == OtherOpens \/ OtherCloses \/ \E c \in Conns : Initiate(c) \/ Finish(c)

LifetimeSpec == LifetimeInit /\ [][LifetimeNext]_lifetimeVars

-----------------------------------------------------------------------------
\* The type invariant: what a descriptor is open for, and how far a stream is.
LifetimeTypeOK ==
  /\ table \in [Fds -> {"free", "other"} \cup Conns]
  /\ conn \in [Conns -> [stage : {"none", "address", "socket", "base", "tls", "ready"},
                         type : {"socket", "file"}, sd : Fds \cup {NoFd},
                         addrs : 0 .. MaxAddrs]]
  /\ stolen \in BOOLEAN /\ odd \subseteq {"tls", "close", "zero"}

\* Every descriptor the driver opened is held by the stream it was opened for,
\* through all failures of the addresses, of connect() and of the handshake:
\* none is left open when the stream is gone (mongoc_client_connect_tcp).
NoDescriptorLost ==
  odd \cap {"tls", "zero"} = {} =>
    \A f \in Fds : table[f] \in Conns => conn[table[f]].sd = f

\* A stream that holds a number holds its own descriptor, and two streams never
\* the same one: a close never hits what another thread opened under a number
\* the driver gave back (mongoc_socket_close resets sd).
OnlyItsOwn ==
  "close" \notin odd =>
    /\ ~stolen
    /\ \A c \in Conns : conn[c].sd # NoFd => table[conn[c].sd] = c

\* Descriptors and streams belong together one to one, on every path.
DescriptorsOwned == LifetimeTypeOK /\ NoDescriptorLost /\ OnlyItsOwn
=============================================================================
