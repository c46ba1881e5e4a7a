---------------------------- MODULE NetworkProofs ----------------------------
(***************************************************************************)
(* Theorems about the parts between the application and the server: the     *)
(* choice of a node (ClusterSelect), the authentication of a connection     *)
(* (ClusterAuth), the ownership of descriptors (SocketLifetime) and the     *)
(* pool of clients (ClientPool), for any number of nodes, attempts, streams, *)
(* descriptors, addresses and threads, and any size of the pool.            *)
(***************************************************************************)
EXTENDS MCClusterSelect, ClusterAuth, SocketLifetime, ClientPool, SumProofs,
        FiniteSetTheorems, SequenceTheorems, TLAPS

-----------------------------------------------------------------------------

(* ClusterAuth.                                                              *)

\* What each step of the authentication relies on: before it is over nothing
\* was decided and nothing went wrong on this connection, each stage belongs to
\* its mechanism, and the nonce to be hashed is the one the server issued.
AuthSteps ==
  /\ stage # "done" => verdict = "none" /\ connected = TRUE /\ granted = FALSE /\ trouble = FALSE
  /\ stage = "authenticate" => nonce = issued
  /\ stage = "sasl" => mechanism = "GSSAPI"
  /\ stage \in {"start", "getnonce", "authenticate", "x509", "plain", "sasl", "done"}

AuthInv == AuthSteps /\ AuthenticationAgrees

\* An answer to an authentication leaves driver and server in agreement,
\* whether it arrives or not.
LEMMA AuthenticateAgrees ==
  ASSUME NEW digest, AuthInv, Authenticate(digest), stage # "done", UNCHANGED inputs,
         right /\ ~trouble => Accepts(digest)
  PROVE  AuthInv'
<1>1. CASE granted' = Accepts(digest) /\ ok_reply(Accepts(digest))
  BY <1>1 DEF AuthInv, AuthSteps, AuthenticationAgrees, OnlyGranted, NoHalfAuthenticated,
     RightAccepted, ok_reply, AuthReturn, inputs
<1>2. CASE command_failed
  BY <1>2 DEF AuthInv, AuthSteps, AuthenticationAgrees, OnlyGranted, NoHalfAuthenticated,
     RightAccepted, command_failed, AuthReturn, inputs
<1>3. QED
  BY <1>1, <1>2 DEF Authenticate

\* Before authentication nothing was granted or decided.
LEMMA AuthInitial == AuthInit => AuthInv
  BY DEF AuthInit, AuthInv, AuthSteps, AuthenticationAgrees, OnlyGranted,
     NoHalfAuthenticated, RightAccepted

\* Each message of the authentication preserves its invariant.
LEMMA AuthStep == AuthInv /\ [AuthNext]_authVars => AuthInv'
<1> SUFFICES ASSUME AuthInv, [AuthNext]_authVars
             PROVE  AuthInv'
  OBVIOUS
<1> USE DEF AuthInv, AuthSteps, AuthenticationAgrees, OnlyGranted, NoHalfAuthenticated, RightAccepted
<1>1. CASE auth_node
  BY <1>1 DEF auth_node, AuthReturn, inputs, Unknown
<1>2. CASE getnonce
  BY <1>2 DEF getnonce, command_failed, AuthReturn, inputs
<1>3. CASE authenticate
  <2>1. right /\ ~trouble => Accepts(auth_digest(nonce))
    BY <1>3 DEF authenticate, Accepts, auth_digest
  <2>2. QED
    BY <1>3, <2>1, AuthenticateAgrees DEF authenticate
<1>4. CASE auth_node_x509
  <2>1. CASE have_pem
    <3>1. right /\ ~trouble => Accepts([nonce |-> issued, right |-> right])
      BY DEF Accepts
    <3>2. QED
      BY <1>4, <2>1, <3>1, AuthenticateAgrees DEF auth_node_x509
  <2>2. CASE ~have_pem
    BY <1>4, <2>2 DEF auth_node_x509, AuthReturn, inputs
  <2>3. QED
    BY <2>1, <2>2
<1>5. CASE auth_node_plain
  <2>1. CASE encodable
    <3>1. right /\ ~trouble => Accepts([nonce |-> issued, right |-> right])
      BY DEF Accepts
    <3>2. QED
      BY <1>5, <2>1, <3>1, AuthenticateAgrees DEF auth_node_plain
  <2>2. CASE ~encodable
    BY <1>5, <2>2 DEF auth_node_plain, AuthReturn, inputs
  <2>3. QED
    BY <2>1, <2>2
<1>6. CASE auth_node_sasl
  BY <1>6 DEF auth_node_sasl, AuthReturn, inputs
<1>7. CASE connect_again
  BY <1>7 DEF connect_again, inputs
<1>8. CASE UNCHANGED authVars
  BY <1>8 DEF authVars
<1>9. QED
  BY <1>1, <1>2, <1>3, <1>4, <1>5, <1>6, <1>7, <1>8 DEF AuthNext

\* Driver and server agree whether a connection is authenticated, whatever
\* command or reply is lost and however often the cluster connects again, and
\* the right credentials are enough (_mongoc_cluster_auth_node).
THEOREM AuthenticationAgreesAlways == AuthSpec => []AuthenticationAgrees
<1>1. AuthInv => AuthenticationAgrees
  BY DEF AuthInv
<1>2. QED
  BY AuthInitial, AuthStep, <1>1, PTL DEF AuthSpec
-----------------------------------------------------------------------------
(* SocketLifetime.                                                           *)

\* A stream that is not made yet, or that is between two addresses, holds no
\* descriptor, and one that connects to an address has that address to give up.
StagesHold ==
  \A c \in Conns :
    /\ conn[c].stage \in {"none", "address"} => conn[c].sd = NoFd
    /\ conn[c].stage = "socket" => conn[c].addrs > 0

LifetimeInv == DescriptorsOwned /\ StagesHold

\* Descriptors are natural numbers, so that -1 is none of them.
LEMMA FdsNatural == Fds \subseteq Nat /\ NoFd \notin Fds
<1>1. Cardinality(Fds) \in Nat
  BY LifetimeAssumption, FS_CardinalityType
<1>2. QED
  BY <1>1, LifetimeAssumption DEF NoFd

\* The number of a descriptor that is free and lower than all others is free.
LEMMA LeastNatural ==
  ASSUME NEW S, S \subseteq Nat, S # {}
  PROVE  Min(S) \in S
  BY WellOrdered DEF Min

\* The number that socket(), open() and accept() give was free.
LEMMA LowestIsFree == Free # {} => Min(Free) \in Free
  BY FdsNatural, LeastNatural DEF Free

\* At first no descriptor is open and no stream exists.
LEMMA LifetimeInitial == LifetimeInit => LifetimeInv
<1> SUFFICES ASSUME LifetimeInit PROVE LifetimeInv
  OBVIOUS
<1> USE DEF LifetimeInit, Fresh
<1>1. LifetimeTypeOK
  <2>1. 0 \in 0 .. MaxAddrs
    BY LifetimeAssumption
  <2>2. QED
    BY <2>1 DEF LifetimeTypeOK
<1>2. NoDescriptorLost
  BY LifetimeAssumption DEF NoDescriptorLost
<1>3. OnlyItsOwn /\ StagesHold
  BY DEF OnlyItsOwn, StagesHold
<1>4. QED
  BY <1>1, <1>2, <1>3 DEF LifetimeInv, DescriptorsOwned

\* A stream that held nothing takes the lowest free number.
LEMMA OpenedOwned ==
  ASSUME LifetimeInv, NEW c \in Conns, conn[c].sd = NoFd,
         Free # {}, Opened(c), UNCHANGED <<stolen, odd>>,
         NEW r, r.sd = Min(Free), conn' = [conn EXCEPT ![c] = r],
         r \in [stage : {"socket", "base", "ready"}, type : {"socket", "file"}, sd : Fds \cup {NoFd},
                addrs : 0 .. MaxAddrs],
         r.stage = "socket" => r.addrs > 0
  PROVE  LifetimeInv'
<1>1. PICK f \in Fds : f = Min(Free) /\ table[f] = "free" /\ f # NoFd
  BY LowestIsFree, FdsNatural DEF Free
<1>2. table' = [table EXCEPT ![f] = c]
  BY <1>1 DEF Opened
<1> USE DEF LifetimeInv, DescriptorsOwned, LifetimeTypeOK
<1>3. LifetimeTypeOK'
  BY <1>2
<1>4. NoDescriptorLost'
  <2> SUFFICES ASSUME odd \cap {"tls", "zero"} = {}, NEW g \in Fds, table'[g] \in Conns
               PROVE  conn'[table'[g]].sd = g
    BY DEF NoDescriptorLost
  <2>1. CASE g = f
    BY <1>1, <1>2, <2>1
  <2>2. CASE g # f
    <3>1. table'[g] = table[g] /\ conn[table[g]].sd = g
      BY <1>2, <2>2 DEF NoDescriptorLost
    <3>2. table[g] # c
      BY <3>1, FdsNatural
    <3>3. QED
      BY <3>1, <3>2
  <2>3. QED
    BY <2>1, <2>2
<1>5. OnlyItsOwn'
  BY <1>1, <1>2, LifetimeAssumption DEF OnlyItsOwn
<1>6. StagesHold'
  BY DEF StagesHold
<1>7. QED
  BY <1>3, <1>4, <1>5, <1>6

\* A stream gives back the number it holds, if any, and forgets it.
LEMMA ClosedOwned ==
  ASSUME LifetimeInv, NEW c \in Conns, socket_close(c), UNCHANGED odd,
         NEW r, r.sd = NoFd, conn' = [conn EXCEPT ![c] = r],
         r \in [stage : {"none", "address", "ready"}, type : {"socket", "file"},
                sd : Fds \cup {NoFd}, addrs : 0 .. MaxAddrs]
  PROVE  LifetimeInv'
<1> USE DEF LifetimeInv, DescriptorsOwned, LifetimeTypeOK
<1>1. CASE conn[c].sd = NoFd
  <2>1. table' = table /\ stolen' = stolen
    BY <1>1 DEF socket_close, NoClose
  <2>2. QED
    BY <1>1, <2>1, FdsNatural DEF NoDescriptorLost, OnlyItsOwn, StagesHold
<1>2. CASE conn[c].sd # NoFd
  <2>1. PICK f \in Fds : f = conn[c].sd /\ f # NoFd
    BY <1>2
  <2>2. /\ table' = [table EXCEPT ![f] = "free"]
        /\ stolen' = (stolen \/ table[f] \notin {c, "free"})
    BY <1>2, <2>1 DEF socket_close, Close
  <2>3. LifetimeTypeOK'
    BY <2>1, <2>2
  <2>4. NoDescriptorLost'
    BY <2>1, <2>2, LifetimeAssumption DEF NoDescriptorLost
  <2>5. OnlyItsOwn'
    BY <2>1, <2>2, LifetimeAssumption DEF OnlyItsOwn
  <2>6. StagesHold'
    BY DEF StagesHold
  <2>7. QED
    BY <2>3, <2>4, <2>5, <2>6
<1>3. QED
  BY <1>1, <1>2

\* Nothing of the streams and descriptors changes but how far a stream is.
LEMMA StageOwned ==
  ASSUME LifetimeInv, NEW c \in Conns, UNCHANGED <<table, stolen, odd>>,
         NEW r, r.sd = conn[c].sd, conn' = [conn EXCEPT ![c] = r],
         r \in [stage : {"none", "address", "base", "tls", "ready"}, type : {"socket", "file"},
                sd : Fds \cup {NoFd}, addrs : 0 .. MaxAddrs],
         r.stage \in {"none", "address"} => r.sd = NoFd
  PROVE  LifetimeInv'
  BY DEF LifetimeInv, DescriptorsOwned, LifetimeTypeOK, NoDescriptorLost, OnlyItsOwn, StagesHold

\* Making, closing and destroying streams preserves the ownership of descriptors.
LEMMA LifetimeStep == LifetimeInv /\ [LifetimeNext]_lifetimeVars => LifetimeInv'
<1> SUFFICES ASSUME LifetimeInv, [LifetimeNext]_lifetimeVars
             PROVE  LifetimeInv'
  OBVIOUS
<1> USE DEF LifetimeInv, DescriptorsOwned
<1>typ. LifetimeTypeOK
  OBVIOUS
<1>1. CASE OtherOpens
  <2>1. PICK f \in Fds : f = Min(Free) /\ table[f] = "free"
    BY <1>1, LowestIsFree DEF Free, OtherOpens
  <2>2. table' = [table EXCEPT ![f] = "other"] /\ UNCHANGED <<conn, stolen, odd>>
    BY <1>1, <2>1 DEF OtherOpens, Opened
  <2>3. QED
    BY <2>1, <2>2, LifetimeAssumption DEF LifetimeTypeOK, NoDescriptorLost, OnlyItsOwn, StagesHold
<1>2. CASE OtherCloses
  <2>1. PICK f \in Fds : table[f] = "other" /\ table' = [table EXCEPT ![f] = "free"]
    BY <1>2 DEF OtherCloses
  <2>2. UNCHANGED <<conn, stolen, odd>>
    BY <1>2 DEF OtherCloses
  <2>3. QED
    BY <2>1, <2>2, LifetimeAssumption DEF LifetimeTypeOK, NoDescriptorLost, OnlyItsOwn, StagesHold
<1>3. ASSUME NEW c \in Conns, Initiate(c)
      PROVE  LifetimeInv'
  <2> DEFINE R == [stage : {"none", "address", "socket", "base", "tls", "ready"},
                   type : {"socket", "file"}, sd : Fds \cup {NoFd}, addrs : 0 .. MaxAddrs]
  <2>0. conn[c] \in R /\ Fresh \in R /\ MaxAddrs \in Nat
    BY <1>typ, LifetimeAssumption DEF LifetimeTypeOK, Fresh
  <2>1. CASE connect_tcp(c)
    <3>1. PICK n \in 0 .. MaxAddrs :
            conn' = [conn EXCEPT ![c] = IF n = 0 THEN Fresh
                                        ELSE [Fresh EXCEPT !.stage = "address", !.addrs = n]]
      BY <2>1 DEF connect_tcp
    <3>2. conn[c].sd = NoFd
      BY <2>1 DEF connect_tcp, StagesHold
    <3>3. QED
      BY <2>0, <2>1, <3>1, <3>2, StageOwned DEF connect_tcp, Fresh
  <2>2. CASE socket_new(c)
    <3>1. conn[c].sd = NoFd
      BY <2>2 DEF socket_new, StagesHold
    <3>2. CASE Free # {} /\ Opened(c) /\ conn' = [conn EXCEPT ![c].stage = "socket", ![c].sd = Min(Free)]
      <4> DEFINE r == [conn[c] EXCEPT !.stage = "socket", !.sd = Min(Free)]
      <4>1. conn' = [conn EXCEPT ![c] = r] /\ r.sd = Min(Free) /\ r.stage = "socket" /\ r.addrs > 0
        BY <2>0, <2>2, <3>2, <1>typ DEF LifetimeTypeOK, socket_new
      <4>2. r \in R
        BY <2>0, <3>2, LowestIsFree DEF Free
      <4> HIDE DEF r
      <4>3. QED
        BY <2>2, <3>1, <3>2, <4>1, <4>2, OpenedOwned DEF socket_new
    <3>3. CASE UNCHANGED table /\ conn' = [conn EXCEPT ![c].addrs = @ - 1]
      <4> DEFINE r == [conn[c] EXCEPT !.addrs = @ - 1]
      <4>1. conn' = [conn EXCEPT ![c] = r] /\ r.sd = conn[c].sd /\ r.stage = "address" /\ r \in R
        BY <2>0, <2>2, <3>3, <1>typ DEF LifetimeTypeOK, socket_new
      <4> HIDE DEF r
      <4>2. QED
        BY <2>2, <3>1, <3>3, <4>1, StageOwned DEF socket_new
    <3>4. QED
      BY <2>2, <3>2, <3>3 DEF socket_new
  <2>3. CASE socket_connect(c)
    <3>1. CASE conn' = [conn EXCEPT ![c].stage = "base"] /\ NoClose
      <4> DEFINE r == [conn[c] EXCEPT !.stage = "base"]
      <4>1. conn' = [conn EXCEPT ![c] = r] /\ r.sd = conn[c].sd /\ r.stage = "base" /\ r \in R
        BY <2>0, <3>1, <1>typ DEF LifetimeTypeOK
      <4> HIDE DEF r
      <4>2. QED
        BY <2>3, <3>1, <4>1, StageOwned DEF socket_connect, NoClose
    <3>2. CASE destroyed(c, [conn[c] EXCEPT !.stage = "address", !.sd = NoFd, !.addrs = @ - 1])
      <4> DEFINE r == [conn[c] EXCEPT !.stage = "address", !.sd = NoFd, !.addrs = @ - 1]
      <4>1. conn' = [conn EXCEPT ![c] = r] /\ socket_close(c)
        BY <3>2 DEF destroyed
      <4>2. conn[c].addrs > 0
        BY <2>3 DEF socket_connect, StagesHold
      <4>3. conn[c].addrs - 1 \in 0 .. MaxAddrs
        BY <2>0, <4>2
      <4>4. r.sd = NoFd /\ r.stage = "address" /\ r \in R
        BY <2>0, <4>3
      <4> HIDE DEF r
      <4>5. QED
        BY <2>3, <4>1, <4>4, ClosedOwned DEF socket_connect
    <3>3. QED
      BY <2>3, <3>1, <3>2 DEF socket_connect
  <2>4. CASE connect_fails(c)
    <3>1. conn[c].sd = NoFd
      BY <2>4 DEF connect_fails, StagesHold
    <3>2. QED
      BY <2>0, <2>4, <3>1, StageOwned DEF connect_fails, Fresh
  <2>5. ASSUME conn[c].stage = "none", Free # {}, Opened(c), UNCHANGED <<stolen, odd>>,
               NEW r \in R, conn' = [conn EXCEPT ![c] = r],
               r.sd = Min(Free), r.stage \in {"base", "ready"}
        PROVE  LifetimeInv'
    <3>1. conn[c].sd = NoFd
      BY <2>5 DEF StagesHold
    <3>2. QED
      BY <2>5, <3>1, OpenedOwned
  <2>6. ASSUME conn[c].stage = "none", Free # {}, Opened(c), UNCHANGED <<stolen, odd>>,
               conn' = [conn EXCEPT ![c] = [Fresh EXCEPT !.stage = "base", !.sd = Min(Free)]]
        PROVE  LifetimeInv'
    <3> DEFINE r == [Fresh EXCEPT !.stage = "base", !.sd = Min(Free)]
    <3>1. r.sd = Min(Free) /\ r.stage = "base" /\ r \in R
      BY <2>0, <2>6, LowestIsFree DEF Free, Fresh
    <3>2. conn' = [conn EXCEPT ![c] = r]
      BY <2>6
    <3> HIDE DEF r
    <3>3. QED
      BY <2>5, <2>6, <3>1, <3>2
  <2>7. CASE connect_unix(c) \/ socket_accept(c)
    <3>1. CASE UNCHANGED table /\ conn' = [conn EXCEPT ![c] = Fresh]
      BY <2>0, <2>7, <3>1, StageOwned DEF connect_unix, socket_accept, Fresh, StagesHold
    <3>2. QED
      BY <2>6, <2>7, <3>1 DEF connect_unix, socket_accept
  <2>8. CASE stream_tls_new(c)
    <3>1. CASE conn' = [conn EXCEPT ![c].stage = "tls"] /\ UNCHANGED odd
      <4> DEFINE r == [conn[c] EXCEPT !.stage = "tls"]
      <4>1. conn' = [conn EXCEPT ![c] = r] /\ r.sd = conn[c].sd /\ r.stage = "tls" /\ r \in R
        BY <2>0, <3>1, <1>typ DEF LifetimeTypeOK
      <4> HIDE DEF r
      <4>2. QED
        BY <2>8, <3>1, <4>1, StageOwned DEF stream_tls_new
    <3>2. CASE conn' = [conn EXCEPT ![c] = Fresh] /\ odd' = odd \cup {"tls"}
      BY <2>0, <2>8, <3>2, <1>typ DEF stream_tls_new, LifetimeTypeOK, NoDescriptorLost, OnlyItsOwn,
         StagesHold, Fresh
    <3>3. QED
      BY <2>8, <3>1, <3>2 DEF stream_tls_new
  <2>9. CASE tls_handshake(c)
    <3>1. CASE conn' = [conn EXCEPT ![c].stage = "ready"] /\ NoClose
      <4> DEFINE r == [conn[c] EXCEPT !.stage = "ready"]
      <4>1. conn' = [conn EXCEPT ![c] = r] /\ r.sd = conn[c].sd /\ r.stage = "ready" /\ r \in R
        BY <2>0, <3>1, <1>typ DEF LifetimeTypeOK
      <4> HIDE DEF r
      <4>2. QED
        BY <2>9, <3>1, <4>1, StageOwned DEF tls_handshake, NoClose
    <3>2. CASE destroyed(c, Fresh)
      BY <2>0, <2>9, <3>2, ClosedOwned DEF tls_handshake, destroyed, Fresh
    <3>3. QED
      BY <2>9, <3>1, <3>2 DEF tls_handshake
  <2>10. CASE stream_buffered_new(c)
    <3> DEFINE r == [conn[c] EXCEPT !.stage = "ready"]
    <3>1. conn' = [conn EXCEPT ![c] = r] /\ r.sd = conn[c].sd /\ r.stage = "ready" /\ r \in R
      BY <2>0, <2>10, <1>typ DEF LifetimeTypeOK, stream_buffered_new
    <3> HIDE DEF r
    <3>2. QED
      BY <2>10, <3>1, StageOwned DEF stream_buffered_new
  <2>11. CASE stream_file_new(c)
    <3> DEFINE r == [Fresh EXCEPT !.stage = "ready", !.type = "file", !.sd = Min(Free)]
    <3>1. r.sd = Min(Free) /\ r.stage = "ready" /\ r \in R
      BY <2>0, <2>11, LowestIsFree DEF Free, Fresh, stream_file_new
    <3>2. conn' = [conn EXCEPT ![c] = r]
      BY <2>11 DEF stream_file_new
    <3> HIDE DEF r
    <3>3. QED
      BY <2>5, <2>11, <3>1, <3>2 DEF stream_file_new
  <2>12. QED
    BY <1>3, <2>1, <2>2, <2>3, <2>4, <2>7, <2>8, <2>9, <2>10, <2>11 DEF Initiate
<1>4. ASSUME NEW c \in Conns, Finish(c)
      PROVE  LifetimeInv'
  <2> DEFINE R == [stage : {"none", "address", "socket", "base", "tls", "ready"},
                   type : {"socket", "file"}, sd : Fds \cup {NoFd}, addrs : 0 .. MaxAddrs]
  <2>0. conn[c] \in R /\ Fresh \in R
    BY <1>typ, LifetimeAssumption DEF LifetimeTypeOK, Fresh
  <2>1. ASSUME conn[c].stage = "ready", socket_close(c), UNCHANGED odd,
               conn' = [conn EXCEPT ![c].sd = NoFd]
        PROVE  LifetimeInv'
    <3> DEFINE r == [conn[c] EXCEPT !.sd = NoFd]
    <3>1. conn' = [conn EXCEPT ![c] = r] /\ r.sd = NoFd /\ r.stage = "ready" /\ r \in R
      BY <2>0, <2>1, <1>typ DEF LifetimeTypeOK
    <3> HIDE DEF r
    <3>2. QED
      BY <2>1, <3>1, ClosedOwned
  <2>2. CASE stream_socket_close(c)
    <3>1. CASE /\ conn[c].sd # NoFd /\ socket_close(c)
               /\ odd' = odd \cup {"close"} /\ UNCHANGED conn
      <4>1. PICK f \in Fds : f = conn[c].sd
        BY <2>0, <3>1
      <4>2. /\ table' = [table EXCEPT ![f] = "free"]
            /\ stolen' = (stolen \/ table[f] \notin {c, "free"})
        BY <3>1, <4>1 DEF socket_close, Close
      <4>3. QED
        BY <3>1, <4>1, <4>2, <1>typ, LifetimeAssumption
           DEF LifetimeTypeOK, NoDescriptorLost, OnlyItsOwn, StagesHold
    <3>2. QED
      BY <2>1, <2>2, <3>1 DEF stream_socket_close
  <2>3. CASE stream_file_close(c)
    BY <2>1, <2>3 DEF stream_file_close
  <2>4. CASE stream_socket_destroy(c)
    BY <2>0, <2>4, ClosedOwned DEF stream_socket_destroy, destroyed, Fresh
  <2>5. CASE stream_file_destroy(c)
    <3>1. CASE conn[c].sd = 0
      BY <2>0, <2>5, <3>1, <1>typ DEF stream_file_destroy, NoClose, LifetimeTypeOK, NoDescriptorLost,
         OnlyItsOwn, StagesHold, Fresh
    <3>2. CASE conn[c].sd # 0
      <4>1. socket_close(c) /\ UNCHANGED odd /\ conn' = [conn EXCEPT ![c] = Fresh]
        BY <2>5, <3>2 DEF stream_file_destroy, socket_close
      <4>2. QED
        BY <2>0, <4>1, ClosedOwned DEF Fresh
    <3>3. QED
      BY <3>1, <3>2
  <2>6. QED
    BY <1>4, <2>2, <2>3, <2>4, <2>5 DEF Finish
<1>5. CASE UNCHANGED lifetimeVars
  BY <1>5 DEF lifetimeVars, LifetimeTypeOK, NoDescriptorLost, OnlyItsOwn, StagesHold
<1>6. QED
  BY <1>1, <1>2, <1>3, <1>4, <1>5 DEF LifetimeNext

\* Every descriptor the driver opens belongs to one stream until it is closed,
\* on every path of the initiator and of close and destroy, for any number of
\* streams, descriptors and addresses: it is lost only where the code loses it
\* (a TLS stream that cannot be made, a file with number 0), and no close hits
\* another one unless a failed close() left its number behind.
THEOREM DescriptorsOwnedAlways == LifetimeSpec => []DescriptorsOwned
<1>1. LifetimeInv => DescriptorsOwned
  BY DEF LifetimeInv
<1>2. QED
  BY LifetimeInitial, LifetimeStep, <1>1, PTL DEF LifetimeSpec
-----------------------------------------------------------------------------
(* ClusterSelect.                                                            *)

\* The loop over the slots keeps the least ping of the nodes it has passed that
\* would do (IS_NEARER_THAN, mongoc-cluster.c:751).
LEMMA NearestIsLeast ==
  ASSUME NEW nds, NEW suitable, suitable \subseteq Slot,
         \A i \in Slot : nds[i].ping \in Int,
         \A i \in suitable : nds[i].ping >= 0
  PROVE  /\ Nearest(nds, suitable) \in Int
         /\ \A i \in suitable : /\ 0 <= Nearest(nds, suitable)
                               /\ Nearest(nds, suitable) <= nds[i].ping
<1> DEFINE turn(f, i) ==
             IF i = 0 THEN -1
             ELSE IF /\ i \in suitable
                     /\ \/ f[i - 1] < 0 /\ nds[i].ping >= 0
                        \/ nds[i].ping < f[i - 1]
                  THEN nds[i].ping ELSE f[i - 1]
           Loop(f, n) == f = [i \in 0..n |-> turn(f, i)]
<1>0. MaxNodes \in Nat \ {0}
  BY SelectConstants
<1>1. \A n \in Nat : \E f : Loop(f, n)
  <2> DEFINE Bad == {n \in Nat : ~ \E f : Loop(f, n)}
  <2> SUFFICES ASSUME Bad # {} PROVE FALSE
    OBVIOUS
  <2>1. PICK n \in Bad : \A m \in Bad : n <= m
    BY WellOrdered
  <2>2. n # 0
    <3> DEFINE f == [i \in 0..0 |-> -1]
    <3>1. Loop(f, 0)
      OBVIOUS
    <3>2. QED
      BY <3>1
  <2>3. PICK f : Loop(f, n - 1)
    BY <2>1, <2>2
  <2> DEFINE g == [i \in 0..n |-> IF i < n THEN f[i] ELSE turn(f, n)]
  <2>4. \A i \in 0..n : g[i] = turn(g, i)
    <3> SUFFICES ASSUME NEW i \in 0..n PROVE g[i] = turn(g, i)
      OBVIOUS
    <3>1. n \in Nat
      BY <2>1
    <3>2. CASE i = 0
      BY <2>2, <2>3, <3>1, <3>2
    <3>3. CASE i # 0
      <4>1. g[i - 1] = f[i - 1]
        BY <3>1, <3>3
      <4>2. g[i] = turn(f, i)
        BY <2>3, <3>1, <3>3
      <4>3. QED
        BY <4>1, <4>2
    <3>4. QED
      BY <3>2, <3>3
  <2>5. Loop(g, n)
    BY <2>4
  <2>6. QED
    BY <2>1, <2>5
<1>2. PICK f : f = (CHOOSE h : Loop(h, MaxNodes))
  OBVIOUS
<1>3. Loop(f, MaxNodes)
  BY <1>0, <1>1, <1>2
<1>4. Nearest(nds, suitable) = f[MaxNodes]
  BY <1>2 DEF Nearest
<1>5. \A n \in 0..MaxNodes :
        /\ f[n] \in Int /\ f[n] >= -1
        /\ \A i \in suitable : i <= n => 0 <= f[n] /\ f[n] <= nds[i].ping
  <2> DEFINE Good(n) == /\ f[n] \in Int /\ f[n] >= -1
                        /\ \A i \in suitable : i <= n => 0 <= f[n] /\ f[n] <= nds[i].ping
             Bad == {n \in 0..MaxNodes : ~ Good(n)}
  <2> SUFFICES ASSUME Bad # {} PROVE FALSE
    OBVIOUS
  <2>1. PICK n \in Bad : \A m \in Bad : n <= m
    <3>1. Bad \subseteq Nat
      BY <1>0
    <3> HIDE DEF Bad
    <3>2. QED
      BY <3>1, WellOrdered
  <2>2. f[n] = turn(f, n)
    BY <1>3, <2>1
  <2>3. Slot \subseteq Nat \ {0}
    BY <1>0 DEF Slot
  <2>4. CASE n = 0
    BY <1>0, <2>1, <2>2, <2>3, <2>4
  <2>5. CASE n # 0
    <3>1. Good(n - 1)
      BY <1>0, <2>1, <2>5
    <3>2. n \in Slot
      BY <1>0, <2>1, <2>5 DEF Slot
    <3>3. Good(n)
      BY <2>2, <2>3, <2>5, <3>1, <3>2
    <3>4. QED
      BY <2>1, <3>3
  <2>6. QED
    BY <2>4, <2>5
<1>6. QED
  BY <1>0, <1>4, <1>5 DEF Slot

\* Nodes as connecting and losing connections leave them.
NodesSound ==
  /\ \A i \in Slot : nodes[i].ping \in Int
  /\ ask.mode # "direct" => \A i \in Slot : nodes[i].stream => nodes[i].ping >= 0

SelectInv == NodesSound /\ ChosenWell

\* At first no node has been chosen.
LEMMA SelectInitial == SelectInit => SelectInv
<1> SUFFICES ASSUME SelectInit PROVE SelectInv
  OBVIOUS
<1>1. PICK mode : /\ nodes \in NodesOf(mode) /\ ask.mode = mode
                  /\ chosen = [node |-> -1, error |-> FALSE]
  BY DEF SelectInit
<1>2. NodesSound
  <2> SUFFICES ASSUME NEW i \in Slot
               PROVE  /\ nodes[i].ping \in Int
                      /\ ask.mode # "direct" => (nodes[i].stream => nodes[i].ping >= 0)
    BY DEF NodesSound
  <2> DEFINE pings == IF mode = "direct" THEN {-1} ELSE Pings
             made == [stream: {TRUE}, primary: BOOLEAN, ping: pings, tags: {{}}]
             lost == [stream: {FALSE}, primary: BOOLEAN, ping: Pings \cup {-1}, tags: {{}}]
  <2>1. nodes \in [Slot -> made \cup lost]
    BY <1>1 DEF NodesOf
  <2>2. CASE nodes[i] \in lost
    <3>1. nodes[i].stream = FALSE /\ nodes[i].ping \in Pings \cup {-1}
      BY <2>2
    <3>2. \A n \in Pings \cup {-1} : n \in Int
      BY SelectConstants
    <3>3. nodes[i].ping \in Int
      BY <3>1, <3>2, Zenon
    <3>4. ~ nodes[i].stream
      BY <3>1, Zenon
    <3>5. QED
      BY <3>3, <3>4, Zenon
  <2>3. CASE nodes[i] \in made
    <3>1. nodes[i].stream = TRUE /\ nodes[i].ping \in pings
      BY <2>3
    <3>2. pings \subseteq Int /\ (mode # "direct" => \A n \in pings : n >= 0)
      BY SelectConstants
    <3> HIDE DEF pings
    <3>3. QED
      BY <1>1, <3>1, <3>2
  <2>4. QED
    BY <2>1, <2>2, <2>3
<1>3. ~ Chosen
  BY <1>1 DEF Chosen
<1>4. QED
  BY <1>2, <1>3 DEF SelectInv, ChosenWell, RoleRespected, NearEnough

\* One call of _mongoc_cluster_select preserves its invariant.
LEMMA SelectStep == SelectInv /\ [Select]_selectVars => SelectInv'
<1> SUFFICES ASSUME SelectInv, [Select]_selectVars PROVE SelectInv'
  OBVIOUS
<1>1. CASE UNCHANGED selectVars
  BY <1>1 DEF selectVars, SelectInv, NodesSound, ChosenWell, RoleRespected, NearEnough, Chosen, Replica, ToPrimary
<1>2. CASE Select
  <2> DEFINE primaries == {i \in Slot : nodes[i].primary}
             connected_ == {i \in Slot : nodes[i].stream}
             candidates == IF Replica /\ ReadMode(ask.prefs) = "secondary"
                           THEN connected_ \ primaries ELSE connected_
             suitable == {i \in candidates : ask.prefs = NoPrefs \/ score(ask.prefs, nodes[i]) >= 0}
  <2>0. Slot \subseteq Nat \ {0} /\ Latency \in Nat
    BY SelectConstants DEF Slot
  <2>1. NodesSound /\ UNCHANGED <<nodes, ask>> /\ NodesSound'
    BY <1>2 DEF Select, SelectInv, NodesSound
  <2>2. ASSUME NEW e, chosen' = NotSelected(e)
        PROVE  SelectInv'
    <3>1. chosen'.node = 0
      BY <2>2 DEF NotSelected
    <3>2. QED
      BY <2>1, <3>1 DEF SelectInv, ChosenWell, RoleRespected, NearEnough, Chosen
  <2>3. ASSUME NEW i \in Slot, chosen' = SelectedNode(i), nodes[i].stream \/ ToPrimary,
               ToPrimary => nodes[i].primary /\ \A j \in Slot : nodes[j].primary => i <= j,
               Replica /\ (IsWrite(ask.rpc) \/ ReadMode(ask.prefs) = "primary") => nodes[i].primary,
               Replica /\ ~IsWrite(ask.rpc) /\ ReadMode(ask.prefs) = "secondary" => ~nodes[i].primary,
               \/ ask.mode = "direct" \/ ask.hint # 0 \/ ToPrimary
               \/ \A j \in suitable : nodes[j].ping >= 0 => nodes[i].ping <= nodes[j].ping + Latency
        PROVE  SelectInv'
    <3>1. chosen'.node = i /\ nodes' = nodes /\ ask' = ask
      BY <2>1, <2>3 DEF SelectedNode
    <3>2. RoleRespected'
      BY <2>3, <3>1 DEF RoleRespected, Chosen, Replica, ToPrimary
    <3>3. NearEnough'
      BY <2>3, <3>1 DEF NearEnough, Chosen, Replica, ToPrimary
    <3>4. QED
      BY <2>1, <3>2, <3>3 DEF SelectInv, ChosenWell
  <2>4. CASE ask.mode = "direct"
    <3>1. 1 \in Slot /\ ~Replica /\ ~ToPrimary
      BY <2>4, SelectConstants DEF Slot, Replica, ToPrimary
    <3>2. (chosen' = SelectedNode(1) /\ nodes[1].stream) \/ chosen' = NotSelected(FALSE)
      BY <1>2, <2>4 DEF Select, select
    <3>3. CASE chosen' = SelectedNode(1) /\ nodes[1].stream
      <4>1. PICK i \in Slot : i = 1
        BY <3>1
      <4>2. chosen' = SelectedNode(i) /\ nodes[i].stream
        BY <3>3, <4>1
      <4> HIDE DEF suitable
      <4>3. QED
        BY <2>3, <2>4, <3>1, <4>2
    <3>4. QED
      BY <2>2, <3>2, <3>3
  <2>5. CASE ask.mode # "direct" /\ Replica /\ NeedPrimary(ask.prefs, ask.rpc)
    <3>1. CASE primaries = {}
      <4>1. chosen' = NotSelected(TRUE)
        BY <1>2, <2>5, <3>1 DEF Select, select, Replica
      <4>2. QED
        BY <2>2, <4>1
    <3>2. CASE primaries # {}
      <4>1. chosen' = SelectedNode(LeastOf(primaries))
        BY <1>2, <2>5, <3>2 DEF Select, select, Replica
      <4>2. LeastOf(primaries) \in primaries /\ \A j \in primaries : LeastOf(primaries) <= j
        <5>1. primaries \subseteq Nat
          BY <2>0
        <5> HIDE DEF primaries
        <5>2. QED
          BY <3>2, <5>1, WellOrdered DEF LeastOf
      <4>3. ToPrimary
        BY <2>5 DEF ToPrimary
      <4>4. ~IsWrite(ask.rpc) => ReadMode(ask.prefs) # "secondary"
        BY <2>5 DEF NeedPrimary, HasSecondaryBit
      <4>5. PICK i \in Slot : /\ i = LeastOf(primaries) /\ nodes[i].primary
                              /\ \A j \in Slot : nodes[j].primary => i <= j
        BY <4>2
      <4>6. QED
        BY <2>3, <2>5, <4>1, <4>3, <4>4, <4>5
    <3>3. QED
      BY <3>1, <3>2
  <2>6. CASE ask.mode # "direct" /\ ~(Replica /\ NeedPrimary(ask.prefs, ask.rpc))
    <3>0. ~ToPrimary /\ (Replica => ~IsWrite(ask.rpc) /\ ReadMode(ask.prefs) # "primary")
      BY <2>6 DEF NeedPrimary, ToPrimary
    <3>1. CASE ask.hint # 0
      <4>1. (chosen' = SelectedNode(ask.hint) /\ ask.hint \in candidates) \/ chosen' = NotSelected(TRUE)
        BY <1>2, <2>6, <3>1 DEF Select, select, ByHint, Replica
      <4>2. CASE chosen' = SelectedNode(ask.hint) /\ ask.hint \in candidates
        <5>1. PICK i \in candidates : i = ask.hint
          BY <4>2
        <5>2. /\ i \in Slot /\ chosen' = SelectedNode(i) /\ nodes[i].stream
              /\ Replica /\ ReadMode(ask.prefs) = "secondary" => ~nodes[i].primary
          BY <4>2, <5>1
        <5> HIDE DEF suitable
        <5>3. QED
          BY <2>3, <3>0, <3>1, <5>2
      <4>3. QED
        BY <2>2, <4>1, <4>2
    <3>2. CASE ask.hint = 0
      <4>1. \/ chosen' \in {NotSelected(TRUE), NotSelected(FALSE)}
            \/ \E i \in Within(nodes, suitable) : chosen' = SelectedNode(i)
        BY <1>2, <2>6, <3>2 DEF Select, select, AtRandom, Replica
      <4>2. ASSUME NEW i \in Within(nodes, suitable), chosen' = SelectedNode(i)
            PROVE  SelectInv'
        <5>1. suitable \subseteq Slot /\ \A j \in suitable : nodes[j].ping >= 0
          BY <2>1, <2>6 DEF NodesSound
        <5> DEFINE near == Nearest(nodes, suitable)
        <5>2. near \in Int /\ \A j \in suitable : 0 <= near /\ near <= nodes[j].ping
          <6> HIDE DEF suitable
          <6>1. QED
            BY <2>1, <5>1, NearestIsLeast DEF NodesSound
        <5>3. i \in suitable /\ (near # -1 => nodes[i].ping <= near + Latency)
          BY <4>2 DEF Within
        <5> HIDE DEF near
        <5>4. \A j \in suitable : nodes[i].ping <= nodes[j].ping + Latency
          <6> SUFFICES ASSUME NEW j \in suitable PROVE nodes[i].ping <= nodes[j].ping + Latency
            OBVIOUS
          <6>1. near \in Int /\ 0 <= near /\ near <= nodes[j].ping
            BY <5>2
          <6>2. nodes[i].ping \in Int /\ nodes[j].ping \in Int
            BY <2>1, <5>1, <5>3 DEF NodesSound
          <6> HIDE DEF suitable
          <6>3. QED
            BY <2>0, <5>3, <6>1, <6>2
        <5>5. i \in candidates
          BY <5>3
        <5>6. QED
          BY <2>3, <3>0, <4>2, <5>4, <5>5
      <4>3. QED
        BY <2>2, <4>1, <4>2
    <3>3. QED
      BY <3>1, <3>2
  <2>7. QED
    BY <2>4, <2>5, <2>6
<1>3. QED
  BY <1>1, <1>2

\* Whatever the hint and the read preference, for any number of nodes and
\* whatever flags and pings lost connections have left, a request goes to a node
\* that has the role it needs and is connected, unless it is flagged as the
\* primary that the request needs, and one picked at random is within the
\* threshold of every node that would do (_mongoc_cluster_select).
THEOREM ChosenWellAlways == SelectSpec => []ChosenWell
<1>1. SelectInv => ChosenWell
  BY DEF SelectInv
<1>2. QED
  BY SelectInitial, SelectStep, <1>1, PTL DEF SelectSpec

-----------------------------------------------------------------------------
(* ClientPool: the queue of idle clients.                                    *)

Members(q) == {q[i] : i \in 1..Len(q)}
Distinct(q) == \A i, j \in 1..Len(q) : q[i] = q[j] => i = j

\* _mongoc_queue_push_head adds one client.
LEMMA PushHead ==
  ASSUME NEW S, NEW q \in Seq(S), NEW c \in S, c \notin Members(q), Distinct(q)
  PROVE  /\ <<c>> \o q \in Seq(S)
         /\ Len(<<c>> \o q) = Len(q) + 1
         /\ Members(<<c>> \o q) = Members(q) \cup {c}
         /\ Distinct(<<c>> \o q)
<1>0. PICK p : p = <<c>> \o q
  OBVIOUS
<1>1. p \in Seq(S) /\ Len(p) = Len(q) + 1 /\ Len(q) \in Nat
  BY <1>0, ConcatProperties
<1>2. \A i \in 1..Len(p) : p[i] = IF i = 1 THEN c ELSE q[i - 1]
  <2>1. <<c>> \in Seq(S) /\ Len(<<c>>) = 1 /\ <<c>>[1] = c
    OBVIOUS
  <2>2. QED
    BY <1>0, <1>1, <2>1, ConcatProperties
<1>3. Members(p) = Members(q) \cup {c}
  <2>1. \A x \in Members(p) : x \in Members(q) \cup {c}
    BY <1>1, <1>2 DEF Members
  <2>2. \A i \in 1..Len(q) : i + 1 \in 1..Len(p) /\ p[i + 1] = q[i]
    BY <1>1, <1>2
  <2>3. p[1] = c /\ 1 \in 1..Len(p)
    BY <1>1, <1>2
  <2>4. QED
    BY <2>1, <2>2, <2>3, SMTT(30) DEF Members
<1>4. Distinct(p)
  <2> SUFFICES ASSUME NEW i \in 1..Len(p), NEW j \in 1..Len(p), p[i] = p[j]
               PROVE  i = j
    BY DEF Distinct
  <2>1. \A k \in 1..Len(p) : k # 1 => k - 1 \in 1..Len(q) /\ q[k - 1] # c
    BY <1>1 DEF Members
  <2>2. CASE i # 1 /\ j # 1
    <3>1. q[i - 1] = q[j - 1]
      BY <1>2, <2>2
    <3>2. i - 1 = j - 1
      BY <2>1, <2>2, <3>1 DEF Distinct
    <3>3. QED
      BY <1>1, <3>2
  <2>3. QED
    BY <1>1, <1>2, <2>1, <2>2
<1>5. QED
  BY <1>0, <1>1, <1>3, <1>4

\* _mongoc_queue_pop_head takes one client out.
LEMMA PopHead ==
  ASSUME NEW S, NEW q \in Seq(S), q # << >>, Distinct(q)
  PROVE  /\ Tail(q) \in Seq(S)
         /\ Len(Tail(q)) = Len(q) - 1
         /\ Head(q) \in Members(q)
         /\ Members(Tail(q)) = Members(q) \ {Head(q)}
         /\ Distinct(Tail(q))
<1> DEFINE p == Tail(q)
<1>1. /\ p \in Seq(S) /\ Len(p) = Len(q) - 1 /\ Len(q) \in Nat \ {0}
      /\ \A i \in 1..Len(p) : p[i] = q[i + 1]
  BY HeadTailProperties, EmptySeq
<1>2. Head(q) = q[1]
  OBVIOUS
<1> HIDE DEF p
<1>3. Members(p) = Members(q) \ {Head(q)}
  <2>1. \A x \in Members(p) : x \in Members(q) /\ x # q[1]
    BY <1>1, SMTT(30) DEF Members, Distinct
  <2>2. \A i \in 2..Len(q) : i - 1 \in 1..Len(p) /\ p[i - 1] = q[i]
    BY <1>1
  <2>3. \A x \in Members(q) : x # q[1] => x \in Members(p)
    BY <1>1, <2>2 DEF Members
  <2>4. QED
    BY <1>2, <2>1, <2>3
<1>4. Distinct(p)
  BY <1>1 DEF Distinct
<1>5. Head(q) \in Members(q)
  BY <1>1, <1>2 DEF Members
<1>6. QED
  BY <1>1, <1>3, <1>4, <1>5, Zenon DEF p

\* A queue without a client twice is as long as the set of its clients.
LEMMA DistinctCount ==
  ASSUME NEW S, NEW q \in Seq(S), Distinct(q)
  PROVE  Cardinality(Members(q)) = Len(q)
<1>1. q \in Bijection(1..Len(q), Members(q))
  <2>1. q \in [1..Len(q) -> Members(q)]
    BY DEF Members
  <2>2. q \in Injection(1..Len(q), Members(q))
    BY <2>1 DEF Injection, IsInjective, Distinct
  <2>3. \A x \in Members(q) : \E i \in 1..Len(q) : q[i] = x
    BY DEF Members
  <2>4. q \in Surjection(1..Len(q), Members(q))
    BY <2>1, <2>3 DEF Surjection
  <2>5. QED
    BY <2>2, <2>4 DEF Bijection
<1>2. QED
  BY <1>1, FS_CountingElements DEF ExistsBijection

-----------------------------------------------------------------------------
(* The inductive invariant.                                                  *)

Inside == {"pop", "try_pop", "push"}       \* between lock and unlock
Lookers == {t \in Threads : place[t] \in {"pop", "try_pop"}}

\* The thread in the critical section has the mutex, and only it.
MutexHeld == \A t \in Threads : place[t] \in Inside <=> mutex = t

\* A thread has a client while it uses it and until push has put it back, and
\* it looks for one only as often as it is to.
HeldWhere ==
  \A t \in Threads :
    /\ held[t] # 0 <=> place[t] \in {"use", "push"}
    /\ place[t] \in {"pop", "try_pop", "wait"} => left[t] > 0

\* No client is idle twice or idle and destroyed, and every client that was
\* created is somewhere.
Accounted ==
  /\ Distinct(queue) /\ Idle \cap gone = {}
  /\ \A t \in Threads : held[t] <= size
  /\ Idle \cup gone \subseteq 1..size
  /\ \A c \in 1..size : c \in Idle \/ c \in gone \/ \E t \in Threads : held[t] = c

\* No two threads have the same client, and none has an idle or destroyed one.
Disjoint ==
  /\ \A s, t \in Threads : s # t /\ held[s] = held[t] => held[s] = 0
  /\ \A t \in Threads : held[t] \notin Idle \cup gone

\* Every client was made with the options that are set now.
MadeAlike == \A c \in 1..size : options[c] = ssl

PoolInv ==
  /\ PoolTypeOK /\ MutexHeld /\ HeldWhere /\ Accounted /\ Disjoint
  /\ MadeAlike /\ NoLostWakeup

\* The idle clients are those in the queue of mongoc_client_pool_t.
LEMMA IdleIsMembers == Idle = Members(queue)
  BY DEF Idle, Members

\* What the invariant says that the properties ask for.
LEMMA PoolInvEnough == PoolInv => ClientsShared
<1> SUFFICES ASSUME PoolInv PROVE ClientsShared
  OBVIOUS
<1> USE DEF PoolInv
<1>1. OneOwner
  <2>1. Cardinality(Idle) = Len(queue)
    BY DistinctCount, IdleIsMembers DEF Accounted, PoolTypeOK
  <2>2. QED
    BY <2>1 DEF OneOwner, Disjoint
<1>2. NothingLeaks
  <2> SUFFICES ASSUME Finished PROVE Idle \cup gone = 1..size
    BY DEF NothingLeaks
  <2>1. \A t \in Threads : held[t] = 0
    BY DEF Finished, HeldWhere
  <2>2. \A c \in 1..size : c # 0
    BY DEF PoolTypeOK
  <2>3. QED
    BY <2>1, <2>2 DEF Accounted
<1>3. SameOptions
  <2> SUFFICES ASSUME NEW t \in Threads, held[t] # 0 PROVE options[held[t]] = ssl
    BY DEF SameOptions
  <2>1. held[t] \in 1..size
    BY DEF PoolTypeOK, Accounted
  <2>2. QED
    BY <2>1 DEF MadeAlike
<1>4. QED
  BY <1>1, <1>2, <1>3 DEF ClientsShared

\* A new pool (mongoc_client_pool_new) satisfies the invariant.
LEMMA PoolInitial == PoolInit => PoolInv
<1> SUFFICES ASSUME PoolInit PROVE PoolInv
  OBVIOUS
<1> USE PoolConstants DEF PoolInit
<1>1. Idle = {} /\ Len(queue) = 0 /\ Waiting = {}
  BY DEF Idle, Waiting
<1>2. PoolTypeOK
  BY <1>1 DEF PoolTypeOK, Clients
<1>3. MutexHeld /\ HeldWhere
  BY DEF MutexHeld, HeldWhere, Inside
<1>4. Accounted /\ Disjoint
  BY <1>1 DEF Accounted, Disjoint, Distinct
<1>5. MadeAlike /\ NoLostWakeup
  BY <1>1 DEF MadeAlike, NoLostWakeup
<1>6. QED
  BY <1>2, <1>3, <1>4, <1>5 DEF PoolInv

-----------------------------------------------------------------------------
(* Every step preserves it.                                                  *)

\* There are finitely many threads, so finitely many of them hold a client.
LEMMA FewThreads ==
  ASSUME NEW S, S \subseteq Threads
  PROVE  IsFiniteSet(S) /\ Cardinality(S) \in Nat
<1>1. IsFiniteSet(S)
  BY PoolConstants, FS_Subset
<1>2. QED
  BY <1>1, FS_CardinalityType

\* NoLostWakeup in terms of the threads that look at the queue.
Enough == Len(queue) <= Cardinality(woken) + Cardinality(Lookers)
LEMMA WakeupIsEnough == NoLostWakeup <=> (Waiting \ woken # {} => Enough)
  BY DEF NoLostWakeup, Enough, Lookers

\* A thread locks the mutex.
LEMMA LockKeeps ==
  ASSUME PoolInv, NEW t \in Threads, NEW from, NEW to, Lock(t, from, to),
         \/ from = "out" /\ to \in {"pop", "try_pop"} /\ left[t] > 0
         \/ from = "use" /\ to = "push"
  PROVE  PoolInv'
<1> USE DEF PoolInv
<1>1. /\ place[t] = from /\ mutex = NoThread /\ mutex' = t
      /\ place' = [place EXCEPT ![t] = to]
      /\ UNCHANGED <<held, left, woken, queue, size, ssl, options, gone>>
  BY DEF Lock
<1>2. Waiting' = Waiting /\ Idle' = Idle
  BY <1>1 DEF Waiting, PoolTypeOK, Idle
<1>3. PoolTypeOK'
  BY <1>1, <1>2 DEF PoolTypeOK
<1>4. MutexHeld'
  BY <1>1, PoolConstants DEF MutexHeld, PoolTypeOK, Inside
<1>5. HeldWhere'
  BY <1>1 DEF HeldWhere, PoolTypeOK
<1>6. Accounted' /\ Disjoint' /\ MadeAlike'
  BY <1>1, <1>2 DEF Accounted, Disjoint, MadeAlike, Distinct
<1>7. NoLostWakeup'
  <2>1. Lookers \subseteq Lookers'
    BY <1>1 DEF Lookers, PoolTypeOK
  <2>2. Lookers' \subseteq Threads /\ Lookers \subseteq Threads
    BY DEF Lookers
  <2>3. Cardinality(Lookers) <= Cardinality(Lookers')
    BY <2>1, <2>2, FewThreads, FS_Subset
  <2>4. Enough => Enough'
    <3>1. woken \subseteq Threads
      BY DEF PoolTypeOK, Waiting
    <3>2. Cardinality(woken) \in Nat /\ Cardinality(Lookers) \in Nat /\ Cardinality(Lookers') \in Nat
      BY <2>2, <3>1, FewThreads
    <3>3. Len(queue) \in Nat
      BY DEF PoolTypeOK
    <3>4. QED
      BY <1>1, <2>3, <3>2, <3>3 DEF Enough
  <2>5. QED
    BY <1>1, <1>2, <2>4, WakeupIsEnough DEF NoLostWakeup, Enough, Lookers
<1>8. QED
  BY <1>3, <1>4, <1>5, <1>6, <1>7

\* pop and try_pop take an idle client, or create one.
LEMMA TakeKeeps ==
  ASSUME PoolInv, NEW t \in Threads, take(t)
  PROVE  PoolInv'
<1> USE DEF PoolInv
<1>1. /\ place[t] \in {"pop", "try_pop"} /\ mutex' = NoThread
      /\ place' = [place EXCEPT ![t] = "use"]
      /\ left' = [left EXCEPT ![t] = @ - 1]
      /\ UNCHANGED <<woken, ssl, gone>>
  BY DEF take, Leave
<1>2. Waiting' = Waiting /\ mutex = t /\ held[t] = 0 /\ left[t] > 0
  BY <1>1 DEF Waiting, PoolTypeOK, MutexHeld, HeldWhere, Inside
<1>3. MutexHeld'
  BY <1>1, <1>2, PoolConstants DEF MutexHeld, PoolTypeOK, Inside
<1>4. Lookers' = Lookers \ {t} /\ t \in Lookers /\ Lookers \subseteq Threads /\ woken \subseteq Threads
  BY <1>1 DEF Lookers, PoolTypeOK, Waiting
<1>5. left' \in [Threads -> 0..Uses] /\ place' \in [Threads -> {"out", "pop", "try_pop", "wait", "use", "push"}]
  <2>1. left[t] - 1 \in 0..Uses
    BY <1>2, PoolConstants DEF PoolTypeOK
  <2>2. QED
    BY <1>1, <2>1 DEF PoolTypeOK
<1>6. CASE pop_head(t)
  <2>1. /\ queue # <<>> /\ queue' = Tail(queue)
        /\ held' = [held EXCEPT ![t] = Head(queue)] /\ UNCHANGED <<size, options>>
    BY <1>6 DEF pop_head
  <2>2. /\ queue' \in Seq(Clients) /\ Len(queue') = Len(queue) - 1
        /\ Head(queue) \in Idle /\ Idle' = Idle \ {Head(queue)} /\ Distinct(queue')
    <3>1. queue \in Seq(Clients) /\ Distinct(queue)
      BY DEF PoolTypeOK, Accounted
    <3>2. Idle' = Members(queue')
      BY DEF Idle, Members
    <3>3. QED
      BY <2>1, <3>1, <3>2, PopHead, IdleIsMembers
  <2>3. PICK c \in 1..size : c = Head(queue) /\ c \in Idle /\ c \notin gone
    BY <2>2 DEF Accounted
  <2>4. c \in 1..max_pool_size
    BY PoolConstants DEF PoolTypeOK
  <2>5. PoolTypeOK'
    BY <1>1, <1>2, <1>5, <2>1, <2>2, <2>3, <2>4, PoolConstants, SMTT(30) DEF PoolTypeOK
  <2>6. HeldWhere'
    <3>1. \A s \in Threads : s # t => held'[s] = held[s] /\ place'[s] = place[s] /\ left'[s] = left[s]
      BY <1>1, <2>1 DEF PoolTypeOK
    <3>2. held'[t] # 0 /\ place'[t] = "use"
      BY <1>1, <2>1, <2>3, <2>4 DEF PoolTypeOK
    <3>3. QED
      BY <3>1, <3>2 DEF HeldWhere
  <2>7. Accounted'
    <3>1. \A s \in Threads : held'[s] = IF s = t THEN c ELSE held[s]
      BY <2>1, <2>3 DEF PoolTypeOK
    <3>2. \A d \in 1..size : d \in Idle' \/ d \in gone \/ \E s \in Threads : held'[s] = d
      <4> SUFFICES ASSUME NEW d \in 1..size, d \notin Idle', d \notin gone
                   PROVE  \E s \in Threads : held'[s] = d
        OBVIOUS
      <4>1. CASE d = c
        BY <3>1, <4>1
      <4>2. CASE d # c
        <5>1. PICK s \in Threads : held[s] = d
          BY <2>2, <2>3, <4>2 DEF Accounted
        <5>2. s # t
          BY <1>2, <5>1
        <5>3. QED
          BY <3>1, <5>1, <5>2
      <4>3. QED
        BY <4>1, <4>2
    <3>3. \A s \in Threads : held'[s] <= size
      <4>1. size \in Nat /\ c <= size
        BY DEF PoolTypeOK
      <4>2. QED
        BY <3>1, <4>1 DEF Accounted
    <3>4. QED
      BY <1>1, <2>1, <2>2, <3>2, <3>3 DEF Accounted
  <2>8. Disjoint'
    BY <1>1, <2>1, <2>2, <2>3 DEF Disjoint, PoolTypeOK
  <2>9. MadeAlike'
    BY <1>1, <2>1 DEF MadeAlike
  <2>10. NoLostWakeup'
    <3>1. Cardinality(Lookers') = Cardinality(Lookers) - 1 /\ Cardinality(Lookers) \in Nat
      BY <1>4, FewThreads, FS_RemoveElement
    <3>2. Cardinality(woken) \in Nat /\ Len(queue) \in Nat
      BY <1>4, FewThreads DEF PoolTypeOK
    <3>3. Enough => Enough'
      BY <1>1, <2>2, <3>1, <3>2 DEF Enough
    <3>4. QED
      BY <1>1, <1>2, <3>3, WakeupIsEnough DEF NoLostWakeup, Enough, Lookers
  <2>11. QED
    BY <1>3, <2>5, <2>6, <2>7, <2>8, <2>9, <2>10
<1>7. CASE new_client(t)
  <2>1. /\ queue = <<>> /\ size < max_pool_size /\ size' = size + 1
        /\ held' = [held EXCEPT ![t] = size + 1]
        /\ options' = [options EXCEPT ![size + 1] = ssl] /\ UNCHANGED queue
    BY <1>7 DEF new_client
  <2>2. /\ Idle' = Idle /\ size + 1 \in 1..max_pool_size /\ size \in Nat /\ ssl \in Nat
        /\ Len(queue') = 0
    BY <2>1, PoolConstants DEF Idle, PoolTypeOK
  <2>3. PoolTypeOK'
    BY <1>1, <1>2, <1>5, <2>1, <2>2, PoolConstants DEF PoolTypeOK, Clients
  <2>4. \A s \in Threads : held'[s] = IF s = t THEN size + 1 ELSE held[s]
    BY <2>1 DEF PoolTypeOK
  <2>5. HeldWhere'
    <3>1. \A s \in Threads : s # t => held'[s] = held[s] /\ place'[s] = place[s] /\ left'[s] = left[s]
      BY <1>1, <2>1 DEF PoolTypeOK
    <3>2. held'[t] # 0 /\ place'[t] = "use"
      <4>1. held'[t] = size + 1
        BY <2>4
      <4>2. QED
        BY <1>1, <2>2, <4>1 DEF PoolTypeOK
    <3>3. QED
      BY <3>1, <3>2 DEF HeldWhere
  <2>6. Accounted'
    <3>1. \A d \in 1..size' : d \in Idle' \/ d \in gone \/ \E s \in Threads : held'[s] = d
      <4> SUFFICES ASSUME NEW d \in 1..size', d \notin Idle', d \notin gone
                   PROVE  \E s \in Threads : held'[s] = d
        OBVIOUS
      <4>1. CASE d = size + 1
        BY <2>4, <4>1
      <4>2. CASE d # size + 1
        <5>1. PICK s \in Threads : held[s] = d
          BY <2>1, <2>2, <4>2 DEF Accounted
        <5>2. s # t
          BY <1>2, <2>1, <2>2, <5>1
        <5>3. QED
          BY <2>4, <5>1, <5>2
      <4>3. QED
        BY <4>1, <4>2
    <3>2. \A s \in Threads : held'[s] <= size'
      BY <2>1, <2>2, <2>4 DEF Accounted, PoolTypeOK
    <3>3. Idle' \cup gone' \subseteq 1..size' /\ Idle' \cap gone' = {}
      BY <1>1, <2>1, <2>2 DEF Accounted
    <3>4. Distinct(queue)'
      BY <2>1 DEF Accounted, Distinct
    <3>5. QED
      BY <1>1, <3>1, <3>2, <3>3, <3>4 DEF Accounted
  <2>7. Disjoint'
    <3>1. size + 1 \notin Idle \cup gone /\ \A s \in Threads : held[s] # size + 1
      BY <2>2 DEF Accounted, PoolTypeOK
    <3>2. QED
      BY <1>1, <2>2, <2>4, <3>1 DEF Disjoint
  <2>8. MadeAlike'
    BY <1>1, <2>1, <2>2 DEF MadeAlike, PoolTypeOK, Clients
  <2>9. NoLostWakeup'
    <3>1. Cardinality(Lookers') \in Nat /\ Cardinality(woken') \in Nat
      BY <1>1, <1>4, FewThreads
    <3>2. QED
      BY <2>2, <3>1 DEF NoLostWakeup, Lookers
  <2>10. QED
    BY <1>3, <2>3, <2>5, <2>6, <2>7, <2>8, <2>9
<1>8. QED
  BY <1>6, <1>7 DEF take

\* Nobody gets or returns a client: a thread sleeps, leaves with NULL, wakes up
\* or goes on.  Only the wake-ups are to be looked at.
LEMMA ElsewhereKeeps ==
  ASSUME PoolInv, UNCHANGED <<held, queue, size, ssl, options, gone>>
  PROVE  Accounted' /\ Disjoint' /\ MadeAlike' /\ Idle' = Idle
  BY DEF PoolInv, Accounted, Disjoint, MadeAlike, Distinct, Idle

\* mongoc_cond_wait gives up the mutex and nothing else.
LEMMA CondWaitKeeps ==
  ASSUME PoolInv, NEW t \in Threads, cond_wait(t)
  PROVE  PoolInv'
<1> USE DEF PoolInv
<1>1. /\ place[t] = "pop" /\ queue = <<>> /\ mutex' = NoThread
      /\ place' = [place EXCEPT ![t] = "wait"]
      /\ UNCHANGED <<held, left, woken, queue, size, ssl, options, gone>>
  BY DEF cond_wait, NoneLeft, Leave
<1>2. Waiting' = Waiting \cup {t} /\ mutex = t /\ woken \subseteq Threads
  BY <1>1 DEF Waiting, PoolTypeOK, MutexHeld, Inside
<1>3. PoolTypeOK'
  BY <1>1, <1>2 DEF PoolTypeOK
<1>4. MutexHeld'
  BY <1>1, <1>2, PoolConstants DEF MutexHeld, PoolTypeOK, Inside
<1>5. HeldWhere'
  BY <1>1 DEF HeldWhere, PoolTypeOK
<1>6. NoLostWakeup'
  <2>1. Lookers' \subseteq Threads
    BY DEF Lookers
  <2>2. Cardinality(Lookers') \in Nat /\ Cardinality(woken') \in Nat /\ Len(queue') = 0
    BY <1>1, <1>2, <2>1, FewThreads
  <2>3. QED
    BY <2>2 DEF NoLostWakeup, Lookers
<1>7. QED
  BY <1>1, <1>3, <1>4, <1>5, <1>6, ElsewhereKeeps

\* A thread that was woken takes the mutex and looks again.
LEMMA PopAgainKeeps ==
  ASSUME PoolInv, NEW t \in Threads, pop_again(t)
  PROVE  PoolInv'
<1> USE DEF PoolInv
<1>1. /\ place[t] = "wait" /\ t \in woken /\ mutex = NoThread
      /\ woken' = woken \ {t} /\ mutex' = t /\ place' = [place EXCEPT ![t] = "pop"]
      /\ UNCHANGED <<held, left, queue, size, ssl, options, gone>>
  BY DEF pop_again
<1>2. Waiting' = Waiting \ {t} /\ woken \subseteq Threads
  BY <1>1 DEF Waiting, PoolTypeOK
<1>3. PoolTypeOK'
  BY <1>1, <1>2 DEF PoolTypeOK
<1>4. MutexHeld'
  BY <1>1, PoolConstants DEF MutexHeld, PoolTypeOK, Inside
<1>5. HeldWhere'
  BY <1>1 DEF HeldWhere, PoolTypeOK
<1>6. NoLostWakeup'
  <2>1. /\ Lookers' = Lookers \cup {t} /\ t \notin Lookers /\ Lookers \subseteq Threads
        /\ Waiting' \ woken' = Waiting \ woken
    BY <1>1, <1>2 DEF Lookers, PoolTypeOK
  <2>2. Cardinality(Lookers') = Cardinality(Lookers) + 1 /\ Cardinality(Lookers) \in Nat
    BY <2>1, FewThreads, FS_AddElement
  <2>3. Cardinality(woken') = Cardinality(woken) - 1 /\ Cardinality(woken) \in Nat
    BY <1>1, <1>2, FewThreads, FS_RemoveElement
  <2>4. Enough => Enough'
    BY <1>1, <2>2, <2>3 DEF Enough, PoolTypeOK
  <2>5. QED
    BY <2>1, <2>4, WakeupIsEnough DEF NoLostWakeup, Enough, Lookers
<1>7. QED
  BY <1>1, <1>3, <1>4, <1>5, <1>6, ElsewhereKeeps

\* A wake-up without a signal changes only who waits.
LEMMA SpuriousKeeps ==
  ASSUME PoolInv, NEW t \in Threads, spurious(t)
  PROVE  PoolInv'
<1> USE DEF PoolInv
<1>1. /\ place[t] = "wait" /\ t \notin woken /\ woken' = woken \cup {t}
      /\ UNCHANGED <<place, held, left, mutex, queue, size, ssl, options, gone>>
  BY DEF spurious
<1>2. Waiting' = Waiting /\ woken \subseteq Threads /\ Lookers' = Lookers /\ Lookers \subseteq Threads
  BY <1>1 DEF Waiting, PoolTypeOK, Lookers
<1>3. PoolTypeOK'
  BY <1>1, <1>2 DEF PoolTypeOK, Waiting
<1>4. MutexHeld' /\ HeldWhere'
  BY <1>1 DEF MutexHeld, HeldWhere
<1>5. NoLostWakeup'
  <2>1. Cardinality(woken') = Cardinality(woken) + 1 /\ Cardinality(woken) \in Nat
    BY <1>1, <1>2, FewThreads, FS_AddElement
  <2>2. Cardinality(Lookers) \in Nat
    BY <1>2, FewThreads
  <2>3. Enough => Enough'
    BY <1>1, <1>2, <2>1, <2>2 DEF Enough, PoolTypeOK
  <2>4. QED
    BY <1>1, <1>2, <2>3, WakeupIsEnough DEF NoLostWakeup, Enough, Lookers
<1>6. QED
  BY <1>1, <1>3, <1>4, <1>5, ElsewhereKeeps

\* mongoc_client_pool_try_pop that finds nothing leaves the pool as it was.
LEMMA TryPopNullKeeps ==
  ASSUME PoolInv, NEW t \in Threads, try_pop_null(t)
  PROVE  PoolInv'
<1> USE DEF PoolInv
<1>1. /\ place[t] = "try_pop" /\ queue = <<>> /\ mutex' = NoThread
      /\ place' = [place EXCEPT ![t] = "out"] /\ left' = [left EXCEPT ![t] = @ - 1]
      /\ UNCHANGED <<held, woken, queue, size, ssl, options, gone>>
  BY DEF try_pop_null, NoneLeft, Leave
<1>2. Waiting' = Waiting /\ mutex = t /\ woken \subseteq Threads /\ left[t] > 0
  BY <1>1 DEF Waiting, PoolTypeOK, MutexHeld, Inside, HeldWhere
<1>3. PoolTypeOK'
  <2>1. left[t] - 1 \in 0..Uses
    BY <1>2, PoolConstants DEF PoolTypeOK
  <2>2. QED
    BY <1>1, <1>2, <2>1 DEF PoolTypeOK
<1>4. MutexHeld'
  BY <1>1, <1>2, PoolConstants DEF MutexHeld, PoolTypeOK, Inside
<1>5. HeldWhere'
  BY <1>1 DEF HeldWhere, PoolTypeOK
<1>6. NoLostWakeup'
  <2>1. Lookers' \subseteq Threads
    BY DEF Lookers
  <2>2. Cardinality(Lookers') \in Nat /\ Cardinality(woken') \in Nat /\ Len(queue') = 0
    BY <1>1, <1>2, <2>1, FewThreads
  <2>3. QED
    BY <2>2 DEF NoLostWakeup, Lookers
<1>7. QED
  BY <1>1, <1>3, <1>4, <1>5, <1>6, ElsewhereKeeps

\* push puts a client back and wakes one of the threads that sleep, if any.
LEMMA PushKeeps ==
  ASSUME PoolInv, NEW t \in Threads, push(t)
  PROVE  PoolInv'
<1> USE DEF PoolInv
<1>1. /\ place[t] = "push" /\ mutex' = NoThread /\ place' = [place EXCEPT ![t] = "out"]
      /\ queue' = <<held[t]>> \o queue /\ held' = [held EXCEPT ![t] = 0] /\ signal
      /\ UNCHANGED <<left, size, ssl, options, gone>>
  BY DEF push, Leave
<1>2. /\ Waiting' = Waiting /\ mutex = t /\ woken \subseteq Threads
      /\ Lookers' = Lookers /\ Lookers \subseteq Threads
  BY <1>1 DEF Waiting, PoolTypeOK, MutexHeld, Inside, Lookers
<1>3. PICK c \in 1..size : c = held[t] /\ c \in Clients /\ c \notin Idle \cup gone
  <2>1. held[t] \in 1..size /\ held[t] \in Clients
    BY <1>1 DEF HeldWhere, Accounted, PoolTypeOK, Clients
  <2>2. QED
    BY <2>1 DEF Disjoint
<1>4. /\ queue' \in Seq(Clients) /\ Len(queue') = Len(queue) + 1
      /\ Idle' = Idle \cup {c} /\ Distinct(queue')
  <2>1. queue \in Seq(Clients) /\ Distinct(queue) /\ c \notin Members(queue)
    BY <1>3, IdleIsMembers DEF PoolTypeOK, Accounted
  <2>2. queue' = <<c>> \o queue
    BY <1>1, <1>3
  <2>3. Idle' = Members(queue')
    BY DEF Idle, Members
  <2>4. QED
    BY <1>3, <2>1, <2>2, <2>3, PushHead, IdleIsMembers
<1>5. woken' \subseteq Waiting
  BY <1>1 DEF signal, PoolTypeOK
<1>6. PoolTypeOK'
  BY <1>1, <1>2, <1>4, <1>5, PoolConstants DEF PoolTypeOK
<1>7. MutexHeld'
  BY <1>1, <1>2, PoolConstants DEF MutexHeld, PoolTypeOK, Inside
<1>8. HeldWhere'
  BY <1>1, PoolConstants DEF HeldWhere, PoolTypeOK
<1>9. Accounted'
  <2>1. \A s \in Threads : held'[s] = IF s = t THEN 0 ELSE held[s]
    BY <1>1 DEF PoolTypeOK
  <2>2. \A d \in 1..size : d \in Idle' \/ d \in gone \/ \E s \in Threads : held'[s] = d
    <3> SUFFICES ASSUME NEW d \in 1..size, d \notin Idle', d \notin gone
                 PROVE  \E s \in Threads : held'[s] = d
      OBVIOUS
    <3>1. PICK s \in Threads : held[s] = d
      BY <1>4 DEF Accounted
    <3>2. s # t
      BY <1>3, <1>4, <3>1
    <3>3. QED
      BY <2>1, <3>1, <3>2
  <2>3. \A s \in Threads : held'[s] <= size
    <3>1. size \in Nat /\ 0 <= size
      BY DEF PoolTypeOK
    <3>2. QED
      BY <2>1, <3>1 DEF Accounted
  <2>4. Idle' \cap gone = {} /\ Idle' \cup gone \subseteq 1..size
    BY <1>3, <1>4 DEF Accounted
  <2>5. QED
    BY <1>1, <1>4, <2>2, <2>3, <2>4 DEF Accounted
<1>10. Disjoint'
  <2>1. \A s \in Threads : held'[s] = IF s = t THEN 0 ELSE held[s]
    BY <1>1 DEF PoolTypeOK
  <2>2. \A d \in Idle' \cup gone : d # 0
    BY <1>3, <1>4 DEF Accounted, PoolTypeOK
  <2>3. \A s \in Threads : s # t => held[s] # c
    BY <1>3 DEF Disjoint, PoolTypeOK
  <2>4. QED
    BY <1>1, <1>4, <2>1, <2>2, <2>3 DEF Disjoint
<1>11. MadeAlike'
  BY <1>1 DEF MadeAlike
<1>12. NoLostWakeup'
  <2>1. CASE Waiting \ woken = {}
    <3>1. Waiting' \ woken' = {}
      BY <1>1, <1>2, <2>1 DEF signal
    <3>2. QED
      BY <3>1 DEF NoLostWakeup
  <2>2. CASE Waiting \ woken # {}
    <3>1. PICK w \in Waiting \ woken : woken' = woken \cup {w}
      BY <1>1, <2>2 DEF signal
    <3>2. Cardinality(woken') = Cardinality(woken) + 1 /\ Cardinality(woken) \in Nat
      BY <1>2, <3>1, FewThreads, FS_AddElement
    <3>3. Cardinality(Lookers) \in Nat /\ Len(queue) \in Nat
      BY <1>2, FewThreads DEF PoolTypeOK
    <3>4. Enough
      BY <2>2, WakeupIsEnough
    <3>5. Enough'
      BY <1>2, <1>4, <3>2, <3>3, <3>4 DEF Enough
    <3>6. QED
      BY <3>5 DEF NoLostWakeup, Enough, Lookers
  <2>3. QED
    BY <2>1, <2>2
<1>13. QED
  BY <1>6, <1>7, <1>8, <1>9, <1>10, <1>11, <1>12

\* mongoc_client_pool_set_ssl_opts changes the options, before any client has them.
LEMMA SetSslKeeps ==
  ASSUME PoolInv, set_ssl_opts
  PROVE  PoolInv'
<1> USE DEF PoolInv
<1>1. /\ ssl < MaxSslChanges /\ size = 0 /\ ssl' = ssl + 1
      /\ UNCHANGED <<place, held, left, mutex, woken, queue, size, options, gone>>
  BY DEF set_ssl_opts
<1>2. PoolTypeOK'
  <2>1. ssl' \in 0..MaxSslChanges /\ 0..ssl \subseteq 0..ssl'
    BY <1>1, PoolConstants DEF PoolTypeOK
  <2>2. options' \in [Clients -> 0..ssl']
    BY <1>1, <2>1 DEF PoolTypeOK
  <2>3. QED
    BY <1>1, <2>1, <2>2 DEF PoolTypeOK, Waiting
<1>3. MutexHeld' /\ HeldWhere' /\ Disjoint' /\ Accounted'
  BY <1>1 DEF MutexHeld, HeldWhere, Disjoint, Accounted, Distinct, Idle
<1>4. MadeAlike'
  BY <1>1 DEF MadeAlike
<1>5. NoLostWakeup'
  BY <1>1 DEF NoLostWakeup, Waiting
<1>6. QED
  BY <1>2, <1>3, <1>4, <1>5

\* mongoc_client_pool_destroy destroys all that is idle.
LEMMA DestroyKeeps ==
  ASSUME PoolInv, destroy
  PROVE  PoolInv'
<1> USE DEF PoolInv
<1>1. /\ gone' = gone \cup Idle /\ queue' = <<>>
      /\ UNCHANGED <<place, held, left, mutex, woken, size, ssl, options>>
  BY DEF destroy
<1>2. Idle' = {} /\ Len(queue') = 0 /\ Waiting' = Waiting /\ woken \subseteq Threads
  BY <1>1 DEF Idle, Waiting, PoolTypeOK
<1>3. Idle \subseteq Clients
  BY DEF Idle, PoolTypeOK
<1>4. PoolTypeOK'
  BY <1>1, <1>2, <1>3 DEF PoolTypeOK
<1>5. MutexHeld' /\ HeldWhere' /\ MadeAlike'
  BY <1>1 DEF MutexHeld, HeldWhere, MadeAlike
<1>6. Accounted' /\ Disjoint'
  BY <1>1, <1>2 DEF Accounted, Disjoint, Distinct
<1>7. NoLostWakeup'
  <2>1. Lookers' \subseteq Threads
    BY DEF Lookers
  <2>2. Cardinality(Lookers') \in Nat /\ Cardinality(woken') \in Nat
    BY <1>1, <1>2, <2>1, FewThreads
  <2>3. QED
    BY <1>2, <2>2 DEF NoLostWakeup, Lookers
<1>8. QED
  BY <1>4, <1>5, <1>6, <1>7

\* Each section between two operations on the mutex preserves the invariant.
LEMMA PoolStep == PoolInv /\ [PoolNext]_poolVars => PoolInv'
<1> SUFFICES ASSUME PoolInv, [PoolNext]_poolVars PROVE PoolInv'
  OBVIOUS
<1>1. CASE UNCHANGED poolVars
  <2>1. UNCHANGED <<place, held, left, mutex, woken, queue, size, ssl, options, gone>>
    BY <1>1 DEF poolVars
  <2>2. Accounted' /\ Disjoint' /\ MadeAlike'
    BY <2>1, ElsewhereKeeps
  <2>3. QED
    BY <2>1, <2>2 DEF PoolInv, PoolTypeOK, MutexHeld, HeldWhere, NoLostWakeup, Waiting
<1>2. ASSUME NEW t \in Threads, PoolThread(t)
      PROVE  PoolInv'
  BY <1>2, LockKeeps, TakeKeeps, CondWaitKeeps, PopAgainKeeps, TryPopNullKeeps, PushKeeps
     DEF PoolThread, EnterPop
<1>3. QED
  BY <1>1, <1>2, SpuriousKeeps, SetSslKeeps, DestroyKeeps DEF PoolNext

\* Threads share the clients of a pool of any size without losing one, without
\* losing a wake-up and without ever using one together, however many they are
\* and whenever a condition variable wakes them (mongoc-client-pool.c).
THEOREM ClientsSharedAlways == PoolSpec => []ClientsShared
<1>1. PoolInit /\ [][PoolNext]_poolVars => []PoolInv
  BY PoolInitial, PoolStep, PTL
<1>2. QED
  BY <1>1, PoolInvEnough, PTL DEF PoolSpec
=============================================================================
