------------------------------- MODULE ClusterAuth -------------------------------
(***************************************************************************)
(* Authentication of one cluster node (mongoc-cluster.c, mongoc-sasl.c):    *)
(* challenge and response, X.509, PLAIN and GSSAPI.  A digest is the record *)
(* of what it is computed from.  When an attempt fails the cluster may      *)
(* connect again and try again.                                             *)
(***************************************************************************)
EXTENDS Naturals

CONSTANTS
  Mechanisms,     \* authMechanism of the URI: a name or Unknown
  MaxAttempts     \* bound: connections that are made

Unknown == "unknown"

VARIABLES
  mechanism,   \* authMechanism
  right,       \* the credentials are those of a user of the server
  have_pem,    \* ssl_opts.pem_file is set
  encodable,   \* PLAIN: the credentials fit in the buffer of sasl_encode64
  stage,          \* the step of the authentication
  nonce,       \* what the driver received from getnonce
  issued,      \* server: the nonce it issued on this connection
  connected,   \* the stream of the node is open
  granted,     \* server: this connection is authenticated
  verdict,      \* of auth_node: "none", "true" or "false"
  trouble,     \* a command of this attempt failed or had an invalid reply
  attempts     \* connections made so far

authVars == <<mechanism, right, have_pem, encodable, stage, nonce, issued, connected, granted,
              verdict, trouble, attempts>>
inputs == <<mechanism, right, have_pem, encodable>>

AuthInit ==
  /\ mechanism \in Mechanisms
  /\ right \in BOOLEAN /\ have_pem \in BOOLEAN /\ encodable \in BOOLEAN
  /\ stage = "start" /\ nonce = 0 /\ issued = 0
  /\ connected = TRUE /\ granted = FALSE
  /\ verdict = "none" /\ trouble = FALSE
  /\ attempts = 1

AuthReturn(r) == stage' = "done" /\ verdict' = r

\* _mongoc_cluster_auth_node
auth_node ==
  /\ stage = "start"
  /\ \/ mechanism = "MONGODB-CR" /\ stage' = "getnonce" /\ UNCHANGED verdict
     \/ mechanism = "MONGODB-X509" /\ stage' = "x509" /\ UNCHANGED verdict
     \/ mechanism = "GSSAPI" /\ stage' = "sasl" /\ UNCHANGED verdict
     \/ mechanism = "PLAIN" /\ stage' = "plain" /\ UNCHANGED verdict
     \/ mechanism = Unknown /\ AuthReturn("false")
  /\ UNCHANGED <<inputs, nonce, issued, connected, granted, trouble, attempts>>

-----------------------------------------------------------------------------
(* Commands and the server's side of them.                                   *)

\* Mutant: the connection stays open.
FailedQuietly ==
  /\ trouble' = TRUE
  /\ AuthReturn("false")
  /\ UNCHANGED <<connected, nonce>>

\* _mongoc_cluster_run_command failed, before or after the server executed the
\* command: the node is disconnected.
command_failed ==
  /\ connected' = FALSE /\ trouble' = TRUE
  /\ AuthReturn("false")
  /\ UNCHANGED nonce

\* _mongoc_cluster_build_basic_auth_digest
auth_digest(n) == [nonce |-> n, right |-> right]

\* The server executes authenticate or saslStart.
Accepts(digest) == digest.right /\ digest.nonce = issued

\* The reply to an authentication is {ok: 1} exactly if it was accepted.
ok_reply(accepted) ==
  /\ AuthReturn(IF accepted THEN "true" ELSE "false")
  /\ UNCHANGED <<connected, nonce, trouble>>

Authenticate(digest) ==
  LET accepted == Accepts(digest)
  IN  \/ granted' = accepted /\ (ok_reply(accepted) \/ command_failed)
      \/ UNCHANGED granted /\ command_failed

\* getnonce: a nonce, a reply without one, or no reply.
getnonce ==
  /\ stage = "getnonce"
  /\ issued' = attempts
  /\ \/ /\ nonce' = issued' /\ stage' = "authenticate"
        /\ UNCHANGED <<connected, verdict, trouble>>
     \/ /\ trouble' = TRUE /\ AuthReturn("false")
        /\ UNCHANGED <<connected, nonce>>
     \/ command_failed
  /\ UNCHANGED <<inputs, granted, attempts>>

\* authenticate, the second half of _mongoc_cluster_auth_node_cr.
authenticate ==
  /\ stage = "authenticate"
  /\ Authenticate(auth_digest(nonce))
  /\ UNCHANGED <<inputs, issued, attempts>>

\* _mongoc_cluster_auth_node_x509
auth_node_x509 ==
  /\ stage = "x509"
  /\ IF have_pem THEN Authenticate([nonce |-> issued, right |-> right])
     ELSE AuthReturn("false") /\ UNCHANGED <<connected, granted, trouble, nonce>>
  /\ UNCHANGED <<inputs, issued, attempts>>

\* _mongoc_cluster_auth_node_plain
auth_node_plain ==
  /\ stage = "plain"
  /\ IF encodable THEN Authenticate([nonce |-> issued, right |-> right])
     ELSE AuthReturn("false") /\ UNCHANGED <<connected, granted, trouble, nonce>>
  /\ UNCHANGED <<inputs, issued, attempts>>

\* _mongoc_sasl_step refuses when it is called for the first time, with a step
\* of 0, and the length that it is to set is 0.
sasl_step(step, outbuflen) == ~(step = 0 /\ outbuflen = 0)

\* _mongoc_cluster_auth_node_sasl: step and buflen start at 0, the first
\* _mongoc_sasl_step fails and the conversation with the server that follows is
\* not reached.
auth_node_sasl ==
  /\ stage = "sasl"
  /\ ~sasl_step(0, 0)
  /\ AuthReturn("false")
  /\ UNCHANGED <<inputs, nonce, issued, connected, granted, trouble, attempts>>

\* The cluster closes the connection and connects again.
connect_again ==
  /\ stage = "done" /\ verdict = "false" /\ attempts < MaxAttempts
  /\ stage' = "start" /\ verdict' = "none" /\ trouble' = FALSE
  /\ connected' = TRUE /\ granted' = FALSE /\ issued' = 0
  /\ attempts' = attempts + 1
  /\ UNCHANGED <<inputs, nonce>>

AuthNext ==
  \/ auth_node \/ getnonce \/ authenticate
  \/ auth_node_x509 \/ auth_node_plain \/ auth_node_sasl
  \/ connect_again

AuthSpec == AuthInit /\ [][AuthNext]_authVars

-----------------------------------------------------------------------------

\* A node passes for authenticated only if the server authenticated this very
\* connection (_mongoc_cluster_auth_node: "true if authenticated").
OnlyGranted == verdict = "true" => granted /\ connected

\* When the driver gives up on a connection that stays open, the server has not
\* authenticated it: a reply that is lost closes the connection.
NoHalfAuthenticated == verdict = "false" /\ connected => ~granted

\* With the credentials of a user, a certificate where one is needed and every
\* command answered well, MONGODB-CR, MONGODB-X509 and PLAIN succeed, also
\* after a failed attempt.
RightAccepted ==
  /\ right /\ have_pem /\ encodable /\ ~trouble
  /\ mechanism \in {"MONGODB-CR", "MONGODB-X509", "PLAIN"}
  => verdict # "false"

\* Driver and server agree whether a connection is authenticated, whatever
\* reply is lost, and the right credentials are enough.
AuthenticationAgrees == OnlyGranted /\ NoHalfAuthenticated /\ RightAccepted
=============================================================================
