------------------------------ MODULE MCNetwork ------------------------------
(* The parts of the driver between the application and the server, in one run: *)
(* choosing a node, authenticating a connection, reading from it, writing to it *)
(* and owning its descriptor.  A behaviour is about one part; the others stay   *)
(* in one of their initial states.                                              *)
EXTENDS MCClusterSelect, ClusterAuth, StreamRead, SocketSend, SocketLifetime

VARIABLE part

SelectStart ==
  /\ nodes = [i \in Slot |-> NodeOf(FALSE, FALSE, -1)]
  /\ ask = [mode |-> "sharded", hint |-> 0, prefs |-> NoPrefs, rpc |-> CHOOSE r \in Rpcs : TRUE]
  /\ chosen = [node |-> -1, error |-> FALSE]
AuthStart ==
  /\ mechanism = "PLAIN" /\ right = TRUE /\ have_pem = FALSE /\ encodable = TRUE
  /\ AuthInit
StreamStart == kind = "socket" /\ StreamInit
SendStart == msg = <<1>> /\ expire = [at |-> "never", past |-> FALSE] /\ SendInit

PartsInit ==
  \/ part = "select" /\ SelectInit /\ AuthStart /\ StreamStart /\ SendStart /\ LifetimeInit
  \/ part = "auth" /\ SelectStart /\ AuthInit /\ StreamStart /\ SendStart /\ LifetimeInit
  \/ part = "read" /\ SelectStart /\ AuthStart /\ StreamInit /\ SendStart /\ LifetimeInit
  \/ part = "send" /\ SelectStart /\ AuthStart /\ StreamStart /\ SendInit /\ LifetimeInit
  \/ part = "lifetime" /\ SelectStart /\ AuthStart /\ StreamStart /\ SendStart /\ LifetimeInit

PartsNext ==
  \/ /\ part = "select" /\ Select
     /\ UNCHANGED <<part, authVars, streamVars, sendVars, lifetimeVars>>
  \/ /\ part = "auth" /\ AuthNext
     /\ UNCHANGED <<part, selectVars, streamVars, sendVars, lifetimeVars>>
  \/ /\ part = "read" /\ StreamNext
     /\ UNCHANGED <<part, selectVars, authVars, sendVars, lifetimeVars>>
  \/ /\ part = "send" /\ SendNext
     /\ UNCHANGED <<part, selectVars, authVars, streamVars, lifetimeVars>>
  \/ /\ part = "lifetime" /\ LifetimeNext
     /\ UNCHANGED <<part, selectVars, authVars, streamVars, sendVars>>

PartsSpec ==
  PartsInit
    /\ [][PartsNext]_<<part, selectVars, authVars, streamVars, sendVars, lifetimeVars>>
=============================================================================
