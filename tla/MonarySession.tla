---------------------------- MODULE MonarySession ----------------------------
(***************************************************************************)
(* The lifetime of a Monary object, of the mongoc_client_t it owns and of  *)
(* the block generators that read through it.  A generator keeps a         *)
(* collection and a cursor of the client it started on while it is         *)
(* suspended at its yield, and its caller may meanwhile close or reconnect *)
(* the Monary object, or drop its last reference to it.                    *)
(*                                                                         *)
(* One thread: calls on the object do not overlap, but they fall between   *)
(* any two steps of any generator.                                         *)
(***************************************************************************)
EXTENDS Naturals

CONSTANTS
  Client,      \* the clients mongoc_client_new makes, one per call
  Gen,         \* the generators the caller creates
  NoClient     \* None

ASSUME SessionConstants == NoClient \notin Client

VARIABLES
  connection,  \* self._connection
  client,      \* the state of every mongoc_client_t
  gen,         \* the generators
  object,      \* the Monary object
  held,        \* does the caller hold a reference to it?
  explicit,    \* history: clients destroyed by close or connect, not __del__
  misused      \* history: a destroyed client was used

sessionVars == <<connection, client, gen, object, held, explicit, misused>>

ClientStates == {"unborn", "live", "destroyed", "destroyed twice"}

\* cursor_id: of the server cursor; destroying the generator's cursor sends one
\* that is not 0 to the server, through the client.
GenType ==
  [state: {"none", "created", "suspended", "finished"},
   client: Client \cup {NoClient}, cursor_id: {0, 1}]

SessionInit ==
  /\ connection = NoClient
  /\ client = [c \in Client |-> "unborn"]
  /\ gen = [g \in Gen |->
              [state |-> "none", client |-> NoClient, cursor_id |-> 0]]
  /\ object = "unborn"
  /\ held = FALSE
  /\ explicit = {}
  /\ misused = FALSE

-----------------------------------------------------------------------------
(* The connection.                                                         *)

\* Mutant: the client is never destroyed.
NeverDisconnected == client

\* monary_disconnect on the current connection, if there is one.
Disconnected ==
  IF connection = NoClient THEN client
  ELSE [client EXCEPT ![connection] =
          IF @ = "live" THEN "destroyed" ELSE "destroyed twice"]

\* What monary_connect makes of the clients cs.
Connected(cs, c) == IF c = NoClient THEN cs ELSE [cs EXCEPT ![c] = "live"]

\* A client mongoc_client_new can return: a new one, or NULL.
Available(c) == c \in Client => client[c] = "unborn"

\* Monary(...): a NULL client raises ValueError and the object is dropped.
Construct(c) ==
  /\ object = "unborn"
  /\ Available(c)
  /\ connection' = c
  /\ client' = Connected(client, c)
  /\ object' = IF c = NoClient THEN "collected" ELSE "alive"
  /\ held' = (c # NoClient)
  /\ UNCHANGED <<gen, explicit, misused>>

\* connect(...): the old client is gone also when the new one cannot be had
\* (NULL, or an exception while the URI is built).
Connect(c) ==
  /\ object = "alive"
  /\ held
  /\ Available(c)
  /\ connection' = c
  /\ client' = Connected(Disconnected, c)
  /\ explicit' = explicit \cup ({connection} \ {NoClient})
  /\ UNCHANGED <<gen, object, held, misused>>

\* Mutant: self._connection is not reset.
CloseKeeping ==
  /\ object = "alive"
  /\ held
  /\ client' = Disconnected
  /\ explicit' = explicit \cup ({connection} \ {NoClient})
  /\ UNCHANGED <<connection, gen, object, held, misused>>

\* close(), or leaving a with block.
Close ==
  /\ object = "alive"
  /\ held
  /\ connection' = NoClient
  /\ client' = Disconnected
  /\ explicit' = explicit \cup ({connection} \ {NoClient})
  /\ UNCHANGED <<gen, object, held, misused>>

\* The caller's last name for the object goes away.
DropReference ==
  /\ held
  /\ held' = FALSE
  /\ UNCHANGED <<connection, client, gen, object, explicit, misused>>

\* The frame of a generator that is not finished refers to the object.
Unfinished(g) == gen[g].state \in {"created", "suspended"}

\* Mutant: the generators do not keep the object.
DelAnyway ==
  /\ object = "alive"
  /\ ~held
  /\ connection' = NoClient
  /\ client' = Disconnected
  /\ object' = "collected"
  /\ UNCHANGED <<gen, held, explicit, misused>>

\* __del__, once nothing refers to the object.
Del ==
  /\ object = "alive"
  /\ ~held
  /\ \A g \in Gen : ~Unfinished(g)
  /\ connection' = NoClient
  /\ client' = Disconnected
  /\ object' = "collected"
  /\ UNCHANGED <<gen, held, explicit, misused>>

-----------------------------------------------------------------------------
(* The generators of block_query and block_aggregate.                      *)

Create(g) ==
  /\ object = "alive"
  /\ held
  /\ gen[g].state = "none"
  /\ gen' = [gen EXCEPT ![g].state = "created"]
  /\ UNCHANGED <<connection, client, object, held, explicit, misused>>

\* A call that reaches client c through a cursor.
Uses(c) == misused' = (misused \/ client[c] # "live")

\* A load ends at the next yield or in the finally blocks.
Loaded(g, c) ==
  \E state \in {"suspended", "finished"}, id \in {0, 1} :
    /\ state = "finished" => id = 0
    /\ gen' = [gen EXCEPT ![g] =
                 [state |-> state, client |-> c, cursor_id |-> id]]

\* The first next(): without a connection an exception ends the generator.
Start(g) ==
  /\ gen[g].state = "created"
  /\ \/ /\ connection # NoClient
        /\ Uses(connection)
        /\ Loaded(g, connection)
     \/ /\ connection = NoClient
        /\ gen' = [gen EXCEPT ![g].state = "finished"]
        /\ UNCHANGED misused
  /\ UNCHANGED <<connection, client, object, held, explicit>>

\* A later next(): the cursor still points to the client it was made on.
Resume(g) ==
  /\ gen[g].state = "suspended"
  /\ Uses(gen[g].client)
  /\ Loaded(g, gen[g].client)
  /\ UNCHANGED <<connection, client, object, held, explicit>>

\* The generator is closed or dropped; one that has not started runs nothing.
CloseGenerator(g) ==
  /\ Unfinished(g)
  /\ gen' = [gen EXCEPT ![g].state = "finished", ![g].cursor_id = 0]
  /\ IF gen[g].cursor_id # 0 THEN Uses(gen[g].client) ELSE UNCHANGED misused
  /\ UNCHANGED <<connection, client, object, held, explicit>>

-----------------------------------------------------------------------------

SessionNext ==
  \/ \E c \in Client \cup {NoClient} : Construct(c) \/ Connect(c)
  \/ Close
  \/ DropReference
  \/ Del
  \/ \E g \in Gen : Create(g) \/ Start(g) \/ Resume(g) \/ CloseGenerator(g)

\* An object without references is deleted, and a caller lets go of a
\* generator in the end.
SessionFairness ==
  /\ WF_sessionVars(Del)
  /\ \A g \in Gen : WF_sessionVars(CloseGenerator(g))

SessionSpec == SessionInit /\ [][SessionNext]_sessionVars /\ SessionFairness

-----------------------------------------------------------------------------
(* Properties.                                                             *)

SessionTypeOK ==
  /\ connection \in Client \cup {NoClient}
  /\ client \in [Client -> ClientStates]
  /\ gen \in [Gen -> GenType]
  /\ object \in {"unborn", "alive", "collected"}
  /\ held \in BOOLEAN
  /\ explicit \subseteq Client
  /\ misused \in BOOLEAN

\* Of all the clients ever made, the live one is the current connection: none
\* is leaked by a reconnection, a failed connection or a deletion, and none
\* is destroyed twice.
ClientsAccounted ==
  \A c \in Client :
    /\ client[c] = "live" <=> c = connection
    /\ client[c] # "destroyed twice"

\* Garbage collection never takes the client from under a suspended
\* generator, in whatever order references are dropped: a generator whose
\* client is gone was left by an explicit close or connect.
OnlyExplicitlyLeft ==
  \A g \in Gen :
    gen[g].state = "suspended" /\ client[gen[g].client] # "live"
      => gen[g].client \in explicit

\* A destroyed client is used only after such a close or connect.
MisuseIsExplicit == misused => explicit # {}

\* Once the caller has dropped the object, its connection is closed in the
\* end, though suspended generators keep it open for a while.
ConnectionReleased ==
  object = "alive" /\ ~held ~> \A c \in Client : client[c] # "live"

\* mongoc_collection_find requires it: the client is valid for the lifetime
\* of the cursor.
ClientOutlivesCursor ==
  \A g \in Gen : gen[g].state = "suspended" => client[gen[g].client] = "live"

\* Garbage collection and the generators agree on a client's life: it ends
\* under a generator only by close or connect, and only then is it misused
\* (monary.py:665-681).
GeneratorsKeepClients == OnlyExplicitlyLeft /\ MisuseIsExplicit
=============================================================================
