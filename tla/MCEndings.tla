------------------------------ MODULE MCEndings ------------------------------
(* What must come to an end, in one run: a read of Monary, the threads of a    *)
(* client pool, a request to the cluster, a call on a GridFS file, a read from  *)
(* a stream and a read from a BSON file.  A behaviour is about one part; the    *)
(* others stay in a state in which nobody waits for them: no call is under way, *)
(* or, for a read and for the pool, all is over.                                *)
EXTENDS MCMonaryRead, ClientPool, MCMongocCluster, GridfsFile, StreamRead, BsonReader

VARIABLE part

IsBlockCall(c) == c.method \in {"block_query", "block_aggregate"}

\* Calls that are in order, with and without a limit, and calls that are not.
MCCalls ==
  {c \in MCReads : c.offset = 0 /\ c.limit \in {0, 2, 3} /\ (c.block_size = 2 <=> IsBlockCall(c))}
    \cup MCWrong

\* The count failed, and the method raised.
ReadOver ==
  /\ cursor = cursor_new("find", 0, 0, TRUE)
  /\ server = [coll |-> << >>, pending |-> << >>, handed |-> << >>,
               open |-> FALSE, faulty |-> FALSE, writes |-> 0,
               cluster |-> CHOOSE d \in Deployments : TRUE, host |-> Primary]
  /\ handle = "unborn" /\ returned = << >> /\ ended = FALSE
  /\ call = CHOOSE c \in MCReads : c.method = "query" /\ c.do_count
  /\ pc = "raised" /\ exception = "RuntimeError"
  /\ num_rows = 0 /\ row = 0 /\ arrays = NewArrays(0)
  /\ coldata = "none" /\ collection = "unbound" /\ overrun = FALSE
  /\ block = << >> /\ delivered = << >>

\* Every thread got nothing from try_pop, as often as it asked.
PoolOver ==
  /\ place = [t \in Threads |-> "out"] /\ held = [t \in Threads |-> 0]
  /\ left = [t \in Threads |-> 0] /\ mutex = NoThread /\ woken = {}
  /\ queue = <<>> /\ size = 0 /\ ssl = 0 /\ options = [c \in Clients |-> 0] /\ gone = {}

ClusterStart == ClusterInit /\ cluster.mode = "direct"
StreamStart == kind = "socket" /\ StreamInit
ReaderStart == source = File(<<>>, 0, 0) /\ flavour = "data" /\ ReaderInit

PartsInit ==
  /\ GridfsInit
  /\ \/ part = "call" /\ ReadInit /\ PoolOver /\ ClusterStart /\ StreamStart /\ ReaderStart
     \/ part = "pool" /\ ReadOver /\ PoolInit /\ ClusterStart /\ StreamStart /\ ReaderStart
     \/ part = "cluster" /\ ReadOver /\ PoolOver /\ ClusterInit /\ StreamStart /\ ReaderStart
     \/ part = "gridfs" /\ ReadOver /\ PoolOver /\ ClusterStart /\ StreamStart /\ ReaderStart
     \/ part = "stream" /\ ReadOver /\ PoolOver /\ ClusterStart /\ StreamInit /\ ReaderStart
     \/ part = "reader" /\ ReadOver /\ PoolOver /\ ClusterStart /\ StreamStart /\ ReaderInit

\* A step of one part leaves the others alone.
OneCall(A) ==
  /\ part = "call" /\ A
  /\ UNCHANGED <<part, poolVars, clusterVars, gridfsVars, streamVars, readerVars>>
OnePool(A) ==
  /\ part = "pool" /\ A
  /\ UNCHANGED <<part, readVars, clusterVars, gridfsVars, streamVars, readerVars>>
OneCluster(A) ==
  /\ part = "cluster" /\ A
  /\ UNCHANGED <<part, readVars, poolVars, gridfsVars, streamVars, readerVars>>
OneGridfs(A) ==
  /\ part = "gridfs" /\ A
  /\ UNCHANGED <<part, readVars, poolVars, clusterVars, streamVars, readerVars>>
OneStream(A) ==
  /\ part = "stream" /\ A
  /\ UNCHANGED <<part, readVars, poolVars, clusterVars, gridfsVars, readerVars>>
OneReader(A) ==
  /\ part = "reader" /\ A
  /\ UNCHANGED <<part, readVars, poolVars, clusterVars, gridfsVars, streamVars>>

PartsNext ==
  \/ OneCall(ReadNext)
  \/ OnePool(PoolNext)
  \/ OneCluster(ClusterNext)
  \/ OneGridfs(GridfsNext)
  \/ OneStream(StreamNext)
  \/ OneReader(ReaderNext)

partsVars == <<part, readVars, poolVars, clusterVars, gridfsVars, streamVars, readerVars>>

\* ReadFairness, PoolFairness, ClusterFairness, GridfsFairness, StreamFairness
\* and ReaderFairness: where a behaviour is about another part nothing that they
\* ask for is enabled, which the conjunct on part tells TLC at once.
PartsFairness ==
  /\ WF_readVars(part = "call" /\ CallStep) /\ WF_readVars(part = "call" /\ CallerStep)
  /\ \A t \in Threads : SF_poolVars(part = "pool" /\ PoolThread(t))
  /\ WF_clusterVars(part = "cluster" /\ ClusterStep)
  /\ WF_gridfsVars(part = "gridfs" /\ GridfsTurn)
  /\ WF_streamVars(part = "stream" /\ StreamTurn)
  /\ WF_streamVars(part = "stream" /\ TimeoutPasses)
  /\ WF_readerVars(part = "reader" /\ ReaderTurn)

PartsSpec ==
  /\ PartsInit
  /\ [][PartsNext]_partsVars
  /\ PartsFairness

\* Every call of the driver that has begun returns: the retries of the cluster
\* are counted, the loops of a GridFS file and of a BSON reader get on, and a
\* deadline ends a read, whatever the peer does.
EveryCallReturns == CallsReturn /\ FileCallsReturn /\ CallsEnd /\ ReadReturns
=============================================================================
