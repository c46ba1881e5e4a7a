SPECIFICATION PartsSpec
CONSTANTS
  long = long
  short = short
  NoDoc = NoDoc
  NoValue = NoValue
  Doc <- MCDoc
  HalfWord = 4
  MaxSkip = 1
  MaxDocs = 2
  MaxWrites = 0
  Hosts = {h1}
  Primary = h1
  Deployments <- MCDirect
  Columns <- MCColumns
  Kind <- MCKind
  Width <- MCWidth
  HalfInt = 6
  Byte <- MCByte
  Zero = 0
  Value <- MCValue
  Calls <- MCCalls
  Threads = {t1, t2, t3}
  max_pool_size = 2
  Uses = 2
  MaxSslChanges = 1
  MaxNodes = 2
  Latency = 15
  Pings = {0}
  Modes = {"direct", "replica set", "sharded"}
  Requests <- AFewRequests
  Seeds <- TwoSeeds
  Members = 2
  RequiresAuth = TRUE
  MaxRetry = 1
  MaxStamp = 1
  ChunkSize = 2
  StreamChunk = 3
  Ops = {"create", "stream", "find", "destroy", "save", "read", "write", "seek"}
  ReadSizes = {1, 3}
  Outcomes = {"ok", "refused", "lost"}
  GoOn = {"abandoned", "removed"}
  MaxLength = 4
  MaxCalls = 1
  MaxFaults = 1
  StreamKinds = {"socket", "file", "tls"}
  Total = 2
  BufferSize = 2
  RpcSize = 2
  Sizes = {1, 2}
  Powers = {1, 2, 4, 8}
  Timeouts = {"forever", "finite"}
  DocLengths = {5, 13}
  MaxInFile = 2
  BufLen = 6
INVARIANTS
  WrongCallsFail
  ClientsShared
  ConnectionsUsable
  ReaderFaithful
PROPERTIES
  Terminates
  EveryThreadFinishes
  EveryCallReturns
CHECK_DEADLOCK FALSE
