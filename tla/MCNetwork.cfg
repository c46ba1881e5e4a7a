SPECIFICATION PartsSpec
CONSTANTS
  MaxNodes = 3
  Latency = 15
  Pings = {0, 10, 30}
  Mechanisms = {"MONGODB-CR", "MONGODB-X509", "PLAIN", "GSSAPI", "unknown"}
  MaxAttempts = 3
  StreamKinds = {"socket", "file", "tls"}
  Total = 3
  BufferSize = 2
  RpcSize = 2
  Sizes = {1, 2, 3}
  Powers = {1, 2, 4, 8}
  Timeouts = {"finite"}
  MaxBuffers = 3
  MaxLength = 2
  MaxSlow = 1
  Expiry = {"never", "now", "later"}
  Conns = {c1, c2}
  Fds = {0, 1}
  MaxAddrs = 2
INVARIANTS
  ChosenWell
  AuthenticationAgrees
  BytesInOrder
  SentAsCounted
  DescriptorsOwned
CHECK_DEADLOCK FALSE
