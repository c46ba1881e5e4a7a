SPECIFICATION PartsSpec
CONSTANTS
  MaxFields = 2
  Damage = {0, 2, 9}
  InlineSize = 14
  StructSize = 16
  EmptySize = 5
  MaxSize = 63
  Powers = {1, 2, 4, 8, 16, 32, 64}
  Pieces = {1, 2, 9}
  MaxDepth = 3
  BufLens = {0, 5, 8, 16}
  Offsets = {0, 3, 5}
  FieldSizes = {1, 7}
  MaxLen = 24
  MaxWritten = 3
  FirstLen = 4
  Queries <- SomeQueries
  Documents <- SomeDocuments
  Kinds = {"insert", "duplicate", "large", "update", "upsert", "updateFails", "removeTwo"}
  Wires = {"legacy", "both", "commands"}
  Deliveries = {"replied", "lost", "unsent", "refused"}
  DocRooms = {2}
  Rooms = {0, 1, 3}
  MaxCommands = 9
  MaxBatch = 2
  MaxOps = 3
  ChunkSize = 2
  StreamChunk = 3
  Ops = {"create", "stream", "find", "destroy", "save", "read", "write", "seek", "remove"}
  ReadSizes = {1, 3}
  Outcomes = {"ok", "refused", "lost"}
  GoOn = {"abandoned", "removed"}
  MaxLength = 3
  MaxCalls = 2
  MaxFaults = 1
INVARIANTS
  ReadsWhatWasWritten
  DamageContained
  BufferHolds
  WrittenPacked
  MatcherFaithful
  SentOnceInOrder
  OutcomeHonest
  PageFaithful
PROPERTIES
  StoredSafely
CHECK_DEADLOCK FALSE
