SPECIFICATION CursorSpec
CONSTANTS
  d1 = d1
  d2 = d2
  h1 = h1
  h2 = h2
  NoDoc = NoDoc
  Doc <- MCDoc
  HalfWord = 4
  MaxSkip = 1
  MaxDocs = 4
  MaxWrites = 1
  Hosts <- MCHosts
  Primary = h1
  Deployments <- MCDeployments
INVARIANTS
  NoLossNoReorder
  LimitRespected
  EndMeansAll
  ServerCursorReleased
PROPERTIES
  NothingAfterEnd
CHECK_DEADLOCK FALSE
