SPECIFICATION ReadSpec
CONSTANTS
  long = long
  short = short
  NoDoc = NoDoc
  NoValue = NoValue
  Doc <- MCDoc
  HalfWord = 4
  MaxSkip = 1
  MaxDocs = 3
  MaxWrites = 1
  Hosts = {h1}
  Primary = h1
  Deployments <- MCDirect
  Columns <- MCColumns
  Kind <- MCKind
  Width <- MCWidth
  HalfInt = 6
  Byte <- MCByte
  Zero = 0
  Value <- MCValue
  Calls <- MCWrong
INVARIANT NoCrash
CHECK_DEADLOCK FALSE
