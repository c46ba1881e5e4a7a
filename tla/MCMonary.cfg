SPECIFICATION PartsSpec
CONSTANTS
  Client = {c1, c2, c3}
  Gen = {g1, g2}
  NoClient = NoClient
  PY3 = TRUE
  Span = 172800500
  Stride = 86399
  AddressBits = 8
  MaxText = 3
  Key = {a, b, c, d}
  Val = {up, down}
  root = root
  MaxColumns = 2
  MaxStringLength = 3
INVARIANTS
  ClientsAccounted
  GeneratorsKeepClients
  DatesConverted
  ItemExact
  ArgumentsFaithful
PROPERTIES
  ConnectionReleased
  RingIsOrdered
CHECK_DEADLOCK FALSE
