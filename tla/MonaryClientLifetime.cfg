SPECIFICATION SessionSpec
CONSTANTS
  Client = {c1, c2, c3}
  Gen = {g1, g2}
  NoClient = NoClient
INVARIANT ClientOutlivesCursor
CHECK_DEADLOCK FALSE
