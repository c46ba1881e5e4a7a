SPECIFICATION DateSpec
CONSTANTS
  PY3 = TRUE
  Span = 172800500
  Stride = 86399
INVARIANT IntegerDates
CHECK_DEADLOCK FALSE
