------------------------------ MODULE DateHelper ------------------------------
(***************************************************************************)
(* monary/datehelper.py: Mongo dates (milliseconds since 1970) to and from *)
(* Python datetimes.  A datetime is represented by its distance from       *)
(* MONGO_DATE_EPOCH, a normalized timedelta: seconds and microseconds are  *)
(* never negative, only days are.                                          *)
(***************************************************************************)
EXTENDS Integers

CONSTANTS
  PY3,         \* does / divide integers to a float (Python 3) or floor (2)?
  Span,        \* bound: the milliseconds before and after 1970 of a run
  Stride       \* bound: from one of them to the next

ASSUME DateConstants ==
  /\ PY3 \in BOOLEAN
  /\ Span \in Nat
  /\ Stride \in Nat \ {0}

DaySeconds == 24 * 3600
Milli == 1000          \* milliseconds in a second, microseconds in one
Micro == 1000 * 1000   \* microseconds in a second

Timedelta ==
  [days: Int, seconds: 0..(DaySeconds - 1), microseconds: 0..(Micro - 1)]

\* datetime.timedelta(seconds=secs, milliseconds=millis) (external).
timedelta(secs, millis) ==
  [days |-> secs \div DaySeconds, seconds |-> secs % DaySeconds,
   microseconds |-> millis * 1000]

\* secs, millis = divmod(mongodelta, 1000)
mongodelta_to_timedelta(mongodelta) ==
  timedelta(mongodelta \div 1000, mongodelta % 1000)

\* Mutant: only the seconds of the timedelta, as td.seconds suggests.
DaysForgotten(td) ==
  [millis |-> td.microseconds \div 1000 + td.seconds * 1000,
   thousandths |-> IF PY3 THEN td.microseconds % 1000 ELSE 0]

\* The result is a number of milliseconds with a fraction of thousandths.
timedelta_to_mongodelta(td) ==
  [millis    |-> td.microseconds \div 1000
                   + (td.seconds + td.days * 24 * 3600) * 1000,
   thousandths |-> IF PY3 THEN td.microseconds % 1000 ELSE 0]

\* What int() and an int64 array make of it: towards zero.
Truncated(number) ==
  IF number.millis < 0 /\ number.thousandths > 0 THEN number.millis + 1
  ELSE number.millis

-----------------------------------------------------------------------------
(* A run goes through the milliseconds from -Span to Span, and through a    *)
(* few microseconds within each.                                            *)

VARIABLES mongodate, micros

dateVars == <<mongodate, micros>>

DateInit == mongodate = -Span /\ micros \in {0, 1, 500, 999}

DateNext ==
  /\ mongodate + Stride <= Span
  /\ mongodate' = mongodate + Stride
  /\ UNCHANGED micros

DateSpec == DateInit /\ [][DateNext]_dateVars

\* mongodate_to_datetime(mongodate), and a time within its millisecond.
Datetime == mongodelta_to_timedelta(mongodate)
Within   == [Datetime EXCEPT !.microseconds = @ + micros]

\* The type invariant: datetimes are normalized, as Python keeps them.
DateTypeOK ==
  /\ mongodate \in Int
  /\ micros \in 0..(Milli - 1)
  /\ Datetime \in Timedelta
  /\ Within \in Timedelta

\* A Mongo date survives the way to a datetime and back exactly, before and
\* after 1970, although divmod floors and days alone carry the sign.
DateRoundTrip ==
  timedelta_to_mongodelta(Datetime) = [millis |-> mongodate, thousandths |-> 0]

\* A datetime that falls within a millisecond comes back as that millisecond,
\* but before 1970, where a float is cut towards zero, maybe as the next one.
WithinMillisecond ==
  Truncated(timedelta_to_mongodelta(Within)) \in
    IF mongodate < 0 /\ micros > 0 THEN {mongodate, mongodate + 1} ELSE {mongodate}

\* Both conversions together: every time is normalized, comes back as its
\* millisecond and, if it is a whole one, exactly.
DatesConverted == DateTypeOK /\ DateRoundTrip /\ WithinMillisecond

\* datetime_to_mongodate is documented to return an integer.
IntegerDates == timedelta_to_mongodelta(Within).thousandths = 0
=============================================================================
