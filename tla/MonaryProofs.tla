----------------------------- MODULE MonaryProofs -----------------------------
(***************************************************************************)
(* Theorems about five parts of the Monary package: the safety invariants   *)
(* of MonarySession hold for any number of clients and generators, the      *)
(* conversions of DateHelper are right for every Mongo date, not only for   *)
(* the range a run goes through, and under both Python versions, the links  *)
(* of OrderedDict implement OrderedItems for any keys and values, the       *)
(* loaders (MonaryLoaders) keep what fits for any width of an address, and  *)
(* the arguments (MonaryArguments) reach the C library within its limits,   *)
(* whatever they are.                                                       *)
(***************************************************************************)
EXTENDS MonarySession, DateHelper, OrderedDict, MonaryLoaders, MonaryArguments, SumProofs,
        SequenceTheorems, FiniteSetTheorems, WellFoundedInduction, TLAPS

-----------------------------------------------------------------------------
(* MonarySession.                                                           *)

\* Before the object exists and after it is gone nothing refers to it.
Idle ==
  object # "alive" =>
    /\ connection = NoClient
    /\ ~held
    /\ \A g \in Gen : ~Unfinished(g)

\* A suspended generator holds on to a client that was made, and that is
\* either the current connection or one that was left explicitly.
GeneratorClients ==
  \A g \in Gen :
    /\ gen[g].state = "suspended" => gen[g].client \in explicit \cup {connection}
    /\ gen[g].state = "suspended" => gen[g].client # NoClient
    /\ gen[g].cursor_id # 0 => gen[g].state = "suspended"

\* The inductive invariant.
SessionInv ==
  /\ SessionTypeOK
  /\ ClientsAccounted
  /\ Idle
  /\ GeneratorClients
  /\ MisuseIsExplicit

\* The invariant holds when the module has been imported and no Monary object
\* exists yet.
LEMMA SessionInvInit == SessionInit => SessionInv
<1> SUFFICES ASSUME SessionInit PROVE SessionInv
  OBVIOUS
<1>1. SessionTypeOK
  BY DEF SessionInit, SessionTypeOK, ClientStates, GenType
<1>2. ClientsAccounted
  BY SessionConstants DEF SessionInit, ClientsAccounted
<1>3. Idle /\ GeneratorClients
  BY DEF SessionInit, Idle, Unfinished, GeneratorClients
<1>4. MisuseIsExplicit
  BY DEF SessionInit, MisuseIsExplicit
<1> QED BY <1>1, <1>2, <1>3, <1>4 DEF SessionInv

\* What monary_disconnect leaves: no live client, and none destroyed twice.
LEMMA DisconnectedClients ==
  ASSUME SessionTypeOK, ClientsAccounted
  PROVE  /\ Disconnected \in [Client -> ClientStates]
         /\ \A c \in Client : /\ Disconnected[c] # "live"
                              /\ Disconnected[c] # "destroyed twice"
                              /\ Disconnected[c] = "unborn" <=> client[c] = "unborn"
BY SessionConstants
   DEF SessionTypeOK, ClientsAccounted, Disconnected, ClientStates

\* Every operation on the Monary object and every step of a generator keeps
\* the invariant.
LEMMA SessionInvNext == SessionInv /\ [SessionNext]_sessionVars => SessionInv'
<1> SUFFICES ASSUME SessionInv, [SessionNext]_sessionVars
             PROVE  SessionInv'
  OBVIOUS
<1> USE DEF SessionInv
<1>1. ASSUME NEW c \in Client \cup {NoClient}, Construct(c)
      PROVE  SessionInv'
  BY <1>1, SessionConstants
     DEF Construct, Connected, Available, SessionTypeOK, ClientsAccounted, Idle,
         Unfinished, GeneratorClients, MisuseIsExplicit, ClientStates
<1>2. ASSUME NEW c \in Client \cup {NoClient}, Connect(c)
      PROVE  SessionInv'
  <2>1. (SessionTypeOK /\ ClientsAccounted)'
    BY <1>2, DisconnectedClients, SessionConstants
       DEF Connect, Connected, Available, SessionTypeOK, ClientsAccounted, ClientStates
  <2>2. (Idle /\ GeneratorClients /\ MisuseIsExplicit)'
    BY <1>2, SessionConstants
       DEF Connect, SessionTypeOK, Idle, Unfinished, GeneratorClients, MisuseIsExplicit
  <2> QED BY <2>1, <2>2
<1>3. CASE Close
  <2>1. (SessionTypeOK /\ ClientsAccounted)'
    BY <1>3, DisconnectedClients, SessionConstants
       DEF Close, SessionTypeOK, ClientsAccounted
  <2>2. (Idle /\ GeneratorClients /\ MisuseIsExplicit)'
    BY <1>3, SessionConstants
       DEF Close, SessionTypeOK, Idle, Unfinished, GeneratorClients, MisuseIsExplicit
  <2> QED BY <2>1, <2>2
<1>4. CASE DropReference
  BY <1>4 DEF DropReference, SessionTypeOK, ClientsAccounted, Idle, Unfinished,
              GeneratorClients, MisuseIsExplicit
<1>5. CASE Del
  <2>1. (SessionTypeOK /\ ClientsAccounted)'
    BY <1>5, DisconnectedClients, SessionConstants
       DEF Del, SessionTypeOK, ClientsAccounted
  <2>2. (Idle /\ GeneratorClients /\ MisuseIsExplicit)'
    BY <1>5 DEF Del, SessionTypeOK, Idle, Unfinished, GeneratorClients, MisuseIsExplicit
  <2> QED BY <2>1, <2>2
<1>6. ASSUME NEW g \in Gen, Create(g)
      PROVE  SessionInv'
  BY <1>6, ZenonT(60) DEF Create, SessionTypeOK, ClientsAccounted, Idle, Unfinished,
              GeneratorClients, MisuseIsExplicit, GenType
<1>7. ASSUME NEW g \in Gen, Start(g)
      PROVE  SessionInv'
  <2>1. ClientsAccounted' /\ UNCHANGED <<connection, client, object, held, explicit>>
    BY <1>7 DEF Start, ClientsAccounted
  <2>2. gen' \in [Gen -> GenType] /\ misused' \in BOOLEAN
    <3>1. misused' \in BOOLEAN
      BY <1>7 DEF Start, Uses, SessionTypeOK
    <3>2. CASE connection # NoClient
      BY <1>7, <3>1, <3>2 DEF Start, Loaded, SessionTypeOK, GenType
    <3>3. CASE connection = NoClient
      BY <1>7, <3>1, <3>3 DEF Start, SessionTypeOK, GenType
    <3> QED BY <3>2, <3>3
  <2>3. Idle'
    BY <1>7, <2>1 DEF Start, Uses, Loaded, SessionTypeOK, Idle, Unfinished, GenType
  <2>4. GeneratorClients'
    BY <1>7, <2>1, SessionConstants
       DEF Start, Uses, Loaded, SessionTypeOK, GeneratorClients, GenType
  <2>5. MisuseIsExplicit'
    BY <1>7, <2>1, SessionConstants
       DEF Start, Uses, SessionTypeOK, ClientsAccounted, GeneratorClients,
           MisuseIsExplicit, GenType
  <2> QED BY <2>1, <2>2, <2>3, <2>4, <2>5 DEF SessionTypeOK
<1>8. ASSUME NEW g \in Gen, Resume(g)
      PROVE  SessionInv'
  <2>1. ClientsAccounted' /\ UNCHANGED <<connection, client, object, held, explicit>>
    BY <1>8 DEF Resume, ClientsAccounted
  <2>2. gen' \in [Gen -> GenType] /\ misused' \in BOOLEAN
    BY <1>8 DEF Resume, Uses, Loaded, SessionTypeOK, GenType
  <2>3. Idle'
    BY <1>8, <2>1 DEF Resume, Uses, Loaded, SessionTypeOK, Idle, Unfinished, GenType
  <2>4. GeneratorClients'
    BY <1>8, <2>1, SessionConstants
       DEF Resume, Uses, Loaded, SessionTypeOK, GeneratorClients, GenType
  <2>5. MisuseIsExplicit'
    BY <1>8, <2>1, SessionConstants
       DEF Resume, Uses, SessionTypeOK, ClientsAccounted, GeneratorClients,
           MisuseIsExplicit, GenType
  <2> QED BY <2>1, <2>2, <2>3, <2>4, <2>5 DEF SessionTypeOK
<1>9. ASSUME NEW g \in Gen, CloseGenerator(g)
      PROVE  SessionInv'
  <2>1. ClientsAccounted' /\ UNCHANGED <<connection, client, object, held, explicit>>
    BY <1>9 DEF CloseGenerator, ClientsAccounted
  <2>2. gen' \in [Gen -> GenType] /\ misused' \in BOOLEAN
    BY <1>9, ZenonT(60) DEF CloseGenerator, Uses, SessionTypeOK, GenType
  <2>3. Idle'
    BY <1>9, <2>1 DEF CloseGenerator, Uses, SessionTypeOK, Idle, Unfinished, GenType
  <2>4. GeneratorClients'
    BY <1>9, <2>1, SessionConstants
       DEF CloseGenerator, Uses, SessionTypeOK, GeneratorClients, GenType
  <2>5. MisuseIsExplicit'
    BY <1>9, <2>1, SessionConstants
       DEF CloseGenerator, Uses, SessionTypeOK, ClientsAccounted, GeneratorClients,
           MisuseIsExplicit, GenType
  <2> QED BY <2>1, <2>2, <2>3, <2>4, <2>5 DEF SessionTypeOK
<1>10. CASE UNCHANGED sessionVars
  BY <1>10 DEF sessionVars, SessionTypeOK, ClientsAccounted, Idle, Unfinished,
               GeneratorClients, MisuseIsExplicit
<1> QED
  BY <1>1, <1>2, <1>3, <1>4, <1>5, <1>6, <1>7, <1>8, <1>9, <1>10 DEF SessionNext

\* The inductive invariant is an invariant of the specification.
LEMMA SessionInvariant == SessionSpec => []SessionInv
BY SessionInvInit, SessionInvNext, PTL DEF SessionSpec

(***************************************************************************)
(* The state of a Monary object is well formed.                            *)
(***************************************************************************)
THEOREM SessionTypeCorrect == SessionSpec => []SessionTypeOK
BY SessionInvariant, PTL DEF SessionInv

(***************************************************************************)
(* However often the object connects, reconnects, fails to connect, is     *)
(* closed or collected, the live client is the one in self._connection,    *)
(* and none is destroyed twice (monary.py, lines 274 to 338 and 663 to     *)
(* 680).                                                                   *)
(***************************************************************************)
THEOREM ClientsAccountedHolds == SessionSpec => []ClientsAccounted
BY SessionInvariant, PTL DEF SessionInv

(***************************************************************************)
(* Garbage collection never takes the client from under a suspended        *)
(* generator, for any number of generators.                                *)
(***************************************************************************)
THEOREM OnlyExplicitlyLeftHolds == SessionSpec => []OnlyExplicitlyLeft
<1>1. SessionInv => OnlyExplicitlyLeft
  BY SessionConstants
     DEF SessionInv, SessionTypeOK, ClientsAccounted, GeneratorClients,
         OnlyExplicitlyLeft, GenType
<1> QED BY <1>1, SessionInvariant, PTL

(***************************************************************************)
(* A destroyed client is used only after an explicit close or connect.     *)
(***************************************************************************)
THEOREM MisuseIsExplicitHolds == SessionSpec => []MisuseIsExplicit
BY SessionInvariant, PTL DEF SessionInv

(***************************************************************************)
(* Collection and misuse together: under a suspended generator a client    *)
(* goes only by an explicit close or connect, and is misused only then     *)
(* (monary.py, lines 663 to 681).                                          *)
(***************************************************************************)
THEOREM GeneratorsKeepClientsHolds == SessionSpec => []GeneratorsKeepClients
BY OnlyExplicitlyLeftHolds, MisuseIsExplicitHolds, PTL DEF GeneratorsKeepClients

-----------------------------------------------------------------------------
(* DateHelper.                                                              *)

\* What an invariance proof about the conversions needs to know of a state.
DateState == mongodate \in Int /\ micros \in 0..(Milli - 1)

\* The walk over the dates stays within the integers.
LEMMA DateStateInvariant == DateSpec => []DateState
<1>1. DateInit => DateState
  BY DateConstants DEF DateInit, DateState, Milli
<1>2. DateState /\ [DateNext]_dateVars => DateState'
  BY DateConstants DEF DateState, DateNext, dateVars
<1> QED BY <1>1, <1>2, PTL DEF DateSpec

\* divmod(n, d) puts an integer together again.
LEMMA DivMod ==
  ASSUME NEW n \in Int, NEW d \in Nat \ {0}
  PROVE  /\ n \div d \in Int
         /\ n % d \in 0..(d - 1)
         /\ n = d * (n \div d) + (n % d)
BY SMT

\* timedelta() normalizes: days carry the sign, the rest is in range.
LEMMA TimedeltaOfMongodelta ==
  ASSUME NEW m \in Int
  PROVE  /\ mongodelta_to_timedelta(m) \in Timedelta
         /\ DaySeconds * mongodelta_to_timedelta(m).days
              + mongodelta_to_timedelta(m).seconds = m \div 1000
<1> DEFINE secs == m \div 1000
           millis == m % 1000
<1>1. secs \in Int /\ millis \in Int /\ 0 <= millis /\ millis < 1000
  BY DivMod, SMT
<1> HIDE DEF secs, millis
<1>2. DaySeconds \in Nat \ {0}
  BY SMT DEF DaySeconds
<1>3. /\ secs \div DaySeconds \in Int
      /\ secs % DaySeconds \in 0..(DaySeconds - 1)
      /\ secs = DaySeconds * (secs \div DaySeconds) + (secs % DaySeconds)
  BY <1>1, <1>2, DivMod, SMT
<1>4. millis * 1000 \in 0..(Micro - 1)
  <2>1. Micro \in Int /\ millis * 1000 <= Micro - 1
    BY <1>1, SMT DEF Micro
  <2> QED BY <1>1, <2>1, SMT
<1> QED
  <2>1. mongodelta_to_timedelta(m) = timedelta(secs, millis)
    BY DEF mongodelta_to_timedelta, secs, millis
  <2> QED BY <2>1, <1>3, <1>4, SMT DEF timedelta, Timedelta, secs, millis

\* The two conversions of a time difference are inverse to each other on whole
\* milliseconds.
LEMMA RoundTripOfMongodelta ==
  ASSUME NEW m \in Int
  PROVE  timedelta_to_mongodelta(mongodelta_to_timedelta(m))
           = [millis |-> m, thousandths |-> 0]
<1> DEFINE td == mongodelta_to_timedelta(m)
<1>1. /\ td \in Timedelta
      /\ td.microseconds = (m % 1000) * 1000
      /\ DaySeconds * td.days + td.seconds = m \div 1000
  <2>1. td.microseconds = (m % 1000) * 1000
    BY SMT DEF mongodelta_to_timedelta, timedelta
  <2> QED BY <2>1, TimedeltaOfMongodelta, SMT
<1>2. /\ m \div 1000 \in Int /\ m % 1000 \in Int
      /\ 0 <= m % 1000 /\ m % 1000 < 1000
      /\ m = 1000 * (m \div 1000) + (m % 1000)
  BY DivMod, SMT
<1> HIDE DEF td
<1>3. td.days \in Int /\ td.seconds \in Int
  BY <1>1, SMT DEF Timedelta
<1>4. td.microseconds \div 1000 = m % 1000 /\ td.microseconds % 1000 = 0
  BY <1>1, <1>2, SMT
<1>5. (td.seconds + td.days * 24 * 3600) * 1000 = 1000 * (m \div 1000)
  BY <1>1, <1>3, <1>2, SMT DEF DaySeconds
<1> QED
  BY <1>2, <1>4, <1>5, DateConstants, SMT DEF timedelta_to_mongodelta, td

(***************************************************************************)
(* For every Mongo date, mongodate_to_datetime followed by                 *)
(* datetime_to_mongodate is the identity (datehelper.py, lines 8 to 52).   *)
(***************************************************************************)
THEOREM DateRoundTripHolds == DateSpec => []DateRoundTrip
<1>1. DateState => DateRoundTrip
  BY RoundTripOfMongodelta DEF DateState, DateRoundTrip, Datetime
<1> QED BY <1>1, DateStateInvariant, PTL

\* A number of milliseconds and one of microseconds within the next.
LEMMA Microseconds ==
  ASSUME NEW r \in Int, 0 <= r, r < 1000, NEW k \in Int, 0 <= k, k < 1000
  PROVE  /\ (r * 1000 + k) \div 1000 = r
         /\ (r * 1000 + k) % 1000 = k
         /\ r * 1000 + k \in 0..(Micro - 1)
<1>1. (r * 1000 + k) \div 1000 = r /\ (r * 1000 + k) % 1000 = k
  BY SMT
<1>2. Micro = 1000000
  BY SMT DEF Micro
<1>3. r * 1000 + k \in Int /\ 0 <= r * 1000 + k /\ r * 1000 + k <= Micro - 1
  BY <1>2, SMT
<1>4. r * 1000 + k \in 0..(Micro - 1)
  <2> DEFINE n == r * 1000 + k
  <2>1. n \in Int /\ 0 <= n /\ n <= Micro - 1 /\ Micro \in Int
    BY <1>2, <1>3, SMT
  <2> HIDE DEF n
  <2>2. n \in 0..(Micro - 1)
    BY <2>1, SMT
  <2> QED BY <2>2 DEF n
<1> QED BY <1>1, <1>4

\* k microseconds after the start of millisecond m, as a timedelta.
After(m, k) == [mongodelta_to_timedelta(m) EXCEPT !.microseconds = @ + k]

\* The fields of the timedelta that a Mongo date becomes.
LEMMA FieldsAfter ==
  ASSUME NEW m \in Int, NEW k
  PROVE  After(m, k) = [days |-> mongodelta_to_timedelta(m).days,
                        seconds |-> mongodelta_to_timedelta(m).seconds,
                        microseconds |-> (m % 1000) * 1000 + k]
BY DEF After, mongodelta_to_timedelta, timedelta

\* A time of day in seconds and microseconds, within its millisecond.
LEMMA TimeWithin ==
  ASSUME NEW m \in Int, NEW k \in 0..(Milli - 1)
  PROVE  /\ After(m, k) \in Timedelta
         /\ timedelta_to_mongodelta(After(m, k))
              = [millis |-> m, thousandths |-> IF PY3 THEN k ELSE 0]
<1> DEFINE days == mongodelta_to_timedelta(m).days
           seconds == mongodelta_to_timedelta(m).seconds
           us == (m % 1000) * 1000 + k
<1>1. /\ days \in Int /\ seconds \in 0..(DaySeconds - 1) /\ seconds \in Int
      /\ DaySeconds * days + seconds = m \div 1000
  <2>1. mongodelta_to_timedelta(m) \in Timedelta
    BY TimedeltaOfMongodelta
  <2>2. days \in Int /\ seconds \in 0..(DaySeconds - 1)
    BY <2>1 DEF Timedelta
  <2>3. seconds \in Int
    <3>1. \A d \in Int : \A z \in 0..(d - 1) : z \in Int
      OBVIOUS
    <3>2. DaySeconds \in Int
      BY DEF DaySeconds
    <3> HIDE DEF seconds
    <3> QED BY <2>2, <3>1, <3>2, Zenon
  <2> QED BY <2>2, <2>3, TimedeltaOfMongodelta
<1>2. /\ m \div 1000 \in Int /\ m % 1000 \in Int
      /\ 0 <= m % 1000 /\ m % 1000 < 1000
      /\ m = 1000 * (m \div 1000) + (m % 1000)
  BY DivMod, SMT
<1>3. k \in Int /\ 0 <= k /\ k < 1000
  BY SMT DEF Milli
<1>4. us \div 1000 = m % 1000 /\ us % 1000 = k /\ us \in 0..(Micro - 1)
  BY <1>2, <1>3, Microseconds
<1>5. After(m, k) = [days |-> days, seconds |-> seconds, microseconds |-> us]
  BY FieldsAfter
<1> HIDE DEF days, seconds, us
<1>6. After(m, k) \in Timedelta
  BY <1>1, <1>4, <1>5 DEF Timedelta
<1>7. timedelta_to_mongodelta(After(m, k))
        = [millis |-> us \div 1000 + (seconds + days * 24 * 3600) * 1000,
           thousandths |-> IF PY3 THEN us % 1000 ELSE 0]
  BY <1>5 DEF timedelta_to_mongodelta
<1>8. us \div 1000 + (seconds + days * 24 * 3600) * 1000 = m
  <2>1. DaySeconds = 86400
    BY SMT DEF DaySeconds
  <2>2. seconds \in Int /\ days \in Int
    BY <1>1, Zenon
  <2>3. seconds + days * 24 * 3600 = m \div 1000
    <3>1. days \in Int /\ 86400 * days + seconds = m \div 1000
      <4> DEFINE total == m \div 1000
      <4>1. DaySeconds * days + seconds = total
        BY <1>1
      <4> HIDE DEF total
      <4>2. 86400 * days + seconds = total
        BY <2>1, <4>1
      <4> QED BY <2>2, <4>2 DEF total
    <3>2. days * 24 * 3600 = 86400 * days
      BY <3>1, SMT
    <3> QED BY <2>2, <3>1, <3>2, SMT
  <2> QED BY <1>2, <1>4, <2>3, SMT
<1> QED BY <1>4, <1>6, <1>7, <1>8

\* Cutting the float towards zero leaves the millisecond, or the next one
\* before 1970.
LEMMA Cutting ==
  ASSUME NEW m \in Int, NEW k \in 0..(Milli - 1), NEW t, t = 0 \/ t = k
  PROVE  Truncated([millis |-> m, thousandths |-> t]) \in
           IF m < 0 /\ k > 0 THEN {m, m + 1} ELSE {m}
BY SMT DEF Truncated, Milli

(***************************************************************************)
(* For every Mongo date and every microsecond within it, on both           *)
(* divisions, the datetime is normalized, a whole millisecond comes back   *)
(* exactly and any other as itself or, before 1970, the next one           *)
(* (datehelper.py, lines 8 to 52).                                         *)
(***************************************************************************)
THEOREM DatesConvertedHolds == DateSpec => []DatesConverted
<1>1. DateState => DatesConverted
  <2> SUFFICES ASSUME DateState PROVE DatesConverted
    OBVIOUS
  <2>1. mongodate \in Int /\ micros \in 0..(Milli - 1)
    BY DEF DateState
  <2>2. DateRoundTrip
    BY <2>1, RoundTripOfMongodelta DEF DateRoundTrip, Datetime
  <2>3. /\ Within \in Timedelta
        /\ timedelta_to_mongodelta(Within)
             = [millis |-> mongodate, thousandths |-> IF PY3 THEN micros ELSE 0]
    BY <2>1, TimeWithin DEF Within, Datetime, After
  <2>4. DateTypeOK
    BY <2>1, <2>3, TimedeltaOfMongodelta DEF DateTypeOK, Datetime
  <2>5. WithinMillisecond
    <3>1. (IF PY3 THEN micros ELSE 0) = 0 \/ (IF PY3 THEN micros ELSE 0) = micros
      OBVIOUS
    <3> QED BY <2>1, <2>3, <3>1, Cutting DEF WithinMillisecond
  <2> QED BY <2>2, <2>4, <2>5 DEF DatesConverted
<1> QED BY <1>1, DateStateInvariant, PTL

-----------------------------------------------------------------------------
(* OrderedDict.                                                             *)

\* A set of numbers has a least one.
LEMMA LeastOf ==
  ASSUME NEW S, S \subseteq Nat, S # {}
  PROVE  \E x \in S : \A y \in S : x <= y
<1> DEFINE below == {ss \in Nat \X Nat : ss[1] < ss[2]}
<1>1. IsWellFoundedOn(below, Nat)
  BY NatLessThanWellFounded, Zenon DEF OpToRel
<1>2. PICK x \in S : \A y \in S : ~ (<<y, x>> \in below)
  <2> HIDE DEF below
  <2>1. QED
    BY <1>1, WFMin
<1>3. \A y \in S : x \in Nat /\ y \in Nat /\ ~ (y < x)
  BY <1>2
<1>4. QED
  BY <1>3

\* The link at a place of the ring that holds these keys; the sentinel is
\* before the first and behind the last.
At(keys, i) == IF i \in 1 .. Len(keys) THEN keys[i] ELSE root

Distinct(keys) == \A i, j \in 1 .. Len(keys) : keys[i] = keys[j] => i = j

\* The links of one direction lead from the sentinel through these keys.
Leads(link, keys) == \A i \in 0 .. Len(keys) : link[At(keys, i)] = At(keys, i + 1)

KeysOf(keys) == {keys[i] : i \in 1 .. Len(keys)}

\* These keys are in the ring in this order, with both links of every
\* neighbour.
Ring(keys) ==
  /\ keys \in Seq(Key) /\ Distinct(keys)
  /\ map = KeysOf(keys) /\ DOMAIN dict = map
  /\ DOMAIN next = map \cup {root} /\ DOMAIN prev = map \cup {root}
  /\ Leads(next, keys)
  /\ \A i \in 1 .. Len(keys) + 1 : prev[At(keys, i)] = At(keys, i - 1)

\* The inductive invariant: the links form one ring, and it holds the keys of
\* the dict.
DictInv == \E keys \in Seq(Key) : Ring(keys)

\* Distinct keys are as many as their places.
LEMMA AsManyKeys ==
  ASSUME NEW keys \in Seq(Key), Distinct(keys)
  PROVE  Cardinality(KeysOf(keys)) = Len(keys)
<1> DEFINE n == Len(keys)
<1> DEFINE f == [i \in 1 .. n |-> keys[i]]
<1>1. n \in Nat /\ IsFiniteSet(1 .. n) /\ Cardinality(1 .. n) = n
  <2>1. n \in Nat /\ n \in Int /\ 1 \in Int
    OBVIOUS
  <2>2. QED
    BY <2>1, FS_Interval, SMTT(30)
<1>2. f \in Bijection(1 .. n, KeysOf(keys))
  <2>1. f \in [1 .. n -> KeysOf(keys)]
    BY DEF KeysOf
  <2>2. \A i, j \in 1 .. n : f[i] = f[j] => i = j
    BY DEF Distinct
  <2>3. \A k \in KeysOf(keys) : \E i \in 1 .. n : f[i] = k
    BY DEF KeysOf
  <2>4. QED
    BY <2>1, <2>2, <2>3 DEF Bijection, Injection, Surjection, IsInjective
<1>3. ExistsBijection(1 .. n, KeysOf(keys))
  BY <1>2 DEF ExistsBijection
<1>4. QED
  BY <1>1, <1>3, FS_Bijection

\* Iteration along links that lead through the keys meets them in order.
LEMMA WalkIs ==
  ASSUME NEW link, NEW keys \in Seq(Key), Distinct(keys), map = KeysOf(keys), Leads(link, keys)
  PROVE  Walk(link) = keys
<1> DEFINE n == Len(keys)
<1>1. n \in Nat /\ Cardinality(map) = n
  BY AsManyKeys
<1> DEFINE I == 0 .. n + 1
<1> DEFINE step(g, i) ==
      IF i = 0 THEN root ELSE IF i > 1 /\ g[i - 1] = root THEN root ELSE link[g[i - 1]]
<1> DEFINE node == CHOOSE g : g = [i \in I |-> step(g, i)]
<1> DEFINE w == [i \in I |-> At(keys, i)]
<1>2. \A i \in 1 .. n : At(keys, i) = keys[i] /\ keys[i] # root
  BY RootAssumption DEF At
<1>3. At(keys, 0) = root /\ At(keys, n + 1) = root
  BY <1>1 DEF At
<1>4. \A i \in I : w[i] = step(w, i)
  <2> SUFFICES ASSUME NEW i \in I PROVE w[i] = step(w, i)
    OBVIOUS
  <2>1. CASE i = 0
    BY <1>3, <2>1
  <2>2. CASE i # 0
    <3>1. i - 1 \in 0 .. n /\ i - 1 \in I /\ i - 1 + 1 = i
      BY <1>1, <2>2
    <3>2. w[i - 1] = At(keys, i - 1) /\ w[i] = At(keys, i)
      BY <3>1
    <3>3. link[At(keys, i - 1)] = At(keys, i)
      BY <3>1 DEF Leads
    <3>4. ~ (i > 1 /\ w[i - 1] = root)
      BY <1>1, <1>2, <3>1, <3>2
    <3>5. QED
      BY <2>2, <3>2, <3>3, <3>4
  <2>3. QED
    BY <2>1, <2>2
<1>5. w = [i \in I |-> step(w, i)]
  BY <1>4
<1>6. node = [i \in I |-> step(node, i)]
  BY <1>5
<1> HIDE DEF node
<1>7. \A i \in I : node[i] = w[i]
  <2> DEFINE S == {i \in I : node[i] # w[i]}
  <2> SUFFICES ASSUME S # {} PROVE FALSE
    OBVIOUS
  <2>1. S \subseteq Nat
    BY <1>1
  <2>2. PICK x \in S : \A y \in S : x <= y
    BY <2>1, LeastOf
  <2>3. x \in I /\ node[x] = step(node, x) /\ w[x] = step(w, x) /\ node[x] # w[x]
    BY <1>4, <1>6
  <2>4. x # 0
    BY <2>3
  <2>5. x - 1 \in I /\ x - 1 < x
    BY <1>1, <2>3, <2>4
  <2>6. node[x - 1] = w[x - 1]
    BY <1>1, <2>2, <2>5
  <2>7. QED
    BY <2>3, <2>6
<1> DEFINE J == 1 .. n + 1
<1> DEFINE ends(i) == node[i] = root /\ \A j \in 1 .. i - 1 : node[j] # root
<1> DEFINE end == CHOOSE i \in J : ends(i)
<1>8. \A i \in J : i \in I /\ node[i] = At(keys, i)
  BY <1>1, <1>7
<1>9. \A i \in J : ends(i) <=> i = n + 1
  <2> SUFFICES ASSUME NEW i \in J PROVE ends(i) <=> i = n + 1
    OBVIOUS
  <2>1. CASE i = n + 1
    <3>1. \A j \in 1 .. i - 1 : j \in 1 .. n /\ j \in J
      BY <1>1, <2>1
    <3>2. \A j \in 1 .. i - 1 : node[j] # root
      BY <1>2, <1>8, <3>1
    <3>3. node[i] = root
      BY <1>3, <1>8, <2>1
    <3>4. QED
      BY <2>1, <3>2, <3>3
  <2>2. CASE i # n + 1
    <3>1. i \in 1 .. n
      BY <1>1, <2>2
    <3>2. node[i] # root
      BY <1>2, <1>8, <3>1
    <3>3. QED
      BY <2>2, <3>2
  <2>3. QED
    BY <2>1, <2>2
<1> HIDE DEF ends
<1>10. end = n + 1 /\ n + 1 \in J
  BY <1>1, <1>9
<1>11. Walk(link) = [i \in 1 .. end - 1 |-> node[i]]
  BY <1>1 DEF Walk, node, ends
<1> HIDE DEF end
<1>12. end - 1 = n
  BY <1>1, <1>10
<1>13. \A i \in 1 .. n : i \in J
  BY <1>1
<1>14. Walk(link) = [i \in 1 .. n |-> keys[i]]
  BY <1>2, <1>8, <1>11, <1>12, <1>13
<1>15. keys = [i \in 1 .. n |-> keys[i]]
  OBVIOUS
<1>16. QED
  BY <1>14, <1>15

\* The places of the ring hold different links.
LEMMA PlacesDiffer ==
  ASSUME NEW keys \in Seq(Key), Distinct(keys),
         NEW i \in 0 .. Len(keys), NEW j \in 0 .. Len(keys), At(keys, i) = At(keys, j)
  PROVE  i = j
<1>1. \A k \in 1 .. Len(keys) : keys[k] # root
  BY RootAssumption
<1>2. QED
  BY <1>1 DEF At, Distinct

\* A key at a place of the ring, and what lies beside it.
LEMMA PlaceOfKey ==
  ASSUME NEW keys \in Seq(Key), Ring(keys), NEW i \in 1 .. Len(keys)
  PROVE  /\ keys[i] \in map /\ keys[i] \in Key /\ keys[i] # root /\ At(keys, i) = keys[i]
         /\ next[keys[i]] = At(keys, i + 1) /\ prev[keys[i]] = At(keys, i - 1)
         /\ next[root] = At(keys, 1) /\ prev[root] = At(keys, Len(keys))
<1>1. keys[i] \in map /\ keys[i] \in Key /\ keys[i] # root /\ At(keys, i) = keys[i]
  BY RootAssumption DEF Ring, KeysOf, At
<1>2. i \in 0 .. Len(keys) /\ i \in 1 .. Len(keys) + 1 /\ 0 \in 0 .. Len(keys)
      /\ Len(keys) + 1 \in 1 .. Len(keys) + 1 /\ Len(keys) + 1 - 1 = Len(keys) /\ 0 + 1 = 1
  OBVIOUS
<1>3. At(keys, 0) = root /\ At(keys, Len(keys) + 1) = root
  BY DEF At
<1>4. QED
  BY <1>1, <1>2, <1>3 DEF Ring, Leads

\* The empty ring: Init and clear.
LEMMA EmptyRing ==
  ASSUME dict = [k \in {} |-> 0], map = {},
         prev = [n \in {root} |-> root], next = [n \in {root} |-> root]
  PROVE  Ring(<<>>)
<1>1. <<>> \in Seq(Key) /\ Distinct(<<>>) /\ KeysOf(<<>>) = {} /\ Len(<<>>) = 0
  BY DEF Distinct, KeysOf
<1>2. \A i \in 0 .. 1 : At(<<>>, i) = root /\ At(<<>>, i + 1) = root /\ At(<<>>, i - 1) = root
  BY DEF At
<1>3. next[root] = root /\ prev[root] = root
  OBVIOUS
<1>4. Leads(next, <<>>)
  BY <1>1, <1>2, <1>3 DEF Leads
<1>5. \A i \in 1 .. Len(<<>>) + 1 : prev[At(<<>>, i)] = At(<<>>, i - 1)
  BY <1>1, <1>2, <1>3
<1>6. QED
  BY <1>1, <1>4, <1>5 DEF Ring

\* A new key gets the last place.
LEMMA KeyAdded ==
  ASSUME NEW keys \in Seq(Key), Ring(keys), NEW k \in Key, NEW v, k \notin DOMAIN dict, setitem(k, v)
  PROVE  Ring(Append(keys, k))'
<1> DEFINE n == Len(keys)
<1> DEFINE more == Append(keys, k)
<1>1. n \in Nat /\ k \notin map /\ k # root
  BY RootAssumption DEF Ring
<1>2. /\ more \in Seq(Key) /\ Len(more) = n + 1 /\ more[n + 1] = k
      /\ \A i \in 1 .. n : more[i] = keys[i]
  OBVIOUS
<1>3. \A i \in 1 .. n : keys[i] \in map /\ keys[i] # k /\ keys[i] # root
  BY <1>1, RootAssumption DEF Ring, KeysOf
<1>4. Distinct(more)
  <2> SUFFICES ASSUME NEW i \in 1 .. n + 1, NEW j \in 1 .. n + 1, more[i] = more[j] PROVE i = j
    BY <1>2 DEF Distinct
  <2>1. CASE i \in 1 .. n /\ j \in 1 .. n
    BY <1>2, <2>1 DEF Ring, Distinct
  <2>2. CASE i = n + 1 \/ j = n + 1
    BY <1>1, <1>2, <1>3, <2>2
  <2>3. QED
    BY <1>1, <2>1, <2>2
<1>5. KeysOf(more) = map \cup {k}
  <2>1. \A i \in 1 .. n + 1 : i \in 1 .. n \/ i = n + 1
    BY <1>1
  <2>2. \A i \in 1 .. n : i \in 1 .. n + 1
    BY <1>1
  <2>3. n + 1 \in 1 .. n + 1
    BY <1>1
  <2>4. QED
    BY <1>2, <2>1, <2>2, <2>3 DEF Ring, KeysOf
<1>6. /\ map' = map \cup {k} /\ dict' = Update(dict, k, v)
      /\ prev' = Update([prev EXCEPT ![root] = k], k, prev[root])
      /\ next' = Update([next EXCEPT ![prev[root]] = k], k, root)
  BY DEF setitem
<1>7. DOMAIN dict' = map' /\ DOMAIN next' = map' \cup {root} /\ DOMAIN prev' = map' \cup {root}
  BY <1>6 DEF Ring, Update
<1>8. prev[root] = At(keys, n)
  <2>1. At(keys, n + 1) = root /\ n + 1 \in 1 .. n + 1 /\ n + 1 - 1 = n
    BY <1>1 DEF At
  <2>2. QED
    BY <2>1 DEF Ring
<1>9. \A i \in 0 .. n : At(more, i) = At(keys, i)
  BY <1>1, <1>2 DEF At
<1>10. At(more, n + 1) = k /\ At(more, n + 2) = root /\ At(more, 0) = root /\ At(keys, n + 1) = root
  BY <1>1, <1>2 DEF At
<1>11. \A i \in 0 .. n : At(keys, i) \in map \cup {root} /\ At(keys, i) # k
  BY <1>1, <1>3 DEF At
<1>12. \A x \in map \cup {root} : /\ next'[x] = IF x = At(keys, n) THEN k ELSE next[x]
                                  /\ prev'[x] = IF x = root THEN k ELSE prev[x]
  BY <1>1, <1>6, <1>8 DEF Ring, Update
<1>13. next'[k] = root /\ prev'[k] = At(keys, n)
  BY <1>1, <1>6, <1>8 DEF Ring, Update
<1>14. Leads(next', more)
  <2> SUFFICES ASSUME NEW i \in 0 .. n + 1 PROVE next'[At(more, i)] = At(more, i + 1)
    BY <1>2 DEF Leads
  <2>1. CASE i = n + 1
    BY <1>1, <1>10, <1>13, <2>1
  <2>2. CASE i = n
    BY <1>1, <1>9, <1>10, <1>11, <1>12, <2>2
  <2>3. CASE i \in 0 .. n - 1
    <3>1. i \in 0 .. n /\ n \in 0 .. n /\ i + 1 \in 0 .. n /\ i # n
      BY <1>1, <2>3
    <3>2. At(keys, i) # At(keys, n)
      BY <3>1, PlacesDiffer DEF Ring
    <3>3. next[At(keys, i)] = At(keys, i + 1)
      BY <3>1 DEF Ring, Leads
    <3>4. QED
      BY <1>9, <1>11, <1>12, <3>1, <3>2, <3>3
  <2>4. QED
    BY <1>1, <2>1, <2>2, <2>3
<1>15. \A i \in 1 .. Len(more) + 1 : prev'[At(more, i)] = At(more, i - 1)
  <2> SUFFICES ASSUME NEW i \in 1 .. n + 2 PROVE prev'[At(more, i)] = At(more, i - 1)
    BY <1>1, <1>2
  <2>1. CASE i = n + 1
    BY <1>1, <1>9, <1>10, <1>13, <2>1
  <2>2. CASE i = n + 2
    BY <1>1, <1>10, <1>12, <2>2
  <2>3. CASE i \in 1 .. n
    <3>1. i \in 0 .. n /\ i \in 1 .. n + 1 /\ i - 1 \in 0 .. n
      BY <1>1, <2>3
    <3>2. At(keys, i) # root /\ At(keys, i) \in map
      BY <1>3, <2>3 DEF At
    <3>3. prev[At(keys, i)] = At(keys, i - 1)
      BY <3>1 DEF Ring
    <3>4. QED
      BY <1>9, <1>12, <3>1, <3>2, <3>3
  <2>4. QED
    BY <1>1, <2>1, <2>2, <2>3
<1>16. QED
  BY <1>2, <1>4, <1>5, <1>6, <1>7, <1>14, <1>15 DEF Ring

\* The keys without the one at a place.
Dropped(keys, i) ==
  [j \in 1 .. Len(keys) - 1 |-> IF j < i THEN keys[j] ELSE keys[j + 1]]

LEMMA DroppedKeys ==
  ASSUME NEW keys \in Seq(Key), NEW i \in 1 .. Len(keys)
  PROVE  /\ Dropped(keys, i) \in Seq(Key) /\ Len(Dropped(keys, i)) = Len(keys) - 1
         /\ \A j \in 1 .. Len(keys) - 1 : Dropped(keys, i)[j] = IF j < i THEN keys[j] ELSE keys[j + 1]
<1> DEFINE n == Len(keys)
<1>1. n \in Nat /\ n - 1 \in Nat
  OBVIOUS
<1>2. \A j \in 1 .. n - 1 : (IF j < i THEN keys[j] ELSE keys[j + 1]) \in Key
  <2> SUFFICES ASSUME NEW j \in 1 .. n - 1 PROVE keys[j] \in Key /\ keys[j + 1] \in Key
    OBVIOUS
  <2>1. j \in 1 .. n /\ j + 1 \in 1 .. n
    BY <1>1
  <2>2. QED
    BY <2>1
<1>3. QED
  BY <1>1, <1>2 DEF Dropped

\* A key that is unlinked leaves its place; the others keep their order.
LEMMA KeyDropped ==
  ASSUME NEW keys \in Seq(Key), Ring(keys), NEW i \in 1 .. Len(keys),
         dict' = Without(dict, keys[i]), Unlink(keys[i])
  PROVE  Ring(Dropped(keys, i))'
<1> DEFINE n == Len(keys)
<1> DEFINE k == keys[i]
<1> DEFINE fewer == Dropped(keys, i)
<1>1. n \in Nat /\ n - 1 \in Nat /\ i \in 0 .. n /\ i + 1 \in 1 .. n + 1 /\ i - 1 \in 0 .. n /\ i \in Int
  OBVIOUS
<1>2. /\ fewer \in Seq(Key) /\ Len(fewer) = n - 1
      /\ \A j \in 1 .. n - 1 : fewer[j] = IF j < i THEN keys[j] ELSE keys[j + 1]
  BY DroppedKeys
<1>3. /\ k \in map /\ k # root /\ At(keys, i) = k
      /\ next[k] = At(keys, i + 1) /\ prev[k] = At(keys, i - 1)
  BY PlaceOfKey
<1> HIDE DEF fewer
<1>4. Distinct(fewer)
  <2> SUFFICES ASSUME NEW a \in 1 .. n - 1, NEW b \in 1 .. n - 1, fewer[a] = fewer[b] PROVE a = b
    BY <1>2 DEF Distinct
  <2>1. a \in 1 .. n /\ b \in 1 .. n /\ a + 1 \in 1 .. n /\ b + 1 \in 1 .. n
    BY <1>1
  <2>2. QED
    BY <1>1, <1>2, <2>1 DEF Ring, Distinct
<1>5. KeysOf(fewer) = map \ {k}
  <2>1. ASSUME NEW j \in 1 .. n - 1 PROVE fewer[j] \in map \ {k}
    <3>1. j \in 1 .. n /\ j + 1 \in 1 .. n
      BY <1>1
    <3>2. CASE j < i
      <4>1. fewer[j] = keys[j] /\ j # i
        BY <1>1, <1>2, <3>2, SMTT(30)
      <4>2. QED
        BY <3>1, <4>1 DEF Ring, KeysOf, Distinct
    <3>3. CASE ~ (j < i)
      <4>1. fewer[j] = keys[j + 1] /\ j + 1 # i
        BY <1>1, <1>2, <3>3
      <4>2. QED
        BY <3>1, <4>1 DEF Ring, KeysOf, Distinct
    <3>4. QED
      BY <3>2, <3>3
  <2>2. ASSUME NEW x \in map \ {k} PROVE \E j \in 1 .. n - 1 : fewer[j] = x
    <3>1. PICK m \in 1 .. n : keys[m] = x
      BY DEF Ring, KeysOf
    <3>2. m # i
      BY <3>1
    <3>3. CASE m < i
      BY <1>1, <1>2, <3>1, <3>3
    <3>4. CASE m > i
      <4>1. m - 1 \in 1 .. n - 1 /\ ~ (m - 1 < i) /\ m - 1 + 1 = m
        BY <1>1, <3>1, <3>4
      <4>2. QED
        BY <1>2, <3>1, <4>1
    <3>5. QED
      BY <1>1, <3>1, <3>2, <3>3, <3>4
  <2>3. QED
    BY <1>2, <2>1, <2>2, SMTT(30) DEF KeysOf
<1>6. /\ map' = map \ {k} /\ dict' = Without(dict, k)
      /\ prev' = Without([prev EXCEPT ![next[k]] = prev[k]], k)
      /\ next' = Without([next EXCEPT ![prev[k]] = next[k]], k)
  BY DEF Unlink
<1>7. DOMAIN dict' = map' /\ DOMAIN next' = map' \cup {root} /\ DOMAIN prev' = map' \cup {root}
  BY <1>3, <1>6 DEF Ring, Without
<1>8. \A x \in (map \cup {root}) \ {k} :
        /\ next'[x] = IF x = At(keys, i - 1) THEN At(keys, i + 1) ELSE next[x]
        /\ prev'[x] = IF x = At(keys, i + 1) THEN At(keys, i - 1) ELSE prev[x]
  BY <1>3, <1>6 DEF Ring, Without
<1>9. /\ \A j \in 0 .. i - 1 : At(fewer, j) = At(keys, j)
      /\ \A j \in i .. n : At(fewer, j) = At(keys, j + 1)
  <2>1. ASSUME NEW j \in 0 .. i - 1 PROVE At(fewer, j) = At(keys, j)
    <3>1. j < i /\ j \in 0 .. n - 1
      BY <1>1
    <3>2. CASE j = 0
      BY <3>2 DEF At
    <3>3. CASE j # 0
      <4>1. j \in 1 .. n - 1 /\ j \in 1 .. n
        BY <1>1, <3>1, <3>3
      <4>2. QED
        BY <1>2, <3>1, <4>1 DEF At
    <3>4. QED
      BY <3>2, <3>3
  <2>2. ASSUME NEW j \in i .. n PROVE At(fewer, j) = At(keys, j + 1)
    <3>1. CASE j = n
      BY <1>1, <1>2, <3>1 DEF At
    <3>2. CASE j # n
      <4>1. j \in 1 .. n - 1 /\ j + 1 \in 1 .. n /\ ~ (j < i)
        BY <1>1, <3>2
      <4>2. QED
        BY <1>2, <4>1 DEF At
    <3>3. QED
      BY <3>1, <3>2
  <2>3. QED
    BY <2>1, <2>2
<1>10. \A j \in 0 .. n + 1 : j # i => At(keys, j) \in (map \cup {root}) \ {k}
  <2> SUFFICES ASSUME NEW j \in 0 .. n + 1, j # i PROVE At(keys, j) \in (map \cup {root}) \ {k}
    OBVIOUS
  <2>1. CASE j \in 1 .. n
    BY <2>1 DEF At, Ring, KeysOf, Distinct
  <2>2. CASE j \notin 1 .. n
    BY <1>3, <2>2 DEF At
  <2>3. QED
    BY <2>1, <2>2
<1>11. \A j \in 0 .. n : next[At(keys, j)] = At(keys, j + 1)
  BY DEF Ring, Leads
<1>12. \A j \in 1 .. n + 1 : prev[At(keys, j)] = At(keys, j - 1)
  BY DEF Ring
<1>13. \A a, b \in 0 .. n : At(keys, a) = At(keys, b) => a = b
  BY PlacesDiffer DEF Ring
<1>14. \A a, b \in 1 .. n + 1 : At(keys, a) = At(keys, b) => a = b
  <2> SUFFICES ASSUME NEW a \in 1 .. n + 1, NEW b \in 1 .. n + 1, At(keys, a) = At(keys, b) PROVE a = b
    OBVIOUS
  <2>1. At(keys, n + 1) = root /\ \A j \in 1 .. n : At(keys, j) # root
    BY <1>1, RootAssumption DEF At
  <2>2. CASE a \in 1 .. n /\ b \in 1 .. n
    BY <1>1, <1>13, <2>2
  <2>3. CASE a = n + 1 \/ b = n + 1
    BY <1>1, <2>1, <2>3
  <2>4. QED
    BY <1>1, <2>2, <2>3
<1>15. Leads(next', fewer)
  <2> SUFFICES ASSUME NEW j \in 0 .. n - 1 PROVE next'[At(fewer, j)] = At(fewer, j + 1)
    BY <1>2 DEF Leads
  <2>1. CASE j < i - 1
    <3>1. j \in 0 .. i - 1 /\ j + 1 \in 0 .. i - 1 /\ j \in 0 .. n /\ j \in 0 .. n + 1 /\ j # i /\ j # i - 1
      BY <1>1, <2>1
    <3>2. At(keys, j) # At(keys, i - 1)
      BY <1>1, <1>13, <3>1
    <3>3. QED
      BY <1>8, <1>9, <1>10, <1>11, <3>1, <3>2
  <2>2. CASE j = i - 1
    <3>1. j \in 0 .. i - 1 /\ j + 1 \in i .. n /\ j + 1 = i /\ j \in 0 .. n + 1 /\ j # i
      BY <1>1, <2>2
    <3>2. QED
      BY <1>8, <1>9, <1>10, <2>2, <3>1
  <2>3. CASE j > i - 1
    <3>1. j \in i .. n /\ j + 1 \in i .. n /\ j + 1 \in 0 .. n /\ j + 1 \in 0 .. n + 1 /\ j + 1 # i /\ j + 1 # i - 1
      BY <1>1, <2>3
    <3>2. At(keys, j + 1) # At(keys, i - 1)
      BY <1>1, <1>13, <3>1
    <3>3. QED
      BY <1>8, <1>9, <1>10, <1>11, <3>1, <3>2
  <2>4. QED
    BY <1>1, <2>1, <2>2, <2>3
<1>16. \A j \in 1 .. Len(fewer) + 1 : prev'[At(fewer, j)] = At(fewer, j - 1)
  <2> SUFFICES ASSUME NEW j \in 1 .. n PROVE prev'[At(fewer, j)] = At(fewer, j - 1)
    BY <1>1, <1>2, SMTT(30)
  <2>1. CASE j < i
    <3>1. j \in 0 .. i - 1 /\ j - 1 \in 0 .. i - 1 /\ j \in 1 .. n + 1 /\ j \in 0 .. n + 1 /\ j # i /\ j # i + 1
      BY <1>1, <2>1
    <3>2. At(keys, j) # At(keys, i + 1)
      BY <1>1, <1>14, <3>1
    <3>3. QED
      BY <1>8, <1>9, <1>10, <1>12, <3>1, <3>2
  <2>2. CASE j = i
    <3>1. j \in i .. n /\ j - 1 \in 0 .. i - 1 /\ i + 1 \in 0 .. n + 1 /\ i + 1 # i
      BY <1>1, <2>2
    <3>2. QED
      BY <1>8, <1>9, <1>10, <2>2, <3>1
  <2>3. CASE j > i
    <3>1. j \in i .. n /\ j - 1 \in i .. n /\ j + 1 \in 1 .. n + 1 /\ j + 1 \in 0 .. n + 1
          /\ j + 1 # i /\ j + 1 # i + 1 /\ j + 1 - 1 = j /\ j - 1 + 1 = j
      BY <1>1, <2>3
    <3>2. At(keys, j + 1) # At(keys, i + 1)
      BY <1>1, <1>14, <3>1
    <3>3. QED
      BY <1>8, <1>9, <1>10, <1>12, <3>1, <3>2
  <2>4. QED
    BY <1>1, <2>1, <2>2, <2>3
<1>17. /\ map' = KeysOf(fewer) /\ DOMAIN dict' = map' /\ DOMAIN next' = map' \cup {root}
       /\ DOMAIN prev' = map' \cup {root}
  BY <1>5, <1>6, <1>7
<1>18. QED
  BY <1>2, <1>4, <1>15, <1>16, <1>17 DEF Ring, fewer

\* Every call keeps the ring.
LEMMA SetKeeps == DictInv /\ (\E k \in Key, v \in Val : setitem(k, v) \/ setdefault(k, v)) => DictInv'
<1> SUFFICES ASSUME DictInv, NEW k \in Key, NEW v \in Val, setitem(k, v) PROVE DictInv'
  BY DEF setdefault
<1>1. PICK keys \in Seq(Key) : Ring(keys)
  BY DEF DictInv
<1>2. CASE k \in DOMAIN dict
  <2>1. dict' = Update(dict, k, v) /\ UNCHANGED <<map, prev, next>>
    BY <1>2 DEF setitem
  <2>2. DOMAIN dict' = DOMAIN dict
    BY <1>2, <2>1 DEF Update
  <2>3. Ring(keys)'
    BY <1>1, <2>1, <2>2 DEF Ring, Leads
  <2>4. QED
    BY <2>3 DEF DictInv
<1>3. CASE k \notin DOMAIN dict
  <2>1. Ring(Append(keys, k))' /\ Append(keys, k) \in Seq(Key)
    BY <1>1, <1>3, KeyAdded
  <2>2. QED
    BY <2>1 DEF DictInv
<1>4. QED
  BY <1>2, <1>3

\* Deleting and popping unlink the key at some place.
LEMMA DelPlace ==
  ASSUME NEW keys \in Seq(Key), Ring(keys), NEW k \in Key, delitem(k)
  PROVE  \E i \in 1 .. Len(keys) : k = keys[i] /\ dict' = Without(dict, keys[i]) /\ Unlink(keys[i])
<1>1. k \in DOMAIN dict /\ dict' = Without(dict, k) /\ Unlink(k)
  BY DEF delitem
<1>2. PICK i \in 1 .. Len(keys) : keys[i] = k
  BY <1>1 DEF Ring, KeysOf
<1>3. QED
  BY <1>1, <1>2

LEMMA PopPlace ==
  ASSUME NEW keys \in Seq(Key), Ring(keys), NEW last \in BOOLEAN, popitem(last)
  PROVE  \E i \in 1 .. Len(keys) :
           /\ i = 1 \/ i = Len(keys)
           /\ dict' = Without(dict, keys[i]) /\ Unlink(keys[i])
<1>1. Len(keys) \in Nat /\ Len(keys) # 0
  BY DEF popitem, Ring, KeysOf
<1> DEFINE k == IF last THEN prev[root] ELSE next[root]
<1>2. dict' = Without(dict, k) /\ Unlink(k)
  BY DEF popitem
<1>3. 1 \in 1 .. Len(keys) /\ Len(keys) \in 1 .. Len(keys)
  BY <1>1
<1>4. next[root] = At(keys, 1) /\ prev[root] = At(keys, Len(keys))
  BY <1>3, PlaceOfKey
<1>5. next[root] = keys[1] /\ prev[root] = keys[Len(keys)]
  BY <1>3, <1>4 DEF At
<1>6. k = keys[1] \/ k = keys[Len(keys)]
  BY <1>5
<1> HIDE DEF k
<1>7. QED
  BY <1>2, <1>3, <1>6

LEMMA DropKeeps ==
  ASSUME NEW keys \in Seq(Key), Ring(keys), NEW i \in 1 .. Len(keys),
         dict' = Without(dict, keys[i]), Unlink(keys[i])
  PROVE  DictInv'
<1>1. Ring(Dropped(keys, i))' /\ Dropped(keys, i) \in Seq(Key)
  BY KeyDropped, DroppedKeys
<1>2. QED
  BY <1>1 DEF DictInv

LEMMA ClearEmpties == clear => Ring(<<>>)'
<1> SUFFICES ASSUME clear PROVE Ring(<<>>)'
  OBVIOUS
<1>1. /\ dict' = [k \in {} |-> 0] /\ map' = {}
      /\ prev' = [n \in {root} |-> root] /\ next' = [n \in {root} |-> root]
  BY DEF clear
<1>2. <<>> \in Seq(Key) /\ Distinct(<<>>) /\ KeysOf(<<>>) = {} /\ Len(<<>>) = 0
  BY DEF Distinct, KeysOf
<1>3. \A i \in 0 .. 1 : At(<<>>, i) = root /\ At(<<>>, i + 1) = root /\ At(<<>>, i - 1) = root
  BY DEF At
<1>4. next'[root] = root /\ prev'[root] = root
  BY <1>1
<1>5. Leads(next', <<>>)
  BY <1>2, <1>3, <1>4 DEF Leads
<1>6. \A i \in 1 .. Len(<<>>) + 1 : prev'[At(<<>>, i)] = At(<<>>, i - 1)
  BY <1>2, <1>3, <1>4
<1>7. QED
  BY <1>1, <1>2, <1>5, <1>6 DEF Ring

LEMMA DictInvNext == DictInv /\ [ODNext]_odVars => DictInv'
<1> SUFFICES ASSUME DictInv, [ODNext]_odVars PROVE DictInv'
  OBVIOUS
<1>1. PICK keys \in Seq(Key) : Ring(keys)
  BY DEF DictInv
<1>2. CASE \E k \in Key, v \in Val : setitem(k, v) \/ setdefault(k, v)
  BY <1>2, SetKeeps
<1>3. CASE \E k \in Key : delitem(k)
  <2>1. PICK i \in 1 .. Len(keys) : dict' = Without(dict, keys[i]) /\ Unlink(keys[i])
    BY <1>1, <1>3, DelPlace
  <2>2. QED
    BY <1>1, <2>1, DropKeeps
<1>4. CASE \E last \in BOOLEAN : popitem(last)
  <2>1. PICK i \in 1 .. Len(keys) : dict' = Without(dict, keys[i]) /\ Unlink(keys[i])
    BY <1>1, <1>4, PopPlace
  <2>2. QED
    BY <1>1, <2>1, DropKeeps
<1>5. CASE clear
  <2>1. <<>> \in Seq(Key)
    OBVIOUS
  <2>2. QED
    BY <1>5, <2>1, ClearEmpties DEF DictInv
<1>6. CASE UNCHANGED odVars
  <2>1. Ring(keys)'
    BY <1>1, <1>6 DEF odVars, Ring, Leads
  <2>2. QED
    BY <2>1 DEF DictInv
<1>7. QED
  BY <1>2, <1>3, <1>4, <1>5, <1>6 DEF ODNext

LEMMA DictInvariant == ODSpec => []DictInv
<1>1. ODInit => DictInv
  <2> SUFFICES ASSUME ODInit PROVE DictInv
    OBVIOUS
  <2>1. <<>> \in Seq(Key)
    OBVIOUS
  <2>2. QED
    BY <2>1, EmptyRing DEF ODInit, DictInv
<1>2. QED
  BY <1>1, DictInvNext, PTL DEF ODSpec

\* The keys from the last to the first.
Backward(keys) == [i \in 1 .. Len(keys) |-> keys[Len(keys) + 1 - i]]

\* Both walks over the ring.
LEMMA WalksOfRing ==
  ASSUME NEW keys \in Seq(Key), Ring(keys)
  PROVE  Walk(next) = keys /\ Walk(prev) = Backward(keys)
<1> DEFINE n == Len(keys)
<1> DEFINE back == Backward(keys)
<1>1. n \in Nat
  OBVIOUS
<1>2. \A i \in 1 .. n : n + 1 - i \in 1 .. n /\ n + 1 - (n + 1 - i) = i
  BY <1>1
<1>3. back \in Seq(Key) /\ Len(back) = n /\ \A i \in 1 .. n : back[i] = keys[n + 1 - i]
  BY <1>1, <1>2 DEF Backward
<1> HIDE DEF back
<1>4. Distinct(back)
  <2> SUFFICES ASSUME NEW i \in 1 .. n, NEW j \in 1 .. n, back[i] = back[j] PROVE i = j
    BY <1>3 DEF Distinct
  <2>1. n + 1 - i = n + 1 - j
    <3> DEFINE e == n + 1 - i
               f == n + 1 - j
    <3>1. e \in 1 .. n /\ f \in 1 .. n /\ keys[e] = keys[f]
      BY <1>2, <1>3
    <3>2. \A k, m \in 1 .. n : keys[k] = keys[m] => k = m
      BY DEF Ring, Distinct
    <3> HIDE DEF e, f, n
    <3>3. e = f
      BY <3>1, <3>2, Zenon
    <3>4. QED
      BY <3>3 DEF e, f
  <2>2. QED
    BY <1>1, <2>1
<1>5. map = KeysOf(back)
  <2>1. \A i \in 1 .. n : \E j \in 1 .. n : keys[i] = back[j]
    <3> SUFFICES ASSUME NEW i \in 1 .. n PROVE \E j \in 1 .. n : keys[i] = back[j]
      OBVIOUS
    <3>1. n + 1 - i \in 1 .. n /\ back[n + 1 - i] = keys[i]
      BY <1>2, <1>3
    <3>2. QED
      BY <3>1
  <2>2. \A i \in 1 .. n : \E j \in 1 .. n : back[i] = keys[j]
    BY <1>2, <1>3
  <2>3. KeysOf(keys) \subseteq KeysOf(back)
    <3> SUFFICES ASSUME NEW i \in 1 .. n PROVE keys[i] \in KeysOf(back)
      BY DEF KeysOf
    <3>1. PICK j \in 1 .. n : keys[i] = back[j]
      BY <2>1
    <3>2. j \in 1 .. Len(back)
      BY <1>3
    <3>3. QED
      BY <3>1, <3>2 DEF KeysOf
  <2>4. KeysOf(back) \subseteq KeysOf(keys)
    <3> SUFFICES ASSUME NEW i \in 1 .. Len(back) PROVE back[i] \in KeysOf(keys)
      BY DEF KeysOf
    <3>1. PICK j \in 1 .. n : back[i] = keys[j]
      BY <1>3, <2>2
    <3>2. QED
      BY <3>1 DEF KeysOf
  <2>5. QED
    BY <2>3, <2>4 DEF Ring
<1>6. \A i \in 0 .. n + 1 : At(back, i) = At(keys, n + 1 - i)
  <2> SUFFICES ASSUME NEW i \in 0 .. n + 1 PROVE At(back, i) = At(keys, n + 1 - i)
    OBVIOUS
  <2>1. CASE i \in 1 .. n
    BY <1>2, <1>3, <2>1 DEF At
  <2>2. CASE i \notin 1 .. n
    <3>1. n + 1 - i \notin 1 .. n
      BY <1>1, <2>2
    <3>2. QED
      BY <1>3, <2>2, <3>1 DEF At
  <2>3. QED
    BY <2>1, <2>2
<1>7. Leads(prev, back)
  <2> SUFFICES ASSUME NEW i \in 0 .. n PROVE prev[At(back, i)] = At(back, i + 1)
    BY <1>3 DEF Leads
  <2>1. i \in 0 .. n + 1 /\ i + 1 \in 0 .. n + 1 /\ n + 1 - i \in 1 .. n + 1 /\ n + 1 - i - 1 = n + 1 - (i + 1)
    BY <1>1
  <2>2. prev[At(keys, n + 1 - i)] = At(keys, n + 1 - i - 1)
    BY <2>1 DEF Ring
  <2>3. QED
    BY <1>6, <2>1, <2>2
<1>8. Walk(next) = keys
  BY WalkIs DEF Ring
<1>9. Walk(prev) = back
  BY <1>3, <1>4, <1>5, <1>7, WalkIs
<1>10. QED
  BY <1>8, <1>9 DEF back

\* Both directions of the ring agree, and dict, map and ring hold the same keys.
LEMMA RingIsConsistent == DictInv => RingConsistent
<1> SUFFICES ASSUME DictInv PROVE RingConsistent
  OBVIOUS
<1>1. PICK keys \in Seq(Key) : Ring(keys)
  BY DEF DictInv
<1> DEFINE n == Len(keys)
<1>2. Walk(next) = keys /\ Walk(prev) = Backward(keys)
  BY <1>1, WalksOfRing
<1>3. n \in Nat /\ DOMAIN keys = 1 .. n /\ Len(Backward(keys)) = n
  BY DEF Backward
<1>4. \A i \in 1 .. n : n + 1 - i \in 1 .. n /\ n + 1 - (n + 1 - i) = i
  BY <1>3
<1>5. \A i \in 1 .. n : keys[i] = Backward(keys)[n + 1 - i]
  BY <1>4 DEF Backward
<1>6. {keys[i] : i \in DOMAIN keys} = map /\ map = DOMAIN dict
  BY <1>1, <1>3 DEF Ring, KeysOf
<1>7. QED
  BY <1>2, <1>3, <1>5, <1>6 DEF RingConsistent

\* The pairs of a ring.
ItemsAre(keys) ==
  Items = [i \in 1 .. Len(keys) |-> <<keys[i], dict[keys[i]]>>]

LEMMA ItemsOfRing ==
  ASSUME NEW keys \in Seq(Key), Ring(keys)
  PROVE  ItemsAre(keys)
<1>1. Walk(next) = keys
  BY WalksOfRing
<1>2. DOMAIN keys = 1 .. Len(keys)
  OBVIOUS
<1>3. QED
  BY <1>1, <1>2 DEF Items, ItemsAre

LEMMA ItemsOfRings == \A keys \in Seq(Key) : Ring(keys) => ItemsAre(keys)
BY ItemsOfRing

LEMMA ItemsOfRingsNext == (\A keys \in Seq(Key) : Ring(keys) => ItemsAre(keys))'
BY ItemsOfRings, PTL

LEMMA ItemsOfRingNext ==
  ASSUME NEW keys \in Seq(Key), Ring(keys)'
  PROVE  Items' = [i \in 1 .. Len(keys) |-> <<keys[i], dict'[keys[i]]>>]
<1>1. ItemsAre(keys)'
  BY ItemsOfRingsNext
<1>2. QED
  BY <1>1 DEF ItemsAre

\* Setting a key changes the value of its pair, or adds a pair at the end.
LEMMA SetRefines ==
  ASSUME DictInv, NEW k \in Key, NEW v \in Val, setitem(k, v)
  PROVE  Promise!Set(k, v)
<1>1. PICK keys \in Seq(Key) : Ring(keys)
  BY DEF DictInv
<1> DEFINE n == Len(keys)
<1>2. n \in Nat /\ DOMAIN Items = 1 .. n /\ \A i \in 1 .. n : Items[i] = <<keys[i], dict[keys[i]]>>
  BY <1>1, ItemsOfRing DEF ItemsAre
<1>3. \A i \in 1 .. n : Items[i][1] = keys[i]
  BY <1>2
<1>4. \A i \in DOMAIN Items : i \in Promise!KeyIndexes(k) <=> keys[i] = k
  BY <1>2, <1>3 DEF Promise!KeyIndexes
<1>5. Promise!KeyIndexes(k) = {i \in 1 .. n : keys[i] = k}
  BY <1>2, <1>3 DEF Promise!KeyIndexes
<1>6. CASE k \in DOMAIN dict
  <2>1. dict' = Update(dict, k, v) /\ UNCHANGED <<map, prev, next>>
    BY <1>6 DEF setitem
  <2>2. DOMAIN dict' = DOMAIN dict
    BY <1>6, <2>1 DEF Update
  <2>3. Ring(keys)'
    BY <1>1, <2>1, <2>2 DEF Ring, Leads
  <2>4. Items' = [i \in 1 .. n |-> <<keys[i], dict'[keys[i]]>>]
    BY <2>3, ItemsOfRingNext
  <2>5. \A i \in 1 .. n : dict'[keys[i]] = IF keys[i] = k THEN v ELSE dict[keys[i]]
    <3>1. \A i \in 1 .. n : keys[i] \in DOMAIN dict
      BY <1>1 DEF Ring, KeysOf
    <3>2. QED
      BY <2>1, <3>1 DEF Update
  <2>6. \A i \in 1 .. n : <<keys[i], dict'[keys[i]]>> = IF i \in Promise!KeyIndexes(k) THEN <<k, v>> ELSE Items[i]
    BY <1>2, <1>5, <2>5
  <2>7. Items' = [i \in 1 .. n |-> IF i \in Promise!KeyIndexes(k) THEN <<k, v>> ELSE Items[i]]
    BY <2>4, <2>6
  <2>8. \E i \in 1 .. n : keys[i] = k
    BY <1>1, <1>6 DEF Ring, KeysOf
  <2>9. Promise!KeyIndexes(k) # {}
    BY <1>5, <2>8
  <2>10. QED
    BY <1>2, <2>7, <2>9 DEF Promise!Set
<1>7. CASE k \notin DOMAIN dict
  <2> DEFINE more == Append(keys, k)
  <2>1. Ring(more)' /\ more \in Seq(Key)
    BY <1>1, <1>7, KeyAdded
  <2>2. Len(more) = n + 1 /\ more[n + 1] = k /\ \A i \in 1 .. n : more[i] = keys[i]
    OBVIOUS
  <2> HIDE DEF more
  <2>3. Items' = [i \in 1 .. n + 1 |-> <<more[i], dict'[more[i]]>>]
    BY <2>1, <2>2, ItemsOfRingNext
  <2>4. \A i \in 1 .. n : keys[i] \in DOMAIN dict /\ keys[i] # k
    BY <1>1, <1>7 DEF Ring, KeysOf
  <2>5. dict' = Update(dict, k, v)
    BY DEF setitem
  <2>6. dict'[k] = v /\ \A i \in 1 .. n : dict'[keys[i]] = dict[keys[i]]
    BY <2>4, <2>5 DEF Update
  <2>7. Promise!KeyIndexes(k) = {}
    BY <1>5, <2>4
  <2>8. Items \in Seq({Items[i] : i \in 1 .. n}) /\ Len(Items) = n
    <3>1. Items = [i \in 1 .. n |-> Items[i]]
      BY <1>1, <1>2, ItemsOfRing DEF ItemsAre
    <3>2. QED
      BY <1>2, <3>1
  <2>9. Append(Items, <<k, v>>) = [i \in 1 .. n + 1 |-> IF i \in 1 .. n THEN Items[i] ELSE <<k, v>>]
    <3>1. \A i \in 1 .. n + 1 : i \in 1 .. n \/ i = n + 1
      BY <1>2
    <3>2. QED
      BY <2>8, <3>1
  <2>10. \A i \in 1 .. n + 1 : <<more[i], dict'[more[i]]>> = IF i \in 1 .. n THEN Items[i] ELSE <<k, v>>
    <3>1. \A i \in 1 .. n + 1 : i \in 1 .. n \/ i = n + 1
      BY <1>2
    <3>2. QED
      BY <1>2, <2>2, <2>6, <3>1
  <2>11. Items' = Append(Items, <<k, v>>)
    BY <2>3, <2>9, <2>10
  <2>12. QED
    BY <2>7, <2>11 DEF Promise!Set
<1>8. QED
  BY <1>6, <1>7

\* A sequence without one of its places.
LEMMA WithoutOne ==
  ASSUME NEW S, NEW s \in Seq(S), NEW i \in 1 .. Len(s)
  PROVE  SubSeq(s, 1, i - 1) \o SubSeq(s, i + 1, Len(s))
           = [j \in 1 .. Len(s) - 1 |-> IF j < i THEN s[j] ELSE s[j + 1]]
<1> DEFINE n == Len(s)
<1> DEFINE front == SubSeq(s, 1, i - 1)
<1> DEFINE rest == SubSeq(s, i + 1, n)
<1>1. i \in Int /\ n \in Int /\ 1 \in Int /\ i - 1 \in Int /\ i + 1 \in Int /\ 1 <= i /\ i <= n
  OBVIOUS
<1>2. (\A j \in 1 .. i - 1 : s[j] \in S) /\ (\A j \in i + 1 .. n : s[j] \in S)
  <2>1. \A j \in 1 .. n : s[j] \in S
    OBVIOUS
  <2>2. (\A j \in 1 .. i - 1 : j \in 1 .. n) /\ (\A j \in i + 1 .. n : j \in 1 .. n)
    BY <1>1
  <2>3. QED
    BY <2>1, <2>2
<1>3. /\ front \in Seq(S) /\ Len(front) = (IF 1 <= i - 1 THEN i - 1 - 1 + 1 ELSE 0)
      /\ \A j \in 1 .. i - 1 - 1 + 1 : front[j] = s[1 + j - 1]
  BY <1>1, <1>2, SubSeqProperties
<1>4. /\ rest \in Seq(S) /\ Len(rest) = (IF i + 1 <= n THEN n - (i + 1) + 1 ELSE 0)
      /\ \A j \in 1 .. n - (i + 1) + 1 : rest[j] = s[i + 1 + j - 1]
  BY <1>1, <1>2, SubSeqProperties
<1> HIDE DEF front, rest, n
<1>5. Len(front) = i - 1 /\ \A j \in 1 .. i - 1 : front[j] = s[j]
  BY <1>1, <1>3
<1>6. Len(rest) = n - i /\ \A j \in 1 .. n - i : rest[j] = s[i + j]
  BY <1>1, <1>4
<1> DEFINE both == front \o rest
<1>7. /\ both \in Seq(S) /\ Len(both) = Len(front) + Len(rest)
      /\ \A j \in 1 .. Len(front) + Len(rest) :
           both[j] = IF j <= Len(front) THEN front[j] ELSE rest[j - Len(front)]
  BY <1>3, <1>4, ConcatProperties
<1> HIDE DEF both
<1>8. both = [j \in 1 .. Len(both) |-> both[j]]
  BY <1>7
<1>9. Len(both) = n - 1
  BY <1>1, <1>5, <1>6, <1>7
<1>10. \A j \in 1 .. n - 1 : both[j] = IF j < i THEN s[j] ELSE s[j + 1]
  <2> SUFFICES ASSUME NEW j \in 1 .. n - 1 PROVE both[j] = IF j < i THEN s[j] ELSE s[j + 1]
    OBVIOUS
  <2>1. both[j] = IF j <= i - 1 THEN front[j] ELSE rest[j - (i - 1)]
    BY <1>1, <1>5, <1>6, <1>7
  <2>2. CASE j < i
    <3>1. j \in 1 .. i - 1 /\ j <= i - 1
      BY <1>1, <2>2
    <3>2. QED
      BY <1>5, <2>1, <2>2, <3>1
  <2>3. CASE ~ (j < i)
    <3>1. ~ (j <= i - 1) /\ j - (i - 1) \in 1 .. n - i /\ i + (j - (i - 1)) = j + 1
      BY <1>1, <2>3
    <3>2. QED
      BY <1>6, <2>1, <2>3, <3>1
  <2>4. QED
    BY <2>2, <2>3
<1>11. QED
  BY <1>8, <1>9, <1>10 DEF both, front, rest, n

\* Unlinking the key at a place removes its pair.
LEMMA DropRefines ==
  ASSUME NEW keys \in Seq(Key), Ring(keys), NEW i \in 1 .. Len(keys),
         dict' = Without(dict, keys[i]), Unlink(keys[i])
  PROVE  /\ Items' = Promise!Removed(i) /\ Len(Items) = Len(keys)
         /\ i \in Promise!KeyIndexes(keys[i])
<1> DEFINE n == Len(keys)
<1> DEFINE fewer == Dropped(keys, i)
<1> DEFINE S == {Items[j] : j \in 1 .. n}
<1>1. n \in Nat /\ DOMAIN Items = 1 .. n /\ \A j \in 1 .. n : Items[j] = <<keys[j], dict[keys[j]]>>
  BY ItemsOfRing DEF ItemsAre
<1>2. Items \in Seq(S) /\ Len(Items) = n
  <2>1. Items = [j \in 1 .. n |-> Items[j]]
    BY <1>1, ItemsOfRing DEF ItemsAre
  <2>2. QED
    BY <1>1, <2>1
<1>3. /\ fewer \in Seq(Key) /\ Len(fewer) = n - 1 /\ Ring(fewer)'
      /\ \A j \in 1 .. n - 1 : fewer[j] = IF j < i THEN keys[j] ELSE keys[j + 1]
  BY KeyDropped, DroppedKeys
<1> HIDE DEF fewer
<1>4. Items' = [j \in 1 .. n - 1 |-> <<fewer[j], dict'[fewer[j]]>>]
  BY <1>3, ItemsOfRingNext
<1>5. KeysOf(fewer) \subseteq DOMAIN dict'
  BY <1>3 DEF Ring
<1>6. \A j \in 1 .. n - 1 : dict'[fewer[j]] = dict[fewer[j]]
  BY <1>3, <1>5 DEF KeysOf, Without
<1>7. \A j \in 1 .. n - 1 : <<fewer[j], dict'[fewer[j]]>> = IF j < i THEN Items[j] ELSE Items[j + 1]
  <2> SUFFICES ASSUME NEW j \in 1 .. n - 1
               PROVE  <<fewer[j], dict'[fewer[j]]>> = IF j < i THEN Items[j] ELSE Items[j + 1]
    OBVIOUS
  <2>1. j \in 1 .. n /\ j + 1 \in 1 .. n
    BY <1>1
  <2>2. QED
    BY <1>1, <1>3, <1>6, <2>1, SMTT(30)
<1>8. Items' = [j \in 1 .. n - 1 |-> IF j < i THEN Items[j] ELSE Items[j + 1]]
  BY <1>4, <1>7
<1>14. SubSeq(Items, 1, i - 1) \o SubSeq(Items, i + 1, Len(Items))
         = [j \in 1 .. n - 1 |-> IF j < i THEN Items[j] ELSE Items[j + 1]]
  BY <1>2, WithoutOne, ZenonT(40)
<1>15. Items' = Promise!Removed(i)
  BY <1>8, <1>14 DEF Promise!Removed
<1>16. i \in Promise!KeyIndexes(keys[i])
  BY <1>1 DEF Promise!KeyIndexes
<1>17. QED
  BY <1>2, <1>15, <1>16

LEMMA ItemsStep == DictInv /\ [ODNext]_odVars => [Promise!ItemsNext]_Items
<1> SUFFICES ASSUME DictInv, [ODNext]_odVars PROVE [Promise!ItemsNext]_Items
  OBVIOUS
<1>1. PICK keys \in Seq(Key) : Ring(keys)
  BY DEF DictInv
<1>2. CASE \E k \in Key, v \in Val : setitem(k, v) \/ setdefault(k, v)
  <2>1. PICK k \in Key, v \in Val : setitem(k, v)
    BY <1>2 DEF setdefault
  <2>2. Promise!Set(k, v)
    BY <2>1, SetRefines
  <2>3. QED
    BY <2>2 DEF Promise!ItemsNext
<1>3. CASE \E k \in Key : delitem(k)
  <2>1. PICK k \in Key : delitem(k)
    BY <1>3
  <2>2. PICK i \in 1 .. Len(keys) : k = keys[i] /\ dict' = Without(dict, keys[i]) /\ Unlink(keys[i])
    BY <1>1, <2>1, DelPlace
  <2>3. Promise!Remove(k)
    BY <1>1, <2>2, DropRefines DEF Promise!Remove
  <2>4. QED
    BY <2>3 DEF Promise!ItemsNext
<1>4. CASE \E last \in BOOLEAN : popitem(last)
  <2>1. PICK i \in 1 .. Len(keys) :
          (i = 1 \/ i = Len(keys)) /\ dict' = Without(dict, keys[i]) /\ Unlink(keys[i])
    BY <1>1, <1>4, PopPlace
  <2>2. Items' = Promise!Removed(i) /\ Len(Items) = Len(keys) /\ i \in Promise!KeyIndexes(keys[i])
    BY <1>1, <2>1, DropRefines
  <2>3. i \in DOMAIN Items
    BY <2>2 DEF Promise!KeyIndexes
  <2>4. Items # <<>>
    BY <2>3
  <2>5. Promise!PopEnd
    BY <2>1, <2>2, <2>4 DEF Promise!PopEnd
  <2>6. QED
    BY <2>5 DEF Promise!ItemsNext
<1>5. CASE clear
  <2>1. Ring(<<>>)' /\ <<>> \in Seq(Key) /\ Len(<<>>) = 0
    BY <1>5, ClearEmpties
  <2>2. Items' = [i \in 1 .. Len(<<>>) |-> <<<<>>[i], dict'[<<>>[i]]>>]
    BY <2>1, ItemsOfRingNext
  <2>3. Items' = <<>>
    BY <2>1, <2>2
  <2>4. QED
    BY <2>3 DEF Promise!ItemsNext, Promise!Empty
<1>6. CASE UNCHANGED odVars
  BY <1>6 DEF odVars, Items, Walk
<1>7. QED
  BY <1>2, <1>3, <1>4, <1>5, <1>6 DEF ODNext

(***************************************************************************)
(* Over every series of sets, deletions, pops and clears the linked list   *)
(* of ordereddict.py is one ring that both directions agree on, it holds    *)
(* the keys of the dict, and its pairs are those of an ordered dictionary,  *)
(* for any keys and values.                                                 *)
(***************************************************************************)
THEOREM RingIsOrderedAlways == ODSpec => RingIsOrdered
<1>1. ODInit => Promise!ItemsInit
  <2> SUFFICES ASSUME ODInit PROVE Items = <<>>
    BY DEF Promise!ItemsInit
  <2>1. Ring(<<>>) /\ <<>> \in Seq(Key) /\ Len(<<>>) = 0
    BY EmptyRing DEF ODInit
  <2>2. Items = [i \in 1 .. Len(<<>>) |-> <<<<>>[i], dict[<<>>[i]]>>]
    BY <2>1, ItemsOfRing DEF ItemsAre
  <2>3. QED
    BY <2>1, <2>2
<1>2. ODSpec => Promise!ItemsSpec
  BY <1>1, DictInvariant, ItemsStep, PTL DEF ODSpec, Promise!ItemsSpec
<1>3. ODSpec => []RingConsistent
  BY DictInvariant, RingIsConsistent, PTL
<1>4. QED
  BY <1>2, <1>3 DEF RingIsOrdered, IsOrdered

-----------------------------------------------------------------------------
(* MonaryLoaders.                                                           *)

\* The steps that a number can be rounded to.
Steps == {1, 2, 4, 8, 16, 32, 64, 128, 256, 512, 1024}

LEMMA StepsArePowers ==
  /\ {2 ^ k : k \in 0 .. 10} = Steps
  /\ \A k \in 0 .. 10 : 2 ^ (3 + k) = 2 ^ k * 8 /\ 2 ^ (6 + k) = 2 ^ k * 64
<1>1. \A k \in 0 .. 10 : k = 0 \/ k = 1 \/ k = 2 \/ k = 3 \/ k = 4 \/ k = 5 \/ k = 6 \/ k = 7
                         \/ k = 8 \/ k = 9 \/ k = 10
  OBVIOUS
<1>2. /\ 2 ^ 0 = 1 /\ 2 ^ 1 = 2 /\ 2 ^ 2 = 4 /\ 2 ^ 3 = 8 /\ 2 ^ 4 = 16 /\ 2 ^ 5 = 32 /\ 2 ^ 6 = 64
      /\ 2 ^ 7 = 128 /\ 2 ^ 8 = 256 /\ 2 ^ 9 = 512 /\ 2 ^ 10 = 1024
  OBVIOUS
<1>3. {2 ^ k : k \in 0 .. 10} \subseteq Steps
  BY DEF Steps
<1>4. ASSUME NEW s \in Steps PROVE \E k \in 0 .. 10 : s = 2 ^ k
  <2> DEFINE pow(k) == 2 ^ k
  <2>0. pow(0) = 1 /\ 0 \in 0 .. 10
    OBVIOUS
  <2>1. pow(1) = 2 /\ 1 \in 0 .. 10
    OBVIOUS
  <2>2. pow(2) = 4 /\ 2 \in 0 .. 10
    OBVIOUS
  <2>3. pow(3) = 8 /\ 3 \in 0 .. 10
    OBVIOUS
  <2>4. pow(4) = 16 /\ 4 \in 0 .. 10
    OBVIOUS
  <2>5. pow(5) = 32 /\ 5 \in 0 .. 10
    OBVIOUS
  <2>6. pow(6) = 64 /\ 6 \in 0 .. 10
    OBVIOUS
  <2>7. pow(7) = 128 /\ 7 \in 0 .. 10
    OBVIOUS
  <2>8. pow(8) = 256 /\ 8 \in 0 .. 10
    OBVIOUS
  <2>9. pow(9) = 512 /\ 9 \in 0 .. 10
    OBVIOUS
  <2>10. pow(10) = 1024 /\ 10 \in 0 .. 10
    OBVIOUS
  <2> SUFFICES \E k \in 0 .. 10 : s = pow(k)
    OBVIOUS
  <2> HIDE DEF pow
  <2>11. QED
    BY <1>4, <2>0, <2>1, <2>2, <2>3, <2>4, <2>5, <2>6, <2>7, <2>8, <2>9, <2>10 DEF Steps
<1>5. ASSUME NEW k \in 0 .. 10 PROVE 2 ^ (3 + k) = 2 ^ k * 8
  <2>1. /\ 2 ^ (3 + 0) = 2 ^ 0 * 8 /\ 2 ^ (3 + 1) = 2 ^ 1 * 8 /\ 2 ^ (3 + 2) = 2 ^ 2 * 8
        /\ 2 ^ (3 + 3) = 2 ^ 3 * 8 /\ 2 ^ (3 + 4) = 2 ^ 4 * 8 /\ 2 ^ (3 + 5) = 2 ^ 5 * 8
        /\ 2 ^ (3 + 6) = 2 ^ 6 * 8 /\ 2 ^ (3 + 7) = 2 ^ 7 * 8 /\ 2 ^ (3 + 8) = 2 ^ 8 * 8
        /\ 2 ^ (3 + 9) = 2 ^ 9 * 8 /\ 2 ^ (3 + 10) = 2 ^ 10 * 8
    OBVIOUS
  <2>2. QED
    BY <1>1, <2>1
<1>6. ASSUME NEW k \in 0 .. 10 PROVE 2 ^ (6 + k) = 2 ^ k * 64
  <2>1. /\ 2 ^ (6 + 0) = 2 ^ 0 * 64 /\ 2 ^ (6 + 1) = 2 ^ 1 * 64 /\ 2 ^ (6 + 2) = 2 ^ 2 * 64
        /\ 2 ^ (6 + 3) = 2 ^ 3 * 64 /\ 2 ^ (6 + 4) = 2 ^ 4 * 64 /\ 2 ^ (6 + 5) = 2 ^ 5 * 64
        /\ 2 ^ (6 + 6) = 2 ^ 6 * 64 /\ 2 ^ (6 + 7) = 2 ^ 7 * 64 /\ 2 ^ (6 + 8) = 2 ^ 8 * 64
        /\ 2 ^ (6 + 9) = 2 ^ 9 * 64 /\ 2 ^ (6 + 10) = 2 ^ 10 * 64
    OBVIOUS
  <2>2. QED
    BY <1>1, <2>1
<1>7. QED
  BY <1>3, <1>4, <1>5, <1>6

\* A step divides what a larger step divides.
LEMMA StepsDivide ==
  ASSUME NEW s \in Steps, NEW p \in Steps, s <= p, NEW a \in Int, a % p = 0
  PROVE  a % s = 0
<1>1. CASE s \in {1, 2, 4, 8}
  BY <1>1 DEF Steps
<1>2. CASE s \in {16, 32, 64, 128}
  BY <1>2 DEF Steps
<1>3. CASE s \in {256, 512, 1024}
  BY <1>3 DEF Steps
<1>4. QED
  BY <1>1, <1>2, <1>3 DEF Steps

\* A number with enough bits is not rounded: s * base is 2^bits times the step.
LEMMA NotRounded ==
  ASSUME NEW bits \in {3, 6}, NEW n \in Int, NEW k \in 0 .. 10,
         Abs(n) < 2 ^ (bits + k), n % (2 ^ k) = 0
  PROVE  Rounded(n, bits) = n
<1> DEFINE a == Abs(n)
           p == 2 ^ k
           base == 2 ^ bits
           IsStep(s) == a < s * base /\ (s > 1 => a >= (s \div 2) * base)
           s == Step(n, bits)
<1>1. /\ a \in Nat /\ (n < 0 => a = -n) /\ (~ (n < 0) => a = n)
  BY DEF Abs
<1>2. p \in Steps /\ base \in {8, 64} /\ a < p * base
  <2>1. p \in Steps
    BY StepsArePowers
  <2>2. 2 ^ 3 = 8 /\ 2 ^ 6 = 64
    OBVIOUS
  <2>3. CASE bits = 3
    BY <2>1, <2>2, <2>3, StepsArePowers
  <2>4. CASE bits = 6
    BY <2>1, <2>2, <2>4, StepsArePowers
  <2>5. QED
    BY <2>3, <2>4
<1>3. n % p = 0
  OBVIOUS
<1> HIDE DEF a, p, base
<1>4. a % p = 0
  <2>1. \A q \in Steps : n % q = 0 => (-n) % q = 0
    BY DEF Steps
  <2>2. n % p = 0 /\ (-n) % p = 0
    BY <1>2, <1>3, <2>1
  <2>3. QED
    BY <1>1, <2>2
<1>5. \E t \in Steps : IsStep(t)
  <2>1. a < 1024 * base
    BY <1>1, <1>2 DEF Steps
  <2>2. CASE base = 8
    BY <1>1, <2>1, <2>2 DEF Steps
  <2>3. CASE base = 64
    BY <1>1, <2>1, <2>3 DEF Steps
  <2>4. QED
    BY <1>2, <2>2, <2>3
<1>6. s \in Steps /\ IsStep(s)
  <2>1. s = CHOOSE t \in Steps : IsStep(t)
    BY StepsArePowers, Zenon DEF Step, a, base
  <2> HIDE DEF s, IsStep
  <2>2. QED
    BY <1>5, <2>1
<1> HIDE DEF s
<1>7. s <= p
  <2> SUFFICES ASSUME ~ (s <= p) PROVE FALSE
    OBVIOUS
  <2>1. s > 1 /\ p <= s \div 2 /\ s \div 2 \in Nat
    BY <1>2, <1>6 DEF Steps
  <2>2. a >= (s \div 2) * base
    BY <1>6, <2>1
  <2> DEFINE h == s \div 2
  <2>3. h \in Nat /\ p \in Nat /\ base \in Nat /\ p <= h
    BY <1>2, <2>1 DEF Steps
  <2>4. a >= h * base
    BY <2>2
  <2> HIDE DEF h
  <2>5. h * base >= p * base
    <3>1. CASE base = 8
      BY <2>3, <3>1
    <3>2. CASE base = 64
      BY <2>3, <3>2
    <3>3. QED
      BY <1>2, <3>1, <3>2
  <2>6. h * base \in Nat /\ p * base \in Nat
    BY <2>3
  <2>7. QED
    BY <1>1, <1>2, <2>4, <2>5, <2>6
<1>8. a % s = 0
  BY <1>1, <1>2, <1>4, <1>6, <1>7, StepsDivide
<1>9. s * (a \div s) = a /\ a \div s \in Nat /\ s > 0 /\ s \in Nat
  <2>1. \A t \in Steps : a % t = 0 => t * (a \div t) = a /\ a \div t \in Nat /\ t > 0 /\ t \in Nat
    BY <1>1 DEF Steps
  <2>2. QED
    BY <1>6, <1>8, <2>1
<1> DEFINE q == a \div s
           r == a % s
           up == 2 * r > s \/ (2 * r = s /\ q % 2 = 1)
<1>10. Rounded(n, bits) = IF n < 0 THEN -(s * (q + IF up THEN 1 ELSE 0))
                          ELSE s * (q + IF up THEN 1 ELSE 0)
  BY Zenon DEF Rounded, s, a
<1>11. ~ up
  BY <1>8, <1>9
<1> HIDE DEF up, r
<1>12. s * (q + IF up THEN 1 ELSE 0) = a
  <2>1. (q + IF up THEN 1 ELSE 0) = q
    BY <1>9, <1>11
  <2>2. QED
    BY <1>9, <2>1
<1> HIDE DEF q
<1>13. QED
  BY <1>1, <1>10, <1>12

\* Twice as many subsets as of one element less: 2^n doubles.
LEMMA Doubling ==
  ASSUME NEW n \in Nat
  PROVE  2 ^ (n + 1) = 2 * 2 ^ n /\ 2 ^ n \in Nat
<1> DEFINE S == 1 .. n
           T == 1 .. n + 1
           A == SUBSET S
           B == {s \cup {n + 1} : s \in A}
           f == [s \in A |-> s \cup {n + 1}]
<1>1. IsFiniteSet(S) /\ Cardinality(S) = n /\ IsFiniteSet(T) /\ Cardinality(T) = n + 1
  BY FS_Interval
<1>2. T = S \cup {n + 1} /\ n + 1 \notin S
  OBVIOUS
<1> HIDE DEF S, T
<1>3. /\ IsFiniteSet(A) /\ Cardinality(A) = 2 ^ n /\ Cardinality(A) \in Nat
      /\ Cardinality(SUBSET T) = 2 ^ (n + 1)
  BY <1>1, FS_SUBSET, FS_CardinalityType
<1>4. f \in Bijection(A, B)
  <2>1. f \in [A -> B] /\ \A b \in B : \E s \in A : f[s] = b
    OBVIOUS
  <2>2. \A s, t \in A : f[s] = f[t] => s = t
    <3> SUFFICES ASSUME NEW s \in A, NEW t \in A, s \cup {n + 1} = t \cup {n + 1} PROVE s = t
      OBVIOUS
    <3>1. n + 1 \notin s /\ n + 1 \notin t
      BY <1>2
    <3>2. QED
      BY <3>1
  <2>3. QED
    BY <2>1, <2>2 DEF Bijection, Injection, Surjection, IsInjective
<1>5. IsFiniteSet(B) /\ Cardinality(B) = Cardinality(A)
  BY <1>3, <1>4, FS_Bijection DEF ExistsBijection
<1>6. SUBSET T = A \cup B /\ A \cap B = {}
  <2>1. ASSUME NEW u \in SUBSET T PROVE u \in A \cup B
    <3>1. CASE n + 1 \in u
      <4>1. u \ {n + 1} \in A /\ u = (u \ {n + 1}) \cup {n + 1}
        BY <1>2, <2>1, <3>1
      <4>2. QED
        BY <4>1
    <3>2. CASE n + 1 \notin u
      BY <1>2, <2>1, <3>2
    <3>3. QED
      BY <3>1, <3>2
  <2>2. A \cup B \subseteq SUBSET T
    BY <1>2
  <2>3. A \cap B = {}
    BY <1>2
  <2>4. QED
    BY <2>1, <2>2, <2>3
<1> HIDE DEF A, B
<1>7. Cardinality(A \cup B) = Cardinality(A) + Cardinality(B) - Cardinality(A \cap B)
  BY <1>3, <1>5, FS_Union
<1>8. Cardinality(A \cap B) = 0
  BY <1>6, FS_EmptySet
<1> DEFINE c == Cardinality(A)
<1>9. Cardinality(SUBSET T) = c + c - 0 /\ c \in Nat
  BY <1>3, <1>5, <1>6, <1>7, <1>8
<1>10. Cardinality(SUBSET T) = 2 * c /\ c \in Nat
  <2> HIDE DEF c
  <2>1. QED
    BY <1>9
<1>11. QED
  BY <1>3, <1>10

LEMMA TypeRanges ==
  \A t \in IntTypes :
    /\ t \in {"int8", "uint8"} => Modulus(t) = 2
    /\ t \in {"int16", "uint16"} => Modulus(t) = 4
    /\ t \in {"int32", "uint32"} => Modulus(t) = 16
    /\ t \in {"int64", "uint64"} => Modulus(t) = 256
    /\ t \in {"int8", "uint8", "int16", "uint16", "int32", "uint32", "int64", "uint64"}
<1>1. \A t : /\ Bits[t] = 1 => Modulus(t) = 2
             /\ Bits[t] = 2 => Modulus(t) = 4
             /\ Bits[t] = 4 => Modulus(t) = 16
             /\ Bits[t] = 8 => Modulus(t) = 256
  <2>1. 2 ^ 1 = 2 /\ 2 ^ 2 = 4 /\ 2 ^ 4 = 16 /\ 2 ^ 8 = 256
    OBVIOUS
  <2>2. QED
    BY <2>1 DEF Modulus
<1>2. IntTypes = {"int8", "int16", "int32", "int64", "uint8", "uint16", "uint32", "uint64"}
  BY DEF IntTypes, Bits
<1>3. /\ Bits["int8"] = 1 /\ Bits["int16"] = 2 /\ Bits["int32"] = 4 /\ Bits["int64"] = 8
      /\ Bits["uint8"] = 1 /\ Bits["uint16"] = 2 /\ Bits["uint32"] = 4 /\ Bits["uint64"] = 8
  BY DEF Bits
<1>4. QED
  BY <1>1, <1>2, <1>3

\* A number that a type can hold is not changed by the cast to it.
LEMMA CastKeeps ==
  ASSUME NEW t \in IntTypes, NEW n \in Representable(t)
  PROVE  Wrap(t, n) = n /\ n \in Int
<1> DEFINE m == Modulus(t)
<1>1. m \in {2, 4, 16, 256}
  BY TypeRanges
<1>2. \A r \in Representable(t) : r \in Int /\ r - n < m /\ n - r < m
  <2> HIDE DEF m
  <2>1. CASE Representable(t) = -(m \div 2) .. (m \div 2 - 1)
    BY <1>1, <2>1
  <2>2. CASE Representable(t) = 0 .. (m - 1)
    BY <1>1, <2>2
  <2>3. QED
    BY <2>1, <2>2 DEF Representable, m
<1> HIDE DEF m
<1>3. n \in Int /\ (n - n) % m = 0
  BY <1>1, <1>2
<1>4. \A r \in Representable(t) : (r - n) % m = 0 => r = n
  BY <1>1, <1>2
<1>5. Wrap(t, n) = CHOOSE r \in Representable(t) : (r - n) % m = 0
  BY DEF Wrap, m
<1>6. QED
  BY <1>3, <1>4, <1>5

\* The loader is inductive: what was loaded is an outcome of the loader of the column.
LoaderInv ==
  /\ type \in Types /\ value \in Values /\ row \in Nat
  /\ HasLoaded => outcome \in load_item(type, value, ItemSize)

LEMMA LoaderInvariant == LoaderSpec => []LoaderInv
<1>1. LoaderInit => LoaderInv
  BY DEF LoaderInit, LoaderInv, HasLoaded
<1>2. LoaderInv /\ [Load]_loaderVars => LoaderInv'
  <2> SUFFICES ASSUME LoaderInv, [Load]_loaderVars PROVE LoaderInv'
    OBVIOUS
  <2>1. CASE Load
    <3> DEFINE half == 2 ^ (AddressBits - 1)
               full == 2 ^ AddressBits
    <3>1. half \in Nat /\ full \in Nat
      <4>1. AddressBits - 1 \in Nat /\ AddressBits \in Nat
        BY LoaderAssumption
      <4>2. QED
        BY <4>1, Doubling
    <3>2. row' \in {1, half \div ItemSize, full} /\ outcome' \in load_item(type, value, ItemSize)
          /\ UNCHANGED <<type, value>>
      BY <2>1 DEF Load
    <3> HIDE DEF half, full
    <3>3. row' \in Nat
      BY <3>1, <3>2 DEF ItemSize
    <3>4. QED
      BY <3>2, <3>3 DEF LoaderInv
  <2>2. CASE UNCHANGED loaderVars
    BY <2>2 DEF loaderVars, LoaderInv, HasLoaded
  <2>3. QED
    BY <2>1, <2>2
<1>3. QED
  BY <1>1, <1>2, PTL DEF LoaderSpec

\* The loader of a number column.
LEMMA NumberLoader ==
  ASSUME NEW v, NEW size
  PROVE  /\ \A t \in IntTypes : load_item(t, v, size) = load_int(t, v)
         /\ \A t \in DOMAIN Mantissa : load_item(t, v, size) = load_float(t, v) /\ Mantissa[t] \in {3, 6}
<1>1. IntTypes = {"int8", "int16", "int32", "int64", "uint8", "uint16", "uint32", "uint64"}
  BY DEF IntTypes, Bits
<1>2. DOMAIN Mantissa = {"float32", "float64"} /\ Mantissa["float32"] = 3 /\ Mantissa["float64"] = 6
  BY DEF Mantissa
<1>3. ASSUME NEW t \in IntTypes PROVE load_item(t, v, size) = load_int(t, v)
  BY <1>1, <1>2, <1>3 DEF load_item
<1>4. ASSUME NEW t \in DOMAIN Mantissa PROVE load_item(t, v, size) = load_float(t, v)
  BY <1>1, <1>2, <1>4 DEF load_item
<1>5. QED
  BY <1>2, <1>3, <1>4

LEMMA NumbersKept == ASSUME LoaderInv PROVE NumberKept
<1> DEFINE n == value.n
           halves == IF value.type = "double" THEN n ELSE 2 * n
<1> SUFFICES ASSUME HasLoaded, value.type \in {"int32", "int64", "double"}
             PROVE  /\ type \in IntTypes /\ TowardsZero(halves) \in Representable(type) =>
                         outcome = Item(TowardsZero(halves))
                    /\ type \in DOMAIN Mantissa
                         /\ (\E k \in 0..10 : Abs(halves) < 2 ^ (Mantissa[type] + k)
                                              /\ halves % (2 ^ k) = 0) =>
                         outcome = Item(halves)
  BY Zenon DEF NumberKept
<1>1. n \in Int
  <2>1. value \in Int32s \cup Int64s \cup Doubles
    BY DEF LoaderInv, Values, Texts, Blobs, Parents, Others
  <2>2. CASE value \in Int32s
    <3>1. n \in Representable("int32") /\ "int32" \in IntTypes
      BY <2>2 DEF Int32s, IntTypes, Bits
    <3>2. QED
      BY <3>1, CastKeeps
  <2>3. CASE value \in Int64s
    <3>1. n \in Representable("int64") /\ "int64" \in IntTypes
      BY <2>3 DEF Int64s, IntTypes, Bits
    <3>2. QED
      BY <3>1, CastKeeps
  <2>4. CASE value \in Doubles
    <3>1. n \in -300 .. 300
      BY <2>4 DEF Doubles
    <3>2. QED
      BY <3>1
  <2>5. QED
    BY <2>1, <2>2, <2>3, <2>4
<1>2. outcome \in load_item(type, value, ItemSize)
  BY DEF LoaderInv
<1>3. ASSUME type \in IntTypes, TowardsZero(halves) \in Representable(type)
      PROVE  outcome = Item(TowardsZero(halves))
  <2>1. outcome \in load_int(type, value)
    BY <1>2, <1>3, NumberLoader
  <2>2. CASE value.type = "double"
    BY <1>3, <2>1, <2>2 DEF load_int
  <2>3. CASE value.type \in {"int32", "int64"}
    <3>1. TowardsZero(halves) = n
      <4>1. \A m \in Int : TowardsZero(2 * m) = m
        BY DEF TowardsZero
      <4>2. QED
        BY <1>1, <2>3, <4>1
    <3>2. Wrap(type, n) = n
      BY <1>3, <3>1, CastKeeps
    <3>3. outcome = Item(Wrap(type, n))
      BY <2>1, <2>3 DEF load_int
    <3>4. QED
      BY <3>1, <3>2, <3>3
  <2>4. QED
    BY <2>2, <2>3
<1>4. ASSUME type \in DOMAIN Mantissa,
             NEW k \in 0 .. 10, Abs(halves) < 2 ^ (Mantissa[type] + k), halves % (2 ^ k) = 0
      PROVE  outcome = Item(halves)
  <2>1. outcome \in load_float(type, value) /\ Mantissa[type] \in {3, 6}
    BY <1>2, <1>4, NumberLoader
  <2>2. outcome = Item(Rounded(halves, Mantissa[type]))
    BY <2>1, Zenon DEF load_float
  <2>3. halves \in Int
    BY <1>1
  <2> HIDE DEF halves
  <2>4. Rounded(halves, Mantissa[type]) = halves
    BY <1>4, <2>1, <2>3, NotRounded
  <2>5. QED
    BY <2>2, <2>4
<1>5. QED
  BY <1>3, <1>4

\* The characters of a text have a length.
LEMMA TextLength ==
  ASSUME NEW k \in Nat, NEW chars \in [1 .. k -> {0, 1, 3}]
  PROVE  ByteLength(chars) \in Nat
<1> DEFINE widths == [i \in DOMAIN chars |-> ByteWidth(chars[i])]
<1>1. widths \in [1 .. k -> Nat]
  BY DEF ByteWidth
<1>2. widths \in Seq(Nat)
  BY <1>1
<1> HIDE DEF widths
<1>3. Len(widths) \in 0 .. Len(widths) /\ Len(widths) <= Len(widths)
  BY <1>2
<1>4. SumOf(widths) \in Nat
  BY <1>2, <1>3, SumsGrow DEF SumOf
<1>5. QED
  BY <1>4 DEF ByteLength, widths

LEMMA TextsCut == ASSUME LoaderInv PROVE CutIffTooLong
<1> DEFINE len == ByteLength(value.chars)
<1> SUFFICES ASSUME value.type = "utf8",
                    NEW s \in load_size(value), NEW c \in load_bytes("utf8", ItemSize, value)
             PROVE  /\ c.item <= ItemSize
                    /\ c.item = s.item <=> s.item <= ItemSize
                    /\ s.item = len
  BY DEF CutIffTooLong
<1>1. value \in Texts
  BY DEF LoaderInv, Values, Int32s, Int64s, Doubles, Blobs, Parents, Others
<1>2. PICK k \in 0 .. MaxText : value.chars \in [1 .. k -> {0, 1, 3}]
  BY <1>1 DEF Texts
<1>3. len \in Nat
  <2>1. k \in Nat
    BY LoaderAssumption
  <2>2. QED
    BY <1>2, <2>1, TextLength
<1>4. s = Item(len) /\ c = Item(IF len > ItemSize THEN ItemSize ELSE len)
  BY DEF load_size, load_bytes
<1> HIDE DEF len
<1>5. s.item = len /\ c.item = IF len > ItemSize THEN ItemSize ELSE len
  BY <1>4 DEF Item
<1>6. QED
  BY <1>3, <1>5 DEF ItemSize

LEMMA SlotsExact == ASSUME LoaderInv PROVE SlotExact
<1> DEFINE half == 2 ^ (AddressBits - 1)
           full == 2 ^ AddressBits
<1>1. half \in Nat /\ full = 2 * half
  <2>1. AddressBits - 1 \in Nat /\ (AddressBits - 1) + 1 = AddressBits
    BY LoaderAssumption
  <2>2. QED
    BY <2>1, Doubling
<1> SUFFICES ASSUME row * ItemSize < half, NEW r \in 0 .. row
             PROVE  offset(r, ItemSize) = r * ItemSize
  BY DEF SlotExact
<1>2. row \in Nat /\ r \in Nat /\ r <= row
  BY DEF LoaderInv
<1> DEFINE at == r * ItemSize
<1>3. offset(r, ItemSize) = IF at % full < full \div 2 THEN at % full ELSE (at % full) - full
  BY DEF offset
<1> HIDE DEF half, full
<1>4. at \in Nat /\ at < half
  BY <1>1, <1>2 DEF ItemSize
<1> HIDE DEF at
<1>5. at % full = at /\ full \div 2 = half
  <2>1. at < full /\ full \in Nat
    BY <1>1, <1>4
  <2>2. full \div 2 = half
    BY <1>1
  <2>3. \A m \in Nat, d \in Nat : m < d => m % d = m
    OBVIOUS
  <2>4. QED
    BY <1>4, <2>1, <2>2, <2>3
<1>6. offset(r, ItemSize) = at
  BY <1>3, <1>4, <1>5
<1>7. QED
  BY <1>6 DEF at

(***************************************************************************)
(* What a loader of cmonary.c stores is what the value says: a number that  *)
(* the column can hold is unchanged, whatever it is a BSON int32, an int64   *)
(* or a double; a text is cut exactly if it does not fit; and rows do not   *)
(* overlap below the largest array, for any width of an address.            *)
(***************************************************************************)
THEOREM ItemExactAlways == LoaderSpec => []ItemExact
<1>1. LoaderInv => ItemExact
  BY NumbersKept, TextsCut, SlotsExact DEF ItemExact
<1>2. QED
  BY <1>1, LoaderInvariant, PTL

-----------------------------------------------------------------------------
(* MonaryArguments.                                                         *)

\* The inductive invariant: a call is answered once, and with its answer.
ArgInv == call \in Calls /\ (answer = Pending \/ answer = Answer)

LEMMA ArgInvariant == ArgSpec => []ArgInv
<1>1. ArgInit => ArgInv
  BY DEF ArgInit, ArgInv
<1>2. ArgInv /\ [Reply]_argVars => ArgInv'
  <2> SUFFICES ASSUME ArgInv, [Reply]_argVars PROVE ArgInv'
    OBVIOUS
  <2>1. call' = call
    BY DEF Reply, argVars
  <2>2. Answer' = Answer
    BY <2>1 DEF Answer
  <2>3. answer' = answer \/ answer' = Answer
    BY DEF Reply, argVars
  <2>4. QED
    BY <2>1, <2>2, <2>3 DEF ArgInv
<1>3. QED
  BY <1>1, <1>2, PTL DEF ArgSpec

\* An accepted type: its number has a loader, which writes as many bytes as
\* the item of the NumPy type has, for any size argument.
LEMMA TypesFit ==
  ASSUME NEW name \in DOMAIN MONARY_TYPES, NEW arg \in Int
  PROVE  LET num == MONARY_TYPES[name][1]
             itemsize == IF name \in Sized THEN arg ELSE MONARY_TYPES[name][2]
         IN  /\ num \in 1 .. 20
             /\ itemsize = LoaderSize(num, arg)
             /\ name \notin Sized => itemsize > 0
<1>1. name \in {"id", "bool", "int8", "int16", "int32"} \/ name \in {"int64", "uint8", "uint16", "uint32", "uint64"}
      \/ name \in {"float32", "float64", "date", "timestamp", "string"} \/ name \in {"binary", "bson", "type", "size", "length"}
  BY DEF MONARY_TYPES
<1>2. CASE name \in {"id", "bool", "int8", "int16", "int32"}
  BY <1>2 DEF MONARY_TYPES, LoaderSize, Sized
<1>3. CASE name \in {"int64", "uint8", "uint16", "uint32", "uint64"}
  BY <1>3 DEF MONARY_TYPES, LoaderSize, Sized
<1>4. CASE name \in {"float32", "float64", "date", "timestamp", "string"}
  BY <1>4 DEF MONARY_TYPES, LoaderSize, Sized
<1>5. CASE name \in {"binary", "bson", "type", "size", "length"}
  BY <1>5 DEF MONARY_TYPES, LoaderSize, Sized
<1>6. QED
  BY <1>1, <1>2, <1>3, <1>4, <1>5

LEMMA ItemsFitInv == ASSUME ArgInv PROVE ItemsFit
<1> SUFFICES ASSUME answer # Pending, call.op = "type", answer.ok, NumpyAccepts(answer.v.itemsize)
             PROVE  /\ answer.v.num \in 1 .. 20
                    /\ answer.v.itemsize > 0
                    /\ answer.v.itemsize = LoaderSize(answer.v.num, answer.v.arg)
  BY DEF ItemsFit, Answered
<1> DEFINE name == call.name
           arg == call.arg
           size == IF arg.kind = "none" THEN 0 ELSE arg.n
           num == MONARY_TYPES[name][1]
           itemsize == IF name \in Sized THEN size ELSE MONARY_TYPES[name][2]
<1>1. answer = get_monary_numpy_type(name, arg) /\ arg \in Args
  BY DEF ArgInv, Answer, Calls
<1>2. /\ arg.kind \notin {"two colons", "not a number"}
      /\ name \in DOMAIN MONARY_TYPES
      /\ ~ (name \in Sized /\ size = 0)
      /\ answer.v = [num |-> num, arg |-> size, itemsize |-> itemsize]
  BY <1>1 DEF get_monary_numpy_type, Error, Ok
<1>3. size \in Int
  <2>1. CASE arg \in [kind : {"number"}, n : -1 .. 3]
    <3>1. arg.kind = "number" /\ arg.n \in -1 .. 3
      BY <2>1
    <3> HIDE DEF arg
    <3>2. QED
      BY <3>1
  <2>2. CASE arg \in [kind : {"none", "two colons", "not a number"}]
    <3>1. arg.kind = "none"
      BY <1>2, <2>2
    <3> HIDE DEF arg
    <3>2. QED
      BY <3>1
  <2>3. QED
    BY <1>1, <2>1, <2>2 DEF Args
<1> HIDE DEF name, arg, size, num, itemsize
<1>3a. answer.v.num = num /\ answer.v.arg = size /\ answer.v.itemsize = itemsize
  <2> DEFINE a == answer.v
  <2>1. a = [num |-> num, arg |-> size, itemsize |-> itemsize]
    BY <1>2
  <2> HIDE DEF a
  <2>2. a.num = num /\ a.arg = size /\ a.itemsize = itemsize
    BY <2>1
  <2>3. QED
    BY <2>2 DEF a
<1> USE DEF num, itemsize
<1>4. num \in 1 .. 20 /\ itemsize = LoaderSize(num, size) /\ (name \notin Sized => itemsize > 0)
  BY <1>2, <1>3, TypesFit
<1> HIDE DEF num, itemsize
<1>5. itemsize >= 0
  BY <1>3a DEF NumpyAccepts
<1>6. itemsize > 0
  <2>1. CASE name \in Sized
    <3>1. itemsize = size /\ size # 0
      BY <1>2, <2>1 DEF itemsize
    <3>2. QED
      BY <1>3, <1>5, <3>1
  <2>2. QED
    BY <1>4, <2>1
<1>7. QED
  BY <1>3a, <1>4, <1>6

\* The columns that pass the checks of _make_column_data pass those of
\* monary_alloc_column_data and monary_set_column_item, whatever the limits.
LEMMA ColumnsInv == ASSUME ArgInv PROVE ColumnsAccepted
<1> SUFFICES ASSUME answer # Pending, call.op = "columns", answer.ok
             PROVE  /\ alloc_column_data(Len(call.fields)).ok
                    /\ \A i \in DOMAIN call.fields :
                         set_column_item(Len(call.fields), i - 1, call.fields[i], call.types[i])
  BY DEF ColumnsAccepted, Answered
<1> DEFINE fields == call.fields
           types == call.types
<1>1. /\ answer = make_column_data(fields, types)
      /\ fields \in UNION {[1 .. n -> {0, MaxStringLength, MaxStringLength + 1}] : n \in 0 .. (MaxColumns + 1)}
      /\ types \in UNION {[1 .. n -> {5, 20}] : n \in 0 .. (MaxColumns + 1)}
  BY DEF ArgInv, Answer, Calls
<1> HIDE DEF fields, types
<1>2. PICK n \in 0 .. (MaxColumns + 1) : fields \in [1 .. n -> {0, MaxStringLength, MaxStringLength + 1}]
  BY <1>1
<1>3. PICK k \in 0 .. (MaxColumns + 1) : types \in [1 .. k -> {5, 20}]
  BY <1>1
<1>4. n \in Nat /\ k \in Nat
  BY ArgumentsAssumption
<1>5. Len(fields) = n /\ Len(types) = k
  <2>1. fields \in Seq({0, MaxStringLength, MaxStringLength + 1}) /\ types \in Seq({5, 20})
    BY <1>2, <1>3, <1>4
  <2>2. QED
    BY <1>2, <1>3, <1>4, <2>1
<1>6. n = k /\ ~ (n > MaxColumns) /\ \A i \in 1 .. n : ~ (fields[i] > MaxStringLength)
  BY <1>1, <1>2, <1>5 DEF make_column_data, Error
<1>7. alloc_column_data(n).ok
  BY <1>6 DEF alloc_column_data, Ok
<1>8. ASSUME NEW i \in 1 .. n PROVE set_column_item(n, i - 1, fields[i], types[i])
  <2>1. types[i] \in {5, 20} /\ fields[i] \in Nat
    BY <1>2, <1>3, <1>6, <1>8, ArgumentsAssumption
  <2>2. i - 1 < n
    BY <1>4, <1>8
  <2>3. QED
    BY <1>6, <1>8, <2>1, <2>2, ArgumentsAssumption DEF set_column_item
<1>9. DOMAIN fields = 1 .. n
  BY <1>2
<1>10. QED
  BY <1>5, <1>7, <1>8, <1>9 DEF fields, types

\* The bytes of an item come back, for an item of any length.
LEMMA BytesBack ==
  ASSUME NEW n \in Nat, NEW bytes \in [1 .. n -> 0 .. 7]
  PROVE  mvoid_to_bson_id([i \in DOMAIN bytes |-> AsSigned(bytes[i])]) = bytes
<1>1. \A b \in 0 .. 7 : AsSigned(b) % 8 = b
  <2> SUFFICES ASSUME NEW b \in 0 .. 7 PROVE AsSigned(b) % 8 = b
    OBVIOUS
  <2>1. CASE b < 4
    BY <2>1 DEF AsSigned
  <2>2. CASE ~ (b < 4)
    <3>1. AsSigned(b) = b - 8
      BY <2>2 DEF AsSigned
    <3>2. (b - 8) % 8 = b
      OBVIOUS
    <3>3. QED
      BY <3>1, <3>2
  <2>3. QED
    BY <2>1, <2>2
<1> HIDE DEF AsSigned
<1>2. QED
  BY <1>1 DEF mvoid_to_bson_id

LEMMA IdInv == ASSUME ArgInv PROVE IdBytesKept
<1> SUFFICES ASSUME answer # Pending, call.op = "id" PROVE answer.v = call.bytes
  BY DEF IdBytesKept, Answered
<1>1. call.bytes \in [1 .. 2 -> 0 .. 7]
      /\ answer = Ok(mvoid_to_bson_id([i \in DOMAIN call.bytes |-> AsSigned(call.bytes[i])]))
  BY DEF ArgInv, Answer, Calls
<1>2. QED
  BY <1>1, BytesBack DEF Ok

\* The three shapes of an extended query.
LEMMA Joins ==
  ASSUME NEW x, NEW y, NEW z
  PROVE  /\ << x >> \o << >> \o << >> = << x >>
         /\ << x >> \o << y >> \o << >> = << x, y >>
         /\ << x >> \o << >> \o << z >> = << x, z >>
         /\ << x >> \o << y >> \o << z >> = << x, y, z >>
<1> DEFINE S == {x, y, z}
<1>1. << >> \in Seq(S) /\ << x >> \in Seq(S) /\ << y >> \in Seq(S) /\ << z >> \in Seq(S)
      /\ << x, y >> \in Seq(S)
  OBVIOUS
<1>2. << x >> \o << >> = << x >> /\ << x, y >> \o << >> = << x, y >>
  BY <1>1
<1>3. << x >> \o << y >> = << x, y >> /\ << x >> \o << z >> = << x, z >>
  <2> SUFFICES ASSUME NEW w \in {y, z} PROVE << x >> \o << w >> = << x, w >>
    OBVIOUS
  <2> DEFINE a == << x >>
             b == << w >>
             r == a \o b
             e == << x, w >>
  <2>1. a \in Seq(S) /\ b \in Seq(S) /\ Len(a) = 1 /\ Len(b) = 1 /\ a[1] = x /\ b[1] = w
    OBVIOUS
  <2>2. e \in Seq(S) /\ Len(e) = 2 /\ e[1] = x /\ e[2] = w
    OBVIOUS
  <2> HIDE DEF a, b, e, S
  <2>3. r \in Seq(S) /\ Len(r) = 2 /\ r[1] = x /\ r[2] = w
    BY <2>1, ConcatProperties
  <2> HIDE DEF r
  <2>4. \A i \in 1 .. 2 : r[i] = e[i]
    BY <2>2, <2>3
  <2>5. r = e
    BY <2>2, <2>3, <2>4, SeqEqual
  <2>6. QED
    BY <2>5 DEF r, a, b, e
<1>4. << x, y >> \o << z >> = << x, y, z >>
  <2> DEFINE a == << x, y >>
             b == << z >>
             r == a \o b
             e == << x, y, z >>
  <2>1. a \in Seq(S) /\ b \in Seq(S) /\ Len(a) = 2 /\ Len(b) = 1 /\ a[1] = x /\ a[2] = y /\ b[1] = z
    OBVIOUS
  <2>2. e \in Seq(S) /\ Len(e) = 3 /\ e[1] = x /\ e[2] = y /\ e[3] = z
    OBVIOUS
  <2> HIDE DEF a, b, e, S
  <2>3. r \in Seq(S) /\ Len(r) = 3 /\ r[1] = x /\ r[2] = y /\ r[3] = z
    <3>1. r \in Seq(S) /\ Len(r) = Len(a) + Len(b)
          /\ \A i \in 1 .. Len(a) + Len(b) : r[i] = IF i <= Len(a) THEN a[i] ELSE b[i - Len(a)]
      BY <2>1, ConcatProperties
    <3> HIDE DEF r
    <3>2. Len(r) = 3 /\ \A i \in 1 .. 3 : r[i] = IF i <= 2 THEN a[i] ELSE b[i - 2]
      BY <2>1, <3>1
    <3>3. r[1] = x /\ r[2] = y /\ r[3] = z
      BY <2>1, <3>2
    <3>4. QED
      BY <3>1, <3>2, <3>3
  <2> HIDE DEF r
  <2>4. \A i \in 1 .. 3 : r[i] = e[i]
    BY <2>2, <2>3
  <2>5. r = e
    BY <2>2, <2>3, <2>4, SeqEqual
  <2>6. QED
    BY <2>5 DEF r, a, b, e
<1>5. QED
  BY <1>2, <1>3, <1>4

\* A query with its clauses: whatever they are, the filter that the server
\* finds is the plain query that count() sends, for any query without $ keys.
LEMMA FilterKept ==
  ASSUME NEW query, NEW sort, NEW hint, NEW full, full = get_full_query(query, sort, hint), full.ok,
         ~ HasKey(make_bson(query), "$query"), ~ HasKey(make_bson(query), "$orderby"),
         ~ HasKey(make_bson(query), "$hint")
  PROVE  /\ FilterOf(full.v) = get_plain_query(query)
         /\ HasKey(full.v, "$orderby") <=> ~ Falsy(sort)
         /\ HasKey(full.v, "$hint") <=> ~ Falsy(hint)
<1> DEFINE q == make_bson(query)
           x == << "$query", q >>
           y == << "$orderby", get_ordering_dict(sort).v >>
           z == << "$hint", get_ordering_dict(hint).v >>
<1> HIDE DEF Falsy, get_ordering_dict, make_bson
<1>1. CASE Falsy(sort) /\ Falsy(hint)
  <2>1. full = Ok(q)
    BY <1>1 DEF get_full_query
  <2>2. full.v = q
    BY <2>1 DEF Ok
  <2>3. QED
    BY <1>1, <2>2 DEF FilterOf, get_plain_query
<1>2. CASE ~ (Falsy(sort) /\ Falsy(hint))
  <2>1. full = Ok(<< x >> \o (IF Falsy(sort) THEN << >> ELSE << y >>)
                         \o (IF Falsy(hint) THEN << >> ELSE << z >>))
    BY <1>2 DEF get_full_query
  <2>2. full.v = << x >> \o (IF Falsy(sort) THEN << >> ELSE << y >>)
                         \o (IF Falsy(hint) THEN << >> ELSE << z >>)
    BY <2>1 DEF Ok
  <2> DEFINE v == full.v
  <2>3. x[1] = "$query" /\ x[2] = q /\ y[1] = "$orderby" /\ z[1] = "$hint"
    OBVIOUS
  <2> HIDE DEF x, y, z, q, v
  <2>4. \/ ~ Falsy(sort) /\ Falsy(hint) /\ v = << x, y >>
        \/ Falsy(sort) /\ ~ Falsy(hint) /\ v = << x, z >>
        \/ ~ Falsy(sort) /\ ~ Falsy(hint) /\ v = << x, y, z >>
    <3>1. CASE ~ Falsy(sort) /\ Falsy(hint)
      <4>1. v = << x >> \o << y >> \o << >>
        BY <2>2, <3>1 DEF v
      <4>2. QED
        BY <3>1, <4>1, Joins
    <3>2. CASE Falsy(sort) /\ ~ Falsy(hint)
      <4>1. v = << x >> \o << >> \o << z >>
        BY <2>2, <3>2 DEF v
      <4>2. QED
        BY <3>2, <4>1, Joins
    <3>3. CASE ~ Falsy(sort) /\ ~ Falsy(hint)
      <4>1. v = << x >> \o << y >> \o << z >>
        BY <2>2, <3>3 DEF v
      <4>2. QED
        BY <3>3, <4>1, Joins, ZenonT(40)
    <3>4. QED
      BY <1>2, <3>1, <3>2, <3>3
  <2>5. /\ 1 \in DOMAIN v /\ v[1] = x
        /\ \A i \in DOMAIN v : i # 1 => v[i] \in {y, z}
        /\ (\E i \in DOMAIN v : v[i] = y) <=> ~ Falsy(sort)
        /\ (\E i \in DOMAIN v : v[i] = z) <=> ~ Falsy(hint)
    <3>1. CASE ~ Falsy(sort) /\ Falsy(hint) /\ v = << x, y >>
      BY <2>3, <3>1
    <3>2. CASE Falsy(sort) /\ ~ Falsy(hint) /\ v = << x, z >>
      BY <2>3, <3>2
    <3>3. CASE ~ Falsy(sort) /\ ~ Falsy(hint) /\ v = << x, y, z >>
      BY <2>3, <3>3
    <3>4. QED
      BY <2>4, <3>1, <3>2, <3>3
  <2>6. HasKey(v, "$query") /\ ValueOf(v, "$query") = q
    <3>1. \A i \in DOMAIN v : v[i][1] = "$query" <=> i = 1
      BY <2>3, <2>5
    <3>2. (CHOOSE i \in DOMAIN v : v[i][1] = "$query") = 1
      BY <2>5, <3>1
    <3>3. QED
      BY <2>3, <2>5, <3>1, <3>2 DEF HasKey, ValueOf
  <2>7. (HasKey(v, "$orderby") <=> ~ Falsy(sort)) /\ (HasKey(v, "$hint") <=> ~ Falsy(hint))
    <3>1. \A i \in DOMAIN v : (v[i][1] = "$orderby" <=> v[i] = y) /\ (v[i][1] = "$hint" <=> v[i] = z)
      BY <2>3, <2>5
    <3>2. QED
      BY <2>5, <3>1 DEF HasKey
  <2>8. QED
    BY <2>6, <2>7 DEF v, q, FilterOf, get_plain_query
<1>3. QED
  BY <1>1, <1>2

LEMMA QueryInv == ASSUME ArgInv PROVE CountsWhatItReads
<1> SUFFICES ASSUME answer # Pending, call.op = "query", answer.ok
             PROVE  /\ FilterOf(answer.v) = get_plain_query(call.query)
                    /\ HasKey(answer.v, "$orderby") <=> ~ Falsy(call.sort)
                    /\ HasKey(answer.v, "$hint") <=> ~ Falsy(call.hint)
  BY DEF CountsWhatItReads, Answered
<1>1. answer = get_full_query(call.query, call.sort, call.hint) /\ call.query \in Queries
  BY DEF ArgInv, Answer, Calls
<1>2. make_bson(call.query) \in {<< >>, << << "a", 1 >> >>}
  BY <1>1 DEF Queries, make_bson, None, Dict
<1>3. \A k \in {"$query", "$orderby", "$hint"} : ~ HasKey(make_bson(call.query), k)
  BY <1>2 DEF HasKey
<1>4. QED
  BY <1>1, <1>3, FilterKept

(***************************************************************************)
(* What monary.py makes of its arguments is what they say, whatever the     *)
(* limits of the C library are: the item of a column has the size that the  *)
(* loader writes, the columns are within the limits that the C side checks, *)
(* the query that counts selects what the query that reads selects, and the *)
(* bytes of an object id come back.                                         *)
(***************************************************************************)
THEOREM ArgumentsFaithfulAlways == ArgSpec => []ArgumentsFaithful
<1>1. ArgInv => ArgumentsFaithful
  BY ItemsFitInv, ColumnsInv, QueryInv, IdInv DEF ArgumentsFaithful
<1>2. QED
  BY <1>1, ArgInvariant, PTL
=============================================================================
