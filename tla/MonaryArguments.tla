---------------------------- MODULE MonaryArguments ----------------------------
(***************************************************************************)
(* What monary.py makes of its arguments before it calls the C library:     *)
(* type names, column lists, queries, pipelines and object ids.  Names and  *)
(* documents are small values; a dictionary is a sequence of pairs.         *)
(***************************************************************************)
EXTENDS Integers, Sequences, FiniteSets

CONSTANTS
  MaxColumns,       \* MAX_COLUMNS and MONARY_MAX_NUM_COLUMNS, scaled down
  MaxStringLength   \* MAX_STRING_LENGTH and MONARY_MAX_STRING_LENGTH

ASSUME ArgumentsAssumption == MaxColumns \in Nat /\ MaxStringLength \in Nat

Error(why) == [ok |-> FALSE, why |-> why]
Ok(v) == [ok |-> TRUE, v |-> v]
Pending == Error("pending")

-----------------------------------------------------------------------------
(* Type names.                                                             *)

\* MONARY_TYPES: the type code of cmonary and the item size of the NumPy type;
\* 0 is a size that the type argument gives.
MONARY_TYPES ==
  [id        |-> <<1, 12>>, bool      |-> <<2, 1>>,  int8     |-> <<3, 1>>,
   int16     |-> <<4, 2>>,  int32     |-> <<5, 4>>,  int64    |-> <<6, 8>>,
   uint8     |-> <<7, 1>>,  uint16    |-> <<8, 2>>,  uint32   |-> <<9, 4>>,
   uint64    |-> <<10, 8>>, float32   |-> <<11, 4>>, float64  |-> <<12, 8>>,
   date      |-> <<13, 8>>, timestamp |-> <<14, 8>>, string   |-> <<15, 0>>,
   binary    |-> <<16, 0>>, bson      |-> <<17, 0>>, type     |-> <<18, 1>>,
   size      |-> <<19, 4>>, length    |-> <<20, 4>>]

Sized == {"string", "binary", "bson"}

\* get_monary_numpy_type: the argument is absent, one integer, or malformed.
get_monary_numpy_type(name, arg) ==
  IF arg.kind = "two colons" THEN Error("too many parts")
  ELSE IF arg.kind = "not a number" THEN Error("unable to parse")
  ELSE LET type_arg == IF arg.kind = "none" THEN 0 ELSE arg.n
       IN  IF name \notin DOMAIN MONARY_TYPES THEN Error("unknown typename")
           ELSE IF name \in Sized /\ type_arg = 0 THEN Error("no length")
           ELSE Ok([num |-> MONARY_TYPES[name][1], arg |-> type_arg,
                    itemsize |-> IF name \in Sized THEN type_arg
                                 ELSE MONARY_TYPES[name][2]])

\* numpy.zeros of a type of negative size raises TypeError (external).
NumpyAccepts(itemsize) == itemsize >= 0

\* The bytes that the loader of a cmonary type writes for one row at most.
LoaderSize(num, arg) ==
  CASE num = 1 -> 12
    [] num \in {2, 3, 7, 18} -> 1
    [] num \in {4, 8} -> 2
    [] num \in {5, 9, 11, 19, 20} -> 4
    [] num \in {6, 10, 12, 13, 14} -> 8
    [] num \in {15, 16, 17} -> arg

-----------------------------------------------------------------------------
(* _make_column_data and the checks that the C side repeats.                *)

alloc_column_data(n) == IF n > MaxColumns THEN Error("NULL") ELSE Ok(n)

set_column_item(ncols, colnum, fieldlen, num) ==
  /\ colnum < ncols
  /\ num # 0
  /\ num <= 20
  /\ fieldlen <= MaxStringLength

\* fields[i] is the length of a name, types[i] a type number.
make_column_data(fields, types) ==
  IF Len(fields) # Len(types) THEN Error("do not match")
  ELSE IF Len(fields) > MaxColumns THEN Error("exceeds maximum")
  ELSE IF \E i \in DOMAIN fields : fields[i] > MaxStringLength THEN Error("too long")
  ELSE Ok([i \in DOMAIN fields |-> types[i]])

-----------------------------------------------------------------------------
(* Queries and pipelines.                                                  *)

None == <<"None">>
Dict(pairs) == <<"dict", pairs>>
List(l) == <<"list", l>>
Str(s) == <<"str", s>>

Falsy(x) == x = None \/ x = Str("") \/ x = List(<<>>) \/ x = Dict(<<>>)

\* OrderedDict(list of pairs): a repeated key keeps its first place and gets
\* its last value.
FromPairs(l) ==
  LET firsts == {i \in DOMAIN l : \A j \in 1..(i - 1) : l[j][1] # l[i][1]}
      last(k) == CHOOSE i \in DOMAIN l : /\ l[i][1] = k
                                         /\ \A j \in DOMAIN l : j > i => l[j][1] # k
      nth(n) == CHOOSE i \in firsts : Cardinality({j \in firsts : j <= i}) = n
  IN  [n \in 1..Cardinality(firsts) |-> <<l[nth(n)][1], l[last(l[nth(n)][1])][2]>>]

get_ordering_dict(obj) ==
  CASE obj = None -> Ok(<<>>)
    [] obj[1] = "str" -> Ok(<<<<obj[2], 1>>>>)
    [] obj[1] = "list" -> Ok(FromPairs(obj[2]))
    [] obj[1] \notin {"None", "str", "list"} -> Error("invalid ordering")

make_bson(obj) == IF obj = None THEN <<>> ELSE obj[2]
get_plain_query(query) == make_bson(query)

\* Mutant: the clauses are added to the query without a $query around it.
Unwrapped(query, sort, hint) ==
  LET q == make_bson(query)
      o == get_ordering_dict(sort)
  IN  IF Falsy(sort) /\ Falsy(hint) THEN Ok(q)
      ELSE IF ~Falsy(sort) /\ ~o.ok THEN o
      ELSE Ok(IF Falsy(sort) THEN q ELSE Append(q, <<"$orderby", o.v>>))

\* get_full_query
get_full_query(query, sort, hint) ==
  LET q == make_bson(query)
      o == get_ordering_dict(sort)
      h == get_ordering_dict(hint)
  IN  IF Falsy(sort) /\ Falsy(hint) THEN Ok(q)
      ELSE IF ~Falsy(sort) /\ ~o.ok THEN o
      ELSE IF ~Falsy(hint) /\ ~h.ok THEN h
      ELSE Ok(<<<<"$query", q>>>>
                \o (IF Falsy(sort) THEN <<>> ELSE <<<<"$orderby", o.v>>>>)
                \o (IF Falsy(hint) THEN <<>> ELSE <<<<"$hint", h.v>>>>))

HasKey(pairs, k) == \E i \in DOMAIN pairs : pairs[i][1] = k
ValueOf(pairs, k) == pairs[CHOOSE i \in DOMAIN pairs : pairs[i][1] = k][2]

\* get_pipeline
get_pipeline(p) ==
  CASE p[1] = "list" -> Ok(<<<<"pipeline", p[2]>>>>)
    [] p[1] = "dict" /\ HasKey(p[2], "pipeline") -> Ok(p[2])
    [] p[1] = "dict" /\ ~HasKey(p[2], "pipeline") -> Ok(<<<<"pipeline", <<p[2]>>>>>>)
    [] p[1] \notin {"list", "dict"} -> Error("Pipeline must be a dict or a list")

-----------------------------------------------------------------------------
(* mvoid_to_bson_id: NumPy prints the bytes of a void item as signed        *)
(* numbers in brackets; & 0xff makes them bytes again.  Eight values stand   *)
(* for the 256 of a byte.                                                   *)

AsSigned(b) == IF b < 4 THEN b ELSE b - 8

mvoid_to_bson_id(printed) == [i \in DOMAIN printed |-> printed[i] % 8]

-----------------------------------------------------------------------------
(* What the server does with a query: a first key $query wraps the filter,  *)
(* anything else is the filter itself (external).                           *)

FilterOf(q) == IF HasKey(q, "$query") THEN ValueOf(q, "$query") ELSE q

VARIABLES call, answer

argVars == <<call, answer>>

Field == {"a", "b"}
Pairs == {<<f, d>> : f \in Field, d \in {1, -1}}
Orders == {None, Str("a"), Str(""), Dict(<<<<"a", 1>>>>)}
            \cup {List(l) : l \in UNION {[1..n -> Pairs] : n \in 0..2}}
Queries == {None, Dict(<<>>), Dict(<<<<"a", 1>>>>)}
Args == [kind: {"none", "two colons", "not a number"}] \cup [kind: {"number"}, n: -1..3]

Calls ==
  [op: {"type"}, name: DOMAIN MONARY_TYPES \cup {"unknown"}, arg: Args]
  \cup [op: {"columns"}, fields: UNION {[1..n -> {0, MaxStringLength, MaxStringLength + 1}] :
                                          n \in 0..(MaxColumns + 1)},
        types: UNION {[1..n -> {5, 20}] : n \in 0..(MaxColumns + 1)}]
  \cup [op: {"query"}, query: Queries, sort: Orders, hint: Orders]
  \cup [op: {"pipeline"}, p: {None, List(<<1, 2>>), Dict(<<<<"$match", 1>>>>),
                              Dict(<<<<"pipeline", <<1>>>>>>)}]
  \cup [op: {"id"}, bytes: [1..2 -> 0..7]]

ArgInit == call \in Calls /\ answer = Pending

Answer ==
  CASE call.op = "type" -> get_monary_numpy_type(call.name, call.arg)
    [] call.op = "columns" -> make_column_data(call.fields, call.types)
    [] call.op = "query" -> get_full_query(call.query, call.sort, call.hint)
    [] call.op = "pipeline" -> get_pipeline(call.p)
    [] call.op = "id" -> Ok(mvoid_to_bson_id([i \in DOMAIN call.bytes |-> AsSigned(call.bytes[i])]))

Reply == answer = Pending /\ answer' = Answer /\ UNCHANGED call

ArgSpec == ArgInit /\ [][Reply]_argVars

Answered(op) == answer # Pending /\ call.op = op

\* The two sides of the C boundary agree: the NumPy item of an accepted type
\* is as large as what the loader of its type number writes, and the loader
\* exists (monary.py:97-119 against cmonary.c:21-43 and the loaders).
ItemsFit ==
  Answered("type") /\ answer.ok /\ NumpyAccepts(answer.v.itemsize) =>
    /\ answer.v.num \in 1..20
    /\ answer.v.itemsize > 0
    /\ answer.v.itemsize = LoaderSize(answer.v.num, answer.v.arg)

\* Python ignores what monary_set_column_item returns, so what it lets through
\* must be what the C side accepts (monary.py:355-380).
ColumnsAccepted ==
  Answered("columns") /\ answer.ok =>
    /\ alloc_column_data(Len(call.fields)).ok
    /\ \A i \in DOMAIN call.fields :
         set_column_item(Len(call.fields), i - 1, call.fields[i], call.types[i])

\* count() and the cursor select the same documents: the plain query that
\* sizes the arrays is the filter of the full query that fills them, whatever
\* sort and hint are (monary.py:446-455).
CountsWhatItReads ==
  Answered("query") /\ answer.ok =>
    /\ FilterOf(answer.v) = get_plain_query(call.query)
    /\ HasKey(answer.v, "$orderby") <=> ~Falsy(call.sort)
    /\ HasKey(answer.v, "$hint") <=> ~Falsy(call.hint)

\* The object id that Python makes of a NumPy item has the bytes of the item.
IdBytesKept ==
  Answered("id") => answer.v = call.bytes

\* What the C library is given is what the arguments say: items and columns
\* within its limits, a count of the documents that will be read, and the
\* bytes of an id.
ArgumentsFaithful == ItemsFit /\ ColumnsAccepted /\ CountsWhatItReads /\ IdBytesKept
=============================================================================
