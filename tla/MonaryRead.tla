------------------------------ MODULE MonaryRead ------------------------------
(***************************************************************************)
(* One call of Monary.query, block_query, aggregate or block_aggregate,    *)
(* from its first line to the last finally block, over the cursor of       *)
(* MongocCursor and the arrays of ColumnData.  pc names the place in the   *)
(* Python method; "load" is the loop of monary_load_query, one action per  *)
(* iteration.  Between two steps other clients write, and the server may   *)
(* drop the cursor.                                                        *)
(***************************************************************************)
EXTENDS MongocCursor, ColumnData

CONSTANT Calls    \* the calls to explore: a subset of CallType

Methods == {"query", "block_query", "aggregate", "block_aggregate"}

\* limit and block_size are Python integers and may be negative.  bson: the
\* query as cmonary gets it, fine, mixing $-keys with others (the driver
\* refuses it), or raw bytes that are not BSON.  setup: the fields and types.
CallType ==
  [method: Methods, limit: Int, offset: 0..MaxSkip, block_size: Int,
   do_count: BOOLEAN, bson: {"ok", "mixed", "invalid"},
   setup: {"ok", "mismatch", "bad_type"}, connected: BOOLEAN]

\* A pipeline is encoded by Monary itself, so it is always BSON.
ASSUME CallsAssumption ==
  /\ Calls \subseteq CallType
  /\ \A c \in Calls : c.method \in {"aggregate", "block_aggregate"} => c.bson = "ok"

VARIABLES
  call,        \* the arguments
  pc,          \* where the method is
  exception,   \* the exception under way
  num_rows,    \* coldata->num_rows
  row,         \* the local row of monary_load_query
  arrays,      \* the NumPy arrays behind coldata->columns
  coldata,     \* the monary_column_data allocation
  collection,  \* the mongoc_collection_t allocation; "unbound": the local is
  overrun,     \* history: a loader wrote outside the arrays
  block,       \* history: the documents this monary_load_query has loaded
  delivered    \* history: the documents whose rows the caller has been given

callVars  == <<call, pc, exception, num_rows, row, arrays, coldata, collection,
               overrun, block, delivered>>
readVars  == <<callVars, cursorVars>>

IsBlock     == call.method \in {"block_query", "block_aggregate"}
IsAggregate == call.method \in {"aggregate", "block_aggregate"}
Final       == {"returned", "raised", "crashed"}

ReadInit ==
  /\ CursorInit
  /\ call \in Calls
  /\ pc = "size"
  /\ exception = "none"
  /\ num_rows = 0
  /\ row = 0
  /\ arrays = NewArrays(0)
  /\ coldata = "none"
  /\ collection = "unbound"
  /\ overrun = FALSE
  /\ block = << >>
  /\ delivered = << >>

-----------------------------------------------------------------------------
(* How many rows to allocate.                                              *)

Allocate(n) ==
  /\ num_rows' = n
  /\ pc' = "alloc"
  /\ UNCHANGED exception

Raise(e) ==
  /\ exception' = e
  /\ pc' = "raised"
  /\ UNCHANGED num_rows

\* Mutant: no limit is taken for a limit of 0.
ClippedAlways(count) == IF count > call.limit THEN call.limit ELSE count

\* if count > limit > 0: count = limit
ClippedCount(count) ==
  IF count > call.limit /\ call.limit > 0 THEN call.limit ELSE count

SizeByBlock == IsBlock /\ Allocate(IF call.block_size < 1 THEN 1 ELSE call.block_size)

SizeByLimit == ~IsBlock /\ ~call.do_count /\ call.limit > 0 /\ Allocate(call.limit)

\* Monary.count, or the nested aggregate with a $group stage: it has released
\* all it allocated when it returns, also when it fails.  The offset is not
\* taken into account.
SizeByCount ==
  /\ ~IsBlock
  /\ ~(~call.do_count /\ call.limit > 0)
  /\ \/ /\ call.connected
        /\ call.bson # "invalid"
        /\ IsAggregate => server.coll # << >>
        /\ Allocate(ClippedCount(Len(server.coll)))
     \/ /\ call.connected
        /\ Raise("RuntimeError")     \* -1, or no row with the count
     \/ /\ ~call.connected
        /\ Raise(IF IsAggregate THEN "UnboundLocalError" ELSE "ValueError")

Size ==
  /\ pc = "size"
  /\ SizeByBlock \/ SizeByLimit \/ SizeByCount
  /\ UNCHANGED <<call, row, arrays, coldata, collection, overrun, block,
                 delivered, cursorVars>>

-----------------------------------------------------------------------------
(* Setting up.                                                             *)

\* _make_column_data.  An exception after monary_alloc_column_data leaves the
\* caller's coldata None.
MakeColumnData ==
  /\ pc = "alloc"
  /\ \/ /\ call.setup = "ok"
        /\ coldata' = "live"
        /\ arrays' = NewArrays(num_rows)
        /\ pc' = "collection"
        /\ UNCHANGED exception
     \/ /\ call.setup # "ok"
        /\ coldata' = IF call.setup = "mismatch" THEN "none" ELSE "leaked"
        /\ exception' = "ValueError"
        /\ pc' = "raised"
        /\ UNCHANGED arrays
  /\ UNCHANGED <<call, num_rows, row, collection, overrun, block, delivered,
                 cursorVars>>

\* collection = self._get_collection(db, coll)
GetCollection ==
  /\ pc = "collection"
  /\ IF call.connected
     THEN /\ collection' = "live"
          /\ pc' = "init"
          /\ UNCHANGED exception
     ELSE /\ exception' = "ValueError"
          /\ pc' = "finally"
          /\ UNCHANGED collection
  /\ UNCHANGED <<call, num_rows, row, arrays, coldata, overrun, block,
                 delivered, cursorVars>>

\* monary_init_query or monary_init_aggregate; ctypes passes a Python int on
\* as a uint32_t.  NULL is returned for what is not BSON.
InitCursor ==
  /\ pc = "init"
  /\ \/ call.bson = "invalid" /\ UNCHANGED cursorVars
     \/ /\ call.bson # "invalid" /\ IsAggregate
        /\ \E iface \in {"cursorid", "array"} :
             CursorOpen(mongoc_collection_aggregate(iface))
     \/ /\ call.bson # "invalid" /\ ~IsAggregate
        /\ CursorOpen(mongoc_collection_find(
             call.limit % Word, call.offset, call.bson = "ok"))
  /\ pc' = "load"
  /\ UNCHANGED <<call, exception, num_rows, row, arrays, coldata, collection,
                 overrun, block, delivered>>

-----------------------------------------------------------------------------
(* monary_load_query.                                                      *)

\* Mutant: monary_load_query returns 0 for a NULL cursor.
LoadNothing ==
  /\ pc = "load"
  /\ handle = "unborn"
  /\ pc' = "finally"
  /\ UNCHANGED <<call, exception, num_rows, row, arrays, coldata, collection,
                 overrun, block, delivered, cursorVars>>

\* cursor->mcursor with a NULL cursor.
LoadNull ==
  /\ pc = "load"
  /\ handle = "unborn"
  /\ pc' = "crashed"
  /\ UNCHANGED <<call, exception, num_rows, row, arrays, coldata, collection,
                 overrun, block, delivered, cursorVars>>

LoadGuard ==
  /\ row < num_rows
  /\ ~mongoc_cursor_error(cursor)

LoadRow ==
  /\ pc = "load"
  /\ LoadGuard
  /\ \E b \in Doc :
       /\ CursorAdvance(b)
       /\ arrays' = bson_to_arrays(arrays, num_rows, row, b)
       /\ overrun' = (overrun \/ OutOfBounds(num_rows, row, b))
       /\ block' = Append(block, b)
  /\ row' = row + 1
  /\ UNCHANGED <<call, pc, exception, num_rows, coldata, collection, delivered>>

\* The value monary_load_query returns is used by the block methods only.
AfterLoad ==
  /\ pc' = IF IsBlock /\ row > 0 THEN "yield" ELSE "finally"
  /\ delivered' = delivered \o block
  /\ UNCHANGED <<call, exception, num_rows, row, arrays, coldata, collection,
                 overrun, block>>

\* Mutant: the cursor is advanced before the rows are counted.
LoadEndAdvancing ==
  /\ pc = "load"
  /\ handle = "live"
  /\ IF mongoc_cursor_error(cursor) THEN UNCHANGED cursorVars
     ELSE \E b \in Doc \cup {NoDoc} : (b = NoDoc \/ row = num_rows) /\ CursorAdvance(b)
  /\ AfterLoad

\* Mutant: the loop only ends when the arrays are full or the cursor failed.
LoadEndRetrying ==
  /\ pc = "load"
  /\ handle = "live"
  /\ \/ LoadGuard /\ CursorAdvance(NoDoc) /\ UNCHANGED callVars
     \/ ~LoadGuard /\ UNCHANGED cursorVars /\ AfterLoad

LoadEnd ==
  /\ pc = "load"
  /\ handle = "live"
  /\ IF LoadGuard THEN CursorAdvance(NoDoc) ELSE UNCHANGED cursorVars
  /\ AfterLoad

-----------------------------------------------------------------------------
(* The caller of a generator, and the way out.                             *)

\* Mutant: a short block is not taken for the last one.
ResumeAlways ==
  /\ pc = "yield"
  /\ pc' = "load" /\ row' = 0 /\ block' = << >>
  /\ UNCHANGED <<call, exception, num_rows, arrays, coldata, collection,
                 overrun, delivered, cursorVars>>

\* The caller asks for the next block: a short block was the last one.
Resume ==
  /\ pc = "yield"
  /\ IF row = num_rows
     THEN pc' = "load" /\ row' = 0 /\ block' = << >>
     ELSE pc' = "finally" /\ UNCHANGED <<row, block>>
  /\ UNCHANGED <<call, exception, num_rows, arrays, coldata, collection,
                 overrun, delivered, cursorVars>>

\* The caller closes or drops the generator instead.
CloseGenerator ==
  /\ pc = "yield"
  /\ exception' = "GeneratorExit"
  /\ pc' = "finally"
  /\ UNCHANGED <<call, num_rows, row, arrays, coldata, collection, overrun,
                 block, delivered, cursorVars>>

\* Mutant: the cursor is only closed when nothing went wrong.
CloseQueryOnSuccess ==
  IF handle = "live" /\ exception = "none" THEN CursorDestroy
  ELSE UNCHANGED cursorVars

\* monary_close_query, when there is a cursor to close.
CloseQuery ==
  IF handle = "live" THEN CursorDestroy ELSE UNCHANGED cursorVars

\* Both finally blocks.  Reading the unbound local collection replaces the
\* exception under way; the outer block frees coldata all the same.
Finally ==
  /\ pc = "finally"
  /\ CloseQuery
  /\ collection' = IF collection = "live" THEN "destroyed" ELSE collection
  /\ exception' = IF collection = "unbound" THEN "UnboundLocalError" ELSE exception
  /\ coldata' = "freed"
  /\ pc' = IF exception' = "none" THEN "returned" ELSE "raised"
  /\ UNCHANGED <<call, num_rows, row, arrays, overrun, block, delivered>>

-----------------------------------------------------------------------------

CallStep ==
  \/ Size
  \/ MakeColumnData
  \/ GetCollection
  \/ InitCursor
  \/ LoadNull
  \/ LoadRow
  \/ LoadEnd
  \/ Finally

CallerStep == Resume \/ CloseGenerator

ReadNext ==
  \/ CallStep
  \/ CallerStep
  \/ Environment /\ UNCHANGED callVars

\* The method runs on: no step of it waits for anything but a socket, and
\* those time out.  A caller goes on iterating or lets go of the generator,
\* which closes it.
ReadFairness == WF_readVars(CallStep) /\ WF_readVars(CallerStep)

ReadSpec == ReadInit /\ [][ReadNext]_readVars /\ ReadFairness

-----------------------------------------------------------------------------
(* Properties.                                                             *)

ReadTypeOK ==
  /\ CursorTypeOK
  /\ call \in Calls
  /\ pc \in {"size", "alloc", "collection", "init", "load", "yield", "finally"}
            \cup Final
  /\ exception \in {"none", "ValueError", "RuntimeError", "UnboundLocalError",
                    "GeneratorExit"}
  /\ num_rows \in Nat
  /\ row \in 0..num_rows
  /\ coldata \in {"none", "live", "leaked", "freed"}
  /\ collection \in {"unbound", "live", "destroyed"}
  /\ overrun \in BOOLEAN
  /\ block \in Seq(Doc) /\ Len(block) = row
  /\ delivered \in Seq(Doc)
  /\ pc \in {"load", "yield"} => WellFormed(arrays, num_rows)

\* The loader and the generator lose no document between them: every document
\* taken from the cursor is, in the same order, in a row the caller was given
\* or in the block being loaded.  A test of the cursor before the test of the
\* row count would drop one document per block.
NoDocumentLost ==
  returned = delivered \o (IF pc = "load" THEN block ELSE << >>)

\* Every loaded row represents its document, whatever the arrays held before:
\* masked exactly where the document has no value, and with the value
\* elsewhere.  Strings and binaries are exact in the arrays of query and
\* aggregate, which start out as zeros; in the reused arrays of the block
\* methods they are right up to their length.  Holds below 2 GiB: see NoOverrun.
RowsFaithful ==
  Addressable(num_rows) => \A r \in 0..(row - 1), c \in Columns :
    /\ Kind[c] = "fixed" => RowIs(arrays, c, r, block[r + 1])
    /\ Kind[c] = "bytes" =>
         IF IsBlock THEN RowStartsAs(arrays, c, r, block[r + 1])
         ELSE RowIs(arrays, c, r, block[r + 1])

\* Rows that were allocated for a count and not filled (documents deleted
\* after the count, skipped by the offset, or lost with a failed cursor) are
\* masked in every column.
UnfilledRowsMasked ==
  ~IsBlock => \A c \in Columns : \A r \in DOMAIN arrays.mask[c] :
                r >= row => Masked(arrays, c, r)

\* As long as every row of the strings and binaries starts below 2^31, no
\* loader writes outside the arrays: not the bson loader either, whose address
\* wraps around upwards, and although bson_to_arrays lets row = num_rows pass.
\* In a larger array the int of cmonary.c:426 and :455 is negative for the
\* rows from 2^31 on, and their strings are written before the array.
NoOverrun == Addressable(num_rows) => ~overrun

\* A call that is over has destroyed its cursor and collection and freed its
\* column data, on every path, but for the column data of a call whose field
\* names or types _make_column_data rejects halfway.
ReleasedWhenOver ==
  pc \in {"returned", "raised"} =>
    /\ handle # "live"
    /\ collection # "live"
    /\ coldata # "live"
    /\ coldata = "leaked" => call.setup = "bad_type"

\* A call that returns normally, with no cursor error and no writer around,
\* has given its caller exactly the documents the arguments select.
\* block_aggregate ignores its limit.
ResultExact ==
  ( /\ pc = "returned"
    /\ ~mongoc_cursor_error(cursor)
    /\ server.writes = 0
    /\ call.limit \in 0..(HalfWord - 1) )
  => delivered = Selected(server.coll,
                   IF call.method = "block_aggregate" THEN 0 ELSE call.limit,
                   IF IsAggregate THEN 0 ELSE call.offset)

\* Whatever writers do between the count and the find and between two batches,
\* no method that honours its limit gives more rows than it, over all blocks.
LimitHolds ==
  call.limit \in 1..(HalfWord - 1) /\ call.method # "block_aggregate"
    => Len(delivered) <= call.limit

\* The caller gets what it asked for, and never more than that.
ReturnsWhatWasAsked == ResultExact /\ LimitHolds

\* Whether more may come, as the caller sees it.
StreamStatus ==
  IF pc \in Final THEN "over"
  ELSE IF pc = "finally" \/ (pc = "yield" /\ row < num_rows) THEN "last"
  ELSE "open"

\* The abstract view: the rows of a call are a stream that is cut into full
\* portions and one last, shorter one.
Stream == INSTANCE RowStream WITH
  sent     <- server.handed,
  got      <- delivered,
  capacity <- num_rows,
  status   <- StreamStatus

\* What the caller may rely on: documents in the order the server sent them,
\* none skipped or repeated between two blocks, every block but the last full,
\* and nothing after a short block, an abandoned generator or the end.
RowStreamSpec == Stream!StreamSpec

\* A call on a closed connection, with bad fields or types, or with bytes that
\* are not BSON.
Wrong == ~call.connected \/ call.setup # "ok" \/ call.bson = "invalid"

\* Only the bytes are wrong, and no count is asked for that would refuse them.
GoesOnWithNull ==
  /\ call.connected /\ call.setup = "ok" /\ call.bson = "invalid"
  /\ IsBlock \/ (~call.do_count /\ call.limit > 0)

\* A wrong call gets nothing from the server and ends with an exception that
\* the method raised, whatever fails beside what is wrong with it, and whether
\* its arguments are looked at before or after the count.  The exception: one
\* that goes on with the NULL of monary_init_query crashes, always, and no
\* other call does.  (What a call leaves allocated: ReleasedWhenOver.)
WrongCallsFail ==
  /\ pc \in Final /\ Wrong =>
       /\ server.handed = << >> /\ delivered = << >>
       /\ IF GoesOnWithNull THEN pc = "crashed"
          ELSE pc = "raised" /\ exception \notin {"none", "GeneratorExit"}
  /\ pc = "crashed" => GoesOnWithNull

\* Every call comes to an end, whatever fails on the way: neither the load
\* loop nor the loop of a generator goes round for ever on a cursor that has
\* failed or has nothing more.
Terminates == <>(pc \in Final)

-----------------------------------------------------------------------------
(* What the documentation says and the code does not do.                   *)

\* Every row of a block of type bson starts at a multiple of type_arg.
DocumentRowsFaithful ==
  \A r \in 0..(row - 1), c \in Columns :
    Kind[c] = "document" => RowIs(arrays, c, r, block[r + 1])

\* A yielded block is a portion of the arrays that query would return.
BlocksExact ==
  pc = "yield" =>
    \A r \in 0..(row - 1), c \in Columns :
      Kind[c] = "bytes" => RowIs(arrays, c, r, block[r + 1])

\* A query that is not BSON is reported to the caller.
NoCrash == pc # "crashed"

\* A call on a closed connection says so.
NotConnectedReported ==
  pc = "raised" /\ ~call.connected /\ call.setup = "ok" => exception = "ValueError"
=============================================================================
