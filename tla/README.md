# Monary in TLA+

Monary reads the results of MongoDB queries straight into NumPy arrays. This directory
holds TLA+ specifications of its own code (`src/monary/`) and of the vendored C driver and
libbson it is built with (`src/mongodb-mongo-c-driver-1.0.0/`): the TLC runs that check them on
small instances, and TLAPS proofs of what holds for every instance.

    tlc -workers 2 -config MCMonaryRead.cfg MCMonaryRead
    tlapm MonaryProofs.tla

`PROJECT.json` lists the components, the runs, the source lines behind every definition,
the hazards the properties are aimed at, the disagreements between code and documentation,
and the theorems.

## Inventory

| Part | State it keeps | Operations | Talks to |
|---|---|---|---|
| `Monary` object (`monary.py`) | `_connection` | `__init__`, `connect`, `close`, `__enter__`/`__exit__`, `__del__` | `monary_connect`, `monary_disconnect` (ctypes) |
| Reading methods (`monary.py`) | the locals `coldata`, `colarrays`, `collection`, `cursor`; the block methods keep them in a generator frame while they are suspended | `query`, `block_query`, `aggregate`, `block_aggregate`, `count` | cmonary; their caller, through `yield` |
| Arguments and types (`monary.py`) | none | `get_monary_numpy_type`, `make_bson`, `get_full_query`, `get_plain_query`, `get_pipeline` | PyMongo's BSON encoder |
| Column data (`cmonary.c`) | `monary_column_data`: number of rows, and per column the field, the type, and pointers to storage and mask owned by NumPy | `monary_alloc_column_data`, `monary_set_column_item`, `monary_free_column_data` | NumPy memory |
| Loaders (`cmonary.c`) | none | `monary_bson_to_arrays`, `monary_load_item` and one loader per type | libbson iterators, column data |
| Queries (`cmonary.c`) | `monary_cursor`: driver cursor and column data | `monary_init_query`, `monary_init_aggregate`, `monary_load_query`, `monary_close_query`, `monary_query_count` | driver |
| Driver cursor (libmongoc 1.0.0) | `mongoc_cursor_t`: flags, counters, the buffered reply; `iface_data` of command and array cursors | `mongoc_collection_find`, `mongoc_collection_aggregate`, `mongoc_cursor_next`, `mongoc_cursor_error`, `mongoc_cursor_destroy` | server: QUERY, GET_MORE, KILL_CURSORS |
| Date helpers (`datehelper.py`) | none | four conversions | |
| Ordered dictionary (`ordereddict.py`) | a dict, a map of links, a circular list | set, delete, pop, clear, copy, iterate | the sort and hint clauses |
| Cluster (`mongoc-cluster.c`) | per node: stream, role, ping times, stamp, need for authentication; the health of the whole | select, reconnect (three modes), isMaster, ping, `sendv`, `try_sendv`, `try_recv`, `preselect` | client; streams; read preferences |
| Authentication (`mongoc-cluster.c`, `mongoc-sasl.c`) | what the server granted, what the node records | challenge and response, X.509, PLAIN, GSSAPI | cluster |
| Streams and buffers (`mongoc-stream-*.c`, `mongoc-buffer.c`) | two buffers on a connection, a deadline | `append_from_stream`, `fill`, `readv` | socket, file, OpenSSL |
| Sockets (`mongoc-socket.c`) | descriptor, `errno` | connect, `sendv`, close, destroy | kernel |
| Client pool (`mongoc-client-pool.c`) | queue of idle clients, number created, mutex, condition | pop, `try_pop`, push, `set_ssl_opts`, destroy | threads |
| BSON (`bson.c`, `bson-iter.c`) | a buffer that is inline, owned or lent, shared by nested documents | append, begin and end, iterate, find, visit, validate, copy, print | everybody |
| BSON reader and writer | a buffer that moves and doubles; one that the caller lent | read; begin, end, rollback | read and realloc functions |
| Bulk writes (`mongoc-bulk-operation.c`, `mongoc-write-command.c`) | commands, result | insert, update, replace, remove, execute | client; server |
| GridFS (`mongoc-gridfs*.c`) | position, one page, one cursor; chunks and files collections | create, find, read, write, seek, save, remove | collections |
| Matcher (`mongoc-matcher*.c`) | a tree of operations | parse, match, print | |

What is hard, and therefore what the properties are about:

- **Two places decide when a result is over.** The cursor ends at an empty reply, a limit,
  an error or an exhausted first batch; the loader ends at a full array; the generator
  ends at a short block. A mistake at a seam loses or repeats documents, and only when
  the size of the result meets the size of a batch or of a block.
- **The arrays are raw memory.** A loader computes addresses from a row number and a size;
  the block methods reuse the arrays of the previous block.
- **Others act in between.** Other clients write between the count and the find and between
  two batches; the server drops idle cursors while the caller works on a block; replies
  are lost; `KILL_CURSORS` is never acknowledged.
- **Lifetimes cross.** A suspended generator keeps a collection and a cursor that point to a
  client its `Monary` object may destroy; every way out has to pass two `finally` blocks.

- **Bytes come in pieces.** Replies, files and writes are cut anywhere; what is read too much waits
  in buffers that are moved and grown; the same ends (end of stream, error, timeout) look alike.
- **Retries meet old state.** A node that is connected again may still carry the role it had; a reply that is
  lost leaves driver and server with different opinions; a batch of writes fails half way.
- **Threads share a pool.** More threads than clients, one condition variable, and early returns.
- **Lengths are trusted.** An iterator computes offsets from lengths inside the document it is reading.

What makes each part correct:

- cursor: what it returns is what the server sent, once and in order; it respects its limit,
  ends only when everything selected was returned or with an error, stays at its end, and
  leaves no cursor on the server;
- column data and loaders: writes stay inside the arrays, a row holds its own document, masks tell
  present from absent values, a number is stored as it is or by C's rules;
- reading: the caller gets what the arguments select, in full blocks and one last shorter
  one; nothing stays allocated; every call ends; a call that went wrong does not look like a
  success;
- session: a client is destroyed exactly once, and never by garbage collection under a
  generator;
- arguments, dates, ordered dictionary: nothing of what the caller says changes on the way;
- cluster and authentication: a request goes to a connected, authenticated node of the right role, or fails
  after a bounded number of retries;
- streams and sockets: bytes in order, none twice, and a descriptor is closed once, by its owner;
- pool: a client has one user at a time, nobody waits for ever, and all clients have the options that were set;
- BSON: what is written is read again; damage does not lead outside of the document; buffers hold what is
  appended;
- bulk writes: each operation once and in order, and no success when something failed;
- GridFS: reads see what was written, a save that succeeds has stored the file;
- matcher: the tree matches what the query says.

## Modules

| Module | Models | Composes |
|---|---|---|
| `Documents` | the documents, and NULL | |
| `MongocCursor` | `mongoc-cursor.c`, `mongoc-cursor-cursorid.c`, `mongoc-cursor-array.c`, and of `mongoc-collection.c` find and aggregate; server and other clients as environment | `Documents` |
| `ColumnData` | `monary_column_data`, the loaders' addresses and lengths, the masks; constant-level operators only | `Documents` |
| `MonaryRead` | one call of a reading method, with the C functions it calls | `MongocCursor`, `ColumnData` |
| `RowStream` | the abstract promise of a reading method to its caller | implemented by `MonaryRead` |
| `MonarySession` | the `Monary` object, its clients and its generators | |
| `DateHelper` | `datehelper.py` | |
| `MonaryLoaders` | the loaders' conversions and address arithmetic, at an eighth of the widths | |
| `MonaryArguments` | types, columns, queries, pipelines, object ids of `monary.py` | |
| `OrderedDict`, `OrderedItems` | `ordereddict.py`, and the abstract promise it implements | `OrderedItems` |
| `ClusterSelect` | `_mongoc_cluster_select`, `mongoc-read-prefs.c` | |
| `MongocCluster` | the rest of `mongoc-cluster.c` | `ClusterSelect` |
| `ClusterAuth` | authentication of a node | |
| `StreamRead` | `mongoc-buffer.c`, the buffered stream, reads of socket, file and TLS streams | |
| `SocketSend` | `mongoc_socket_sendv` | |
| `SocketLifetime` | making, closing and destroying streams; the kernel's table of descriptors | |
| `ClientPool` | `mongoc-client-pool.c` with its threads | |
| `BsonFormat` | what `bson.c` writes and `bson-iter.c` reads, cell by cell | |
| `BsonBuilder` | the buffers of `bson.c` | |
| `BsonReader`, `BsonWriter` | `bson-reader.c`, `bson-writer.c` | |
| `BulkWrite` | `mongoc-bulk-operation.c`, `mongoc-write-command.c`, legacy writes and getlasterror | |
| `GridfsFile` | `mongoc-gridfs.c`, `-file.c`, `-file-page.c` and the two collections | |
| `MongocMatcher` | `mongoc-matcher.c`, `mongoc-matcher-op.c` | |
| `MCMongocCursor`, `MCMonaryRead`, `MCClusterSelect`, `MCMongocCluster`, `MCBsonFormat`, `MCMongocMatcher` | instances for TLC | |
| `MCMonary`, `MCNetwork`, `MCData`, `MCEndings` | several parts in one run | |
| `Sums`, `PowersOfTwo` | sums of the numbers of a sequence, and the power of two above a number; constant-level | used by the buffers, `SocketSend`, `BsonReader`, `BsonWriter` |
| `MongocCursorProofs`, `MonaryReadProofs`, `MonaryProofs` | theorems about reading; about sessions, dates, the dictionary, loaders and arguments | `MonaryReadProofs` uses the first |
| `MongocClusterProofs`, `NetworkProofs`, `StreamProofs`, `DataProofs` | theorems about the driver | |
| `SumProofs` | lemmas on sums and least numbers | used by `MonaryProofs`, `NetworkProofs`, `StreamProofs` |

The modules `MonaryRead` and `MongocCluster` compose parts that call one another. `MCMonary`, `MCNetwork`, `MCData`
and `MCEndings` only put parts side by side that share no state: a variable `part` says
which one a behaviour is about, and the others stay in one state. A step of another
part would change nothing that a property of this one looks at, so that the product
would be larger and not stronger.

Definitions that begin with "Mutant:" in their comment are broken variants of the definition
after them. No specification uses them; each shows that some property can fail.

### MongocCursor

`cursor` is the `mongoc_cursor_t`; the fields keep their names. The buffered reply is
`docs` (what `bson_reader_read` has still to return) and `corrupt` (garbage follows); `first_batch`
is the array inside the reply of an aggregate command that `iface_data` iterates over. `reader`
is NULL exactly while `sent` is false. A call of `mongoc_cursor_next` is one step: the process
is blocked in the RPC, so everybody else acts between two calls. Inside, `cursor_query` and
`cursor_get_more` give the set of results the RPC can have: a failed warm-up, a failed
send or receive (with or without the server having acted on the request), an error reply, or
a batch of any size the server may choose, after which its cursor may stay open or not.
`server` (external) holds the matching documents, those its cursor has still to send
(`pending`) and, as history, those that reached the client (`handed`).

Counters are `uint32_t` that wrap at `2 * HalfWord`. `_mongoc_n_return` casts the
unsigned `limit - count` to `int32_t`, so a limit of `HalfWord` or more (a negative Python
limit, too) is sent as a negative number, which asks for a single batch. `count` is
incremented by every call, also by those that return false.

`server` also knows the deployment: one server, a replica set or several routers, whether the client allows reads from
secondaries, and `host`, the node that answered the query and has its cursor. `select_hosts` gives the nodes that
`_mongoc_cluster_select` may pick for a request without a hint. `KILL_CURSORS` is such a request (`mongoc-cursor.c:340`
passes neither the cursor's hint nor its read preferences), so that it may reach a node that does not have the
cursor and ignores it; `ServerCursorReleased` names this as `KillMayMiss`.

Left out because Monary never asks for them: exhaust and tailable cursors, `mongoc_cursor_clone`,
`mongoc_cursor_more`.

### ColumnData

The storage of a column is a function from byte addresses to bytes, the mask one from rows
to booleans. `Kind` says how a loader finds the place of a row: `fixed` (numbers, dates, ids,
types, sizes: as wide as the item), `bytes` (string, binary: cut to the item, written at
`row * type_arg`), `document` (bson: cut to the item, written at `row * document_len`, as the code
has it). The products are a C `int` for `bytes` and a `uint32_t` for `document`; they wrap at `2 * HalfInt`, and
`Addressable` says that the array is small enough (2 GiB) for an `int` to name the start of each row. `Value[d][c]` is what looking up the field of column `c` and testing its BSON type
gives for document `d`: bytes, or nothing. `bson_to_arrays` is `monary_bson_to_arrays` with its
row check as written (`row > num_rows`).

### MonaryRead

`pc` follows the Python method: `size` (how many rows: block size, limit, or the count RPC or
nested aggregation), `alloc` (`_make_column_data`), `collection`, `init`
(`monary_init_query`/`_aggregate`), `load` (the loop of `monary_load_query`, one action per
document), `yield`, `finally` (both blocks), and the three ends `returned`, `raised`, `crashed`. The
local `collection` starts out unbound, because the code assigns it inside the `try`. `block` and
`delivered` are history: the documents in the current arrays, and those whose rows the caller
has been given.

`RowStream` is the abstract view: `sent`, `got`, a `capacity`, and a `status`. `RowStreamSpec`
maps `sent` to `server.handed`, `got` to `delivered`, `capacity` to `num_rows` and `status` to the
place in the method.

### MonarySession

One `Monary` object, several clients (one per `mongoc_client_new`) and generators. A generator
that is not finished refers to the object, so `__del__` waits for it; `close` and `connect` do not. A
destroyed cursor uses its client only if its cursor id is not 0. One thread: the code has no locks
and promises nothing to several.

### DateHelper

A datetime is its distance from 1970 as a normalised `timedelta`. `PY3` chooses between the two
meanings of `/`; the float is represented exactly, as milliseconds and thousandths.

### MonaryLoaders and MonaryArguments

An item is a BSON value (its type, its number or text) and a column type; `load_*` says what the C function of that
name stores, or that it masks. Integers wrap at `2^Bits`, floats keep `Mantissa` digits, `offset` is the product
of row and size in an `int` of `AddressBits`. In `MonaryArguments` a dictionary is a sequence of pairs and a type
name the pair of a name and an argument; each Python function is an operator that answers a value or the exception.

### OrderedDict

A link is named by its key, `prev` and `next` are its first two elements; `OrderedItems` is a sequence of pairs, and
the refinement walks the ring from the sentinel.

### MongocCluster, ClusterSelect and ClusterAuth

A cluster is a record of its mode, nodes and health. A function that talks to servers gives the set of its outcomes:
each host refuses, does not answer, answers as primary, secondary, member of another set, router, or wants a login.
Reconnection takes one step per host, since one host may fail after another was connected. A node that was closed for a
reconnection keeps its primary flag, and `ClusterSelect` chooses among such nodes too. In `ClusterAuth` a digest
is the record of what it is computed from, and every reply may be lost after the server has acted on the request.

### StreamRead, SocketSend and SocketLifetime

The bytes of the peer are 1, 2, 3, ..., so that order, loss and repetition show. Every system call is a step; the
peer, the clock and other threads move in between. The kernel hands out the lowest free descriptor, so that a number
that was closed soon names something else. OpenSSL is external.

### ClientPool

One step per section between two operations on the mutex or the condition variable; a thread that was signalled
competes for the mutex with newcomers.

### BsonFormat, BsonBuilder, BsonReader and BsonWriter

A cell of `BsonFormat` is a byte or a 4-byte word of `WordSize` values. A document is built from up to two fields of every type, or by copying
and concatenating others; one of its cells may then be overwritten, and an iterator goes over the result, with its
overwriting functions, the visitors and the printing of JSON on top of it. JSON shows the number of an int32 and of an
int64 and not which of the two it was, as the code does. Printing does not return (`JsonReturns`) when the text of
code has a byte that begins no UTF-8 sequence, because nobody validates it and `bson_utf8_next_char` then stays where it
is. The length of the text of code with scope is the stored one less 1; when 0 is stored the difference wraps, and the text
does not end inside the document (`code_length`). `BsonBuilder` has only sizes: the path of open
documents in one buffer, and where that is. `BsonReader` reads a file of documents through a buffer whose bytes
are positions in the file; `BsonWriter` puts documents behind each other.

### BulkWrite

An operation is named for what the server makes of it (inserted, duplicate, matches two, fails); a "large" insert has a
document longer than any message, the others are as long as each other. `DocRooms` and `Rooms` are how many of those
fit in `max_bson_size` and in a message. A write command takes all documents of an insert at once when their sum is small
(`AtOnce`). Otherwise it stops after `MAX_INSERT_BATCH` documents, or before one that would not fit in an empty
message: the length it compares with does not grow while the array is open (`mongoc-write-command.c:629`). A command
that has become longer than a message is then not sent (`OutcomesOf`). The legacy insert adds the lengths up. Each message
is answered, refused, lost before it is sent or lost after it took effect. `sent` is what the client tried, in order,
`applied` and `refused` are the truth, `result` what the reply says.

### GridfsFile

The page is a chunk's data with an offset and a flag for its own buffer; `chunks` and `files` are the collections. The
history `content` is the file as its writer means it, and `odd` names slips of the code after which the two may
differ; properties speak of behaviours without a slip, and the slips are listed below.

### MongocMatcher

Trees as records. Queries and documents are small families that include nesting, arrays, dotted paths, three
clauses and mistakes. The matcher is compared with `Means`, a reading of the query that uses none of the matcher's
own comparisons: an operand is asked of the value at a path, `$ne` and `$nin` are also true of a field that is not there, and
a type has its own equality and order. Where the code is known to answer otherwise, an operator of its own
(`Asked`, `Operands`, `NoCase`, `Absent`, `Nor`) names the case.

## Runs

| Run | Shows | Distinct states |
|---|---|---|
| `cursor` | Nothing lost, repeated or reordered; limit; end; release of the server cursor, in each deployment; nothing after the end | 2,783,802 |
| `read` | The four methods: documents, rows, masks, array bounds, release, exact results, limits, and that they implement `RowStream` | 308,497 |
| `monary` | Clients and generators, dates, every loader, `OrderedDict`, arguments | 216,118 |
| `network` | Choice of a node, authentication, reading, sending, descriptors | 3,736,177 |
| `data` | BSON, builder, writer, matcher, bulk writes, GridFS | 1,340,706 |
| `endings` | Calls, threads and requests end; wrong calls fail, pool, cluster and reader are safe on the way | 71,947 |

Many properties are conjunctions of named parts, each with its own comment: `ReturnsWhatWasAsked` (`ResultExact`,
`LimitHolds`), `GeneratorsKeepClients` (`OnlyExplicitlyLeft`, `MisuseIsExplicit`), `DatesConverted`, `ItemExact`,
`ArgumentsFaithful`, `RingIsOrdered` (both directions of the ring, and the refinement of `OrderedItems`), `ChosenWell`,
`AuthenticationAgrees`, `BytesInOrder`, `SentAsCounted`, `DescriptorsOwned`, `ReadsWhatWasWritten`, `DamageContained`,
`BufferHolds`, `WrittenPacked`, `MatcherFaithful`, `SentOnceInOrder`, `OutcomeHonest`, `PageFaithful`, `StoredSafely`,
`ClientsShared`, `ConnectionsUsable`, `ReaderFaithful` and `EveryCallReturns` (of the cluster, GridFS, streams and
the reader).

Six runs end in a violation. Each states what a comment or a docstring of the repository says, and
TLC finds what the code does instead:

- `bson_column`: "each record is type_arg bytes" (`cmonary.c:39`), but `monary_load_document_value`
  multiplies the row by the length of the document. Two short documents are enough.
- `blocks_exact`: blocks are "portions of each array" (`monary.py:503`), but in the second block a short
  string keeps the tail of a long one in the first, as arrays are reused and not cleared.
- `null_cursor`: NULL is returned for an invalid query (`cmonary.c:752`), but the caller dereferences it.
- `not_connected`: "not connected" (`monary.py:396`) is replaced by an `UnboundLocalError` of the
  `finally` block.
- `client_lifetime`: the client must outlive the cursor (`mongoc-collection.c:394`), but `close` and
  `connect` do not know of suspended generators.
- `integer_dates`: `:rtype: int` (`datehelper.py:22`), but Python 3 divides to a float.

### Bounds, and why they are enough

- `MaxDocs` 4 in `cursor`: a first batch, a GET_MORE and a last one, with limits below, at and above
  the number of documents. In `read` 3 documents and blocks of 1 and 2 rows make results that fill
  their last block and results that do not; one writer before, between or after.
- `HalfWord` 4 stands for 2^31: limits 1 to 3 are ordinary, 4 to 7 turn negative, and `count` wraps
  within a run because it goes on after the end.
- `Hosts` 2 in `cursor`: the primary and one other node, in a replica set, with and without reads from secondaries, and as two
  routers. One is enough where the cursor is only called (`read`).
- `HalfInt` 6: the product of a row and an item of two bytes wraps in the fourth row of an array, which `read` reaches when
  a document is inserted; smaller arrays are addressable.
- `MaxSkip` 1, `MaxWrites` 1: one skipped document and one insert or delete at any moment.
- Two kinds of documents: one whose string and subdocument are longer than the two-byte item, and one
  whose are shorter and that has no number; three columns, one of each kind.
- `Client` 3, `Gen` 2: two reconnections, and two generators on different clients.
- `Span`, `Stride`: 172,800,500 ms and 86,399 ms, so that the dates fall on all sides of second, day and
  epoch boundaries.
- Loaders: every value of the scaled widths; `AddressBits` 8 makes the product wrap within the array sizes tried.
- `Key` 4: a link with a neighbour on each side that is not the sentinel.
- `MaxNodes` 3 in `network` (a primary and two secondaries at three distances, each of them connected or lost); 2 in `endings`, with one
  retry (`MaxRetry`), enough for a node that is connected while another is refused.
- `Total` 3 bytes against buffers of 2 and reads of 1 to 3: a reply longer than the buffer, which must be moved.
- `MaxBuffers` 3 of up to 2 bytes: the kernel's cut falls in, between and at the ends of buffers.
- `Conns` 2, `Fds` 0 and 1: a number is reused at once, and 0 is among them.
- `Threads` 3, `max_pool_size` 2, `Uses` 2: one thread waits while a newcomer overtakes it.
- `MaxFields` 2, `Damage` zero, a small and a large value; `InlineSize` 14 and `StructSize` 16 keep the order of 120 and
  128, and pieces of 1, 2 and 9 bytes fill, cross and overshoot them at `MaxDepth` 3 (a child in a child); buffers of the writer below, at and above the five bytes of an empty document.
- `MaxOps` 3 with `MaxBatch` 2: a batch is split and the third operation is at the boundary. `DocRooms` 2 and `Rooms` 0, 1 and 3:
  all three operations together are too long or short enough, a message has no room, room for one and for all.
- `ChunkSize` 2 with `MaxLength` 3 or 4: two chunks, the second full or not; `StreamChunk` 3 does not
  divide into chunks; one failing operation.
- `DocLengths` 5 and 13 with `BufLen` 6: one document fits, one makes the buffer double twice.

Deadlock checking is off because calls, cursors and sessions do come to an end.

### Fairness

- `ReadFairness`: the method goes on (no step waits for anything but a socket, and sockets time
  out, which the model has as a failed RPC), and a caller of a generator asks for the next block or
  lets go of the generator, which closes it. Nothing is assumed of writers or of the server.
- `SessionFairness`: CPython deletes an object when its last reference goes, and callers let go of
  their generators in the end.
- `PoolFairness`: strong fairness of each thread: one that finds the mutex free again and again gets it in the
  end. POSIX promises no order among those that wait, and the model has none; only a scheduler that passes a
  thread over for ever is excluded.
- `ClusterFairness`, `GridfsFairness`, `ReaderFairness`: a function that has begun goes on. Servers answer
  or do not; both are results of a step.
- `StreamFairness`: the loop goes on when the socket is readable, and a deadline passes. Nothing is
  assumed of the peer: a read without a timeout may wait for ever, and `CallsEnd` does not claim more.

### Other disagreements met while modelling

The models follow the code in each of these places, and the properties make an exception for it, which their comments
name. Paths are under `src/mongodb-mongo-c-driver-1.0.0/src/` unless they begin with `monary`.

Loaders: `monary/cmonary.c:426, 455` multiply the row by the size as an `int`, which wraps in arrays of more than 2 GiB. `:545` counts the characters of a string up to its first zero byte; `:507` has no case for the
symbols that the type table (`:41`) promises a size for.

Cluster:

- `mongoc/mongoc-cluster.c:792` draws among the candidates before the latency threshold removed some, and may end with NULL
  and no error; `:690` returns the primary before it looks at the hint (the comment at 2385 says otherwise).
- `mongoc/mongoc-read-prefs.c:239`: with secondaryPreferred the primary scores 0 and remains a candidate.
- `mongoc/mongoc-cluster.c:2199, 2476`: closing the nodes leaves their primary flags, so that select may
  return a node without a stream to a request that needs the primary, which an assertion refuses.
- `mongoc/mongoc-cursor.c:340` sends `KILL_CURSORS` to the primary or to any router, not to the node of the cursor;
  `doc/mongoc_cursor_destroy.page:29` says that the cursor is released.
- `:2544` tests the result of `writev`, -1 on failure, with `!`. `:2845` reads `nodes[node]` for a hint that counts from 1. `:1867`
  asserts a set name on the way that is taken when there is none.
- `mongoc/mongoc-sasl.c:299` fails on the first call, so that GSSAPI never succeeds.

BSON:

- `libbson/src/bson/bson-iter.c:1724` ends the visit for invalid UTF-8 with a result that `bson_validate` ignores;
  `bson.c:2880` ends it after a valid scope. `bson.c:2663` and `:2779` print a document that could not be visited to its end.
- `libbson/src/bson/bson-utf8.c:281` does not advance on a byte that begins no character, so that printing such a text of code never
  ends; `bson-iter.c:1220` subtracts 1 from a length of 0.
- `bson-reader.c:106` takes a failing first read for the end of the file; `:512` reports the end with half a document left.
- `bson-writer.c:205` clears one byte more than it made room for; `:202` does not look at the result of realloc.
- `bson.c:2029` rounds the buffer of a copy up to a power of two that may be beyond what `_bson_grow` allows (`:108`, `:159`).

Streams and sockets:

- `mongoc/mongoc-buffer.c:256` compares with a number that it has reduced, so that a short read can pass for a full one.
- `mongoc/mongoc-stream-tls.c:581` stays in its loop after the end of the stream.
- `mongoc/mongoc-socket.c:910` drops the result of the slow path, and may send its buffers again; `:426` keeps the number of a
  descriptor when close failed. `mongoc/mongoc-client.c:319` loses the socket when TLS fails. `mongoc/mongoc-stream-file.c:74` does
  not close descriptor 0.

Bulk writes:

- `mongoc/mongoc-write-command.c:629` compares each document with the room of an empty message, so that a command may grow longer
  than a message and is not sent. `:664` repeats an unordered insert, and the legacy loop any insert, for ever when a
  document fits in no message; `:334` wraps, and takes one that is longer than a message.
- `:664`: an ordered insert of several batches goes on after a write error. `:379` counts the
  documents of a legacy insert that failed. `:1165` and `:1007` compute the index of an error and of an upsert from counts that are
  not the operations'.
- `mongoc/mongoc-client.c:629` returns true for `{ok: 0}`. `mongoc/mongoc-bulk-operation.c:300` returns before the reply is initialized.

GridFS (`mongoc/mongoc-gridfs-file.c`): `:537` computes the number of a page from a position that may be on the next chunk;
`:118` ignores a failing flush; `:723` compares offsets and not chunks, and `:730` keeps a destroyed page; `:601` keeps a cursor past the
chunk and reads an unset variable; `:419` asserts when a page could not be loaded; `:445` drops a page with changes; `:712`
counts SEEK_END from the last byte; `mongoc-gridfs.c:268` asserts for an empty stream.

Matcher: `mongoc/mongoc-matcher.c:289` nests `$nor` to the right; `:76` and `:254` read one key of several; `:288` takes an error for the
end; `:161` asserts the type before it is checked. `mongoc/mongoc-matcher-op.c:339` takes the type of the wrong iterator; `:892`
does not match `$ne` of a missing field; `:473` has no case for booleans, documents and arrays.

## Proofs

TLAPS checks the following for all values of the constants.

Reading:

- `MongocCursorProofs`, from `CursorConstants`, in three layers with one lemma per operator in each:
  - `CursorTypeOK`: the type of every result that an operator can have;
  - `NoLossNoReorder`, for any number of documents and any way to cut them into replies. The invariant alone is not
    inductive: a reply that arrives overwrites a buffer, and a document left in it would be lost. `HistoryInv` adds
    `Shape`: the two buffers are never filled together, a first batch is there only while `in_first_batch` and only for
    commands, and nothing is buffered before the query is sent; so every reply finds both buffers empty;
  - `LimitRespected`, `EndMeansAll`, `ServerCursorReleased` and `NothingAfterEnd`, by `EndInv`. Its part `Sound` ties the
    cursor to the server: the client has the id of the cursor that is open there, what was sent and what is pending are
    together what the query found, and without an id nothing is pending. A kill reaches that cursor unless the deployment
    lets it go elsewhere (`KillMayMiss`). `Counted` says that a limited cursor has
    counted exactly what it returned until it ends: after the end `count` goes on and wraps, which is harmless only
    because `Over` (failed, done, or drained) is then kept by every call.
- `MonaryReadProofs`, from the assumptions of `MongocCursor` and `ColumnData` and `CallsAssumption`:
  - about `ColumnData`: `LoadInBounds`, that loading a row below `num_rows` writes inside the arrays whatever the
    columns, widths and values, also with the wrong multiplication of the bson loader. For strings and binaries it
    assumes `Addressable`, that the array has at most 2 GiB: only then is the product of a row and a size what an
    `int` can hold. There are also lemmas on what one
    row's load changes: its own item, from its start, and nothing else;
  - `ReadTypeOK`, `NoDocumentLost`, `NoOverrun` and `ReleasedWhenOver`, by `ReadInv`. It adds `Progress` (without
    a cursor nothing is loaded; the arrays have `num_rows` rows from `_make_column_data` on; only generators are
    suspended) and `Holdings` (what a call has allocated at each place). `NoOverrun` rests on `row < num_rows` in the
    loop and on `LoadInBounds`;
  - `RowsFaithful` and `UnfilledRowsMasked`, by `RowsInv` beside `ReadInv`. It adds `FreshRows`: the rows that query
    and aggregate have not loaded are still zero, which makes a short string exact there and is what fails in
    the reused arrays of the block methods;
  - `ReadSpec => CursorSpec`: a call drives the cursor only as `MongocCursor` describes it, so the theorems about
    the cursor hold in every call;
  - `ReturnsWhatWasAsked` and `WrongCallsFail`, by `AskInv`: what a call has passed at each place, that the cursor has the
    call's limit and offset, how many rows there are, and that loading stops only at the end of the cursor or
    of the one block. With `EndMeansAll` this gives the exact result. A wrong call never gets past the place where it is
    found out, except the one that goes on without a cursor, whose only step is the crash;
  - `RowStreamHolds`, `ReadSpec => RowStreamSpec`: the step of the server that the abstract `sent` follows is inside
    `mongoc_cursor_next`, and the abstract delivery is the yield. A delivery must extend `got` by what was `sent`
    next, in full blocks but the last: that is `NoDocumentLost` (delivered and block are what was returned) together with
    `NoLossNoReorder` (returned and buffered are what was handed).
- `MonaryProofs`:
  - `SessionTypeOK`, `ClientsAccounted`, and `GeneratorsKeepClients` with its parts `OnlyExplicitlyLeft` and `MisuseIsExplicit`, for
    any sets of clients and generators, from `SessionConstants` (None is no client). `SessionInv` is inductive: it adds that
    nothing refers to an object that is not alive (`Idle`), and that the client of a suspended generator is the connection
    or was left explicitly (`GeneratorClients`). The second is what `OnlyExplicitlyLeft` needs: when `__del__` destroys the
    connection, no generator is suspended, because `Del` requires so, and the other clients of generators are already
    among the explicitly left ones;
  - `DateRoundTrip` and `DatesConverted` for every integer, by division with remainder twice (1000, and the seconds of a
    day). `After` names the time that a conversion gives; `Microseconds`, `FieldsAfter` and `TimeWithin` say what its fields
    are, and `Cutting` what the loss of a fraction does on both sides of zero;
  - `RingIsOrdered` for any set of keys, also an infinite one. `DictInv` says that there is a sequence of different keys, those
    of `map`, and that the link at each place of it has its neighbours in `next` and `prev`, the sentinel at both ends.
    Adding appends to that sequence and deleting takes one place out, which are the steps of `OrderedItems`. The walk
    that the refinement mapping takes is a recursive function; `WalkIs` fixes its value by the last
    place at which it could differ from the sequence;
  - `ItemExact` for every width of an address and every text (the widths of the numbers are those of the model). `CastKeeps`: a
    number in the range of a type is the only one of its residue there. `NotRounded`: if enough bits of a number are
    zero, its rounding step divides it. That 2^n doubles with n, which the wrap of an address needs, is not known to
    the provers; `Doubling` takes it from the number of subsets of a set;
  - `ArgumentsFaithful` for any limits, from `ArgumentsAssumption`. Its lemmas say more than the invariant: `TypesFit` holds for any
    size argument, `FilterKept` for any query without `$` keys and any sort and hint, `BytesBack` for items of any length.

The driver:

- `MongocClusterProofs`: `ConnectionsUsable`, for any seeds, members, slots and retries. `NeverUnauthenticated` and
  `HealthyMeansConnected` speak of the times between reconnections; `ClusterInv` says what holds inside one: `Trusted`, that
  also the nodes connected so far have authenticated, and `Working`, that the first slot is connected as soon as
  any is filled, so that the health that is set at the end is true. Each function touches one slot (`Touches`), one lemma
  per function.
- `NetworkProofs`, the parts between the application and the server: `AuthenticationAgrees` (`AuthInv`: before it is over nothing is decided, and the nonce that is hashed is the one
  issued), `DescriptorsOwned` (`LifetimeInv`: a stream between two addresses holds no descriptor) and `ChosenWell`
  (`SelectInv`: but for a direct connection every connected node has been pinged; a lost node may keep its primary flag). The draw among the nearest counts
  candidates with a recursive function; its value is fixed by the least index at which it would be wrong, since the
  library's induction theorems cannot be instantiated.
  `ClientsShared` of the pool holds for any finite set of threads and any pool size. `PoolInv` adds who has the mutex
  (`MutexHeld`), that a thread has a client exactly while it uses it or gives it back (`HeldWhere`), that the queue has no client
  twice and every client made is idle, held or destroyed (`Accounted`), and that all were made with the same
  options (`MadeAlike`: a caller must not set them once it has retrieved a client). `NoLostWakeup` compares two cardinalities:
  each step that adds to the queue also adds to those that were woken or look, unless nobody sleeps.
- `StreamProofs`, about bytes that are moved:
  - `BytesInOrder`, for any sizes of buffers and requests. `StreamInv` says that what the caller has, what waits in the
    buffer and what the call under way was given are the peer's bytes without a gap (`FirstBytes`, `LastTaken`), unless a read
    has failed, and that during a call the buffer starts at the front and has room for what is missing (`FillUnderWay`). The
    contents of a buffer are compared byte by byte (`SameContents`) when it is moved to the front or to a larger one;
  - `SentAsCounted`, for any buffers and any cuts by the kernel. `IovecInv`: each buffer from the current one on still ends where it
    did, and the count is where the current one begins. `SendInv` adds that the wire has that many bytes of the
    message, as long as the slow path was not taken (`mongoc-socket.c:910`);
  - `WrittenPacked`, by `WriterInv` (the offset is the first one and the sum of the documents written; what is
    begun fits), and `ReaderFaithful`, by `ReaderInv`: the buffer holds the last bytes that were read (`Buffered`), the n-th
    document returned begins behind the n - 1 before it (`Returned`), and a file without damage ends with nothing left
    over (`EndsWell`).
- `SumProofs`: `SumsOf` is a recursive function. `SumsAddUp` shows that there is one that adds up, and that the least index at
    which another would differ is a contradiction.
- `DataProofs`:
  - `BufferHolds`, for any sizes of structure, empty document and limit and for any depth. `InBuffer` alone says nothing of
    the bytes that are written later, when the children end. `BuilderInv` adds `Room`: behind the innermost document there is one
    byte for every document around it, which is what `alloc_grow` asks for with its depth; and `Nested`: a child
    starts where its parent put an empty document, so that a parent that takes its child's length over ends one
    byte behind it and `Room` is kept. An inline document has no child, because `append_bson_begin` moves it first.
    `next_power_of_two` is defined by CHOOSE; `PowerOfTwo` and `LeastNumber` say what it yields;
  - `SentOnceInOrder` and `OutcomeHonest`, for any number of operations, any room in a message, including none, and whatever becomes of the messages,
    from `BulkAssumption`. Both speak of the end; `BulkInv` says what holds after each message. `CommandsTile`: the commands lie
    one behind the other over the operations, each over operations of its type, and only inserts have several.
    `Frontier` is the first operation that no message has held yet: what took effect or failed is below it (`BelowFrontier`), without a
    lost message all below it was sent, and tried unless one failed in order (`SentSoFar`), and with write commands
    the counts are those of what took effect (`CountsSoFar`). `FailureSeen` is what honesty needs between two batches of one insert, where
    the code goes on after a write error (`mongoc-write-command.c:664`): the failure is already recorded, and is one of the
    current command, so that no later command begins.

The types of `MongocCursor`, `MonaryRead` and `MonarySession` are theorems and not repeated in the runs.

Only model-checked: liveness (`Terminates`, `ConnectionReleased`, `EveryThreadFinishes`, `EveryCallReturns`), which depends on
fairness;
`PageFaithful` and `StoredSafely` of GridFS. `BsonFormat` and `MongocMatcher`
(`ReadsWhatWasWritten`, `DamageContained`, `MatcherFaithful`) use RECURSIVE operators and stay with TLC.

## Not modelled

- JSON to BSON (`bson-json.c` on top of the vendored YAJL), connection strings and the wire protocol's macros: parsers and
  layouts of text or bytes without control of their own. What they yield is a parameter of the models.
- Collection, database and client functions that build one command document and send it, BCON, options
  (write concern, setters of read preferences): nothing is kept between two calls.
- The SASL conversation after its first step, which the code never reaches; certificates (OpenSSL).
- Lists, arrays, counters, logging, object ids, clock, UTF-8, MD5, base64: functions of one value, or containers that the
  models have as sequences and sets.
- The fields of a GridFS files document other than its length; nModified and write concern errors of a bulk operation;
  `mongoc-stream-gridfs.c`, which passes every call on.
- Of the driver's cursor: exhaust and tailable cursors, `mongoc_cursor_clone`, `mongoc_cursor_more`.
- `connect`'s assembly of a URI; `monary_init` and `monary_cleanup`; threads on one `Monary` object, which has no locks.
- Packaging, tests and timing scripts.

## Plan

Done, the most important behaviour first: `MongocCursor`, `ColumnData`, `MonaryRead` with `RowStream`, `MonarySession`,
`DateHelper`, their theorems; then the loaders and arguments of Monary, and the driver from the cluster down to the
descriptors and from BSON up to GridFS.

Proved since: the end of the cursor, the results of the reading methods and their refinement of `RowStream`, the pool, the
cluster with selection and authentication, descriptors, the buffers of BSON, the bytes of streams, sockets, readers and
writers, the dictionary and its refinement of `OrderedItems`, bulk operations, and the loaders and arguments of Monary.

Next, proofs: `GridfsFile`, the page and the chunks against the content.
