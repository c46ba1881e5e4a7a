----------------------------- MODULE BsonReader -----------------------------
(***************************************************************************)
(* bson_reader_t: the documents of a file or of a block of memory, one     *)
(* after the other (bson-reader.c).  The handle reader fills a buffer of   *)
(* its own from a read function that gives as many bytes as it likes, and  *)
(* moves and doubles it; the data reader walks over the caller's bytes.    *)
(*                                                                         *)
(* The file is a sequence of documents, given by their lengths, of which   *)
(* one may be damaged and the last bytes missing.  A byte is the position  *)
(* it has in the file (from 1; 0 is memory nothing was read into), so that *)
(* a wrong move shows in what a length is read from.  Each turn of the     *)
(* loop of _bson_reader_handle_read is a step.                             *)
(***************************************************************************)
EXTENDS Sums, Integers, Sequences, SequencesExt, FiniteSetsExt

CONSTANTS
  DocLengths,  \* the lengths of the documents of a file
  MaxInFile,     \* the most documents of a file
  BufLen       \* the size of the handle reader's first buffer (1024)

ASSUME ReaderAssumption ==
  /\ DocLengths \subseteq {n \in Nat : n >= 5} /\ MaxInFile \in Nat
  /\ BufLen \in Nat /\ BufLen >= 4

VARIABLES
  source,    \* the file that is read
  flavour,    \* "handle" or "data"
  reader,  \* the bson_reader_handle_t, or the offset of a bson_reader_data_t
  asking,    \* "idle", "reading", or "gone" once destroyed
  out,     \* the documents returned: [at, len]
  last     \* what the last read returned: "none", "doc", "null", and eof

readerVars == <<source, flavour, reader, asking, out, last>>

\* A file: the lengths of its documents, where they start, where the last one
\* should end, the damaged one and how many bytes there really are.
File(d, b, cut) ==
  [docs |-> d, starts |-> [i \in DOMAIN d |-> 1 + SumsOf(d)[i - 1]],
   full |-> SumOf(d), bad |-> b, size |-> SumOf(d) - cut]

Files ==
  UNION {{File(d, b, c) : b \in 0 .. Len(d), c \in {0, 1, 4, 5} \cap 0 .. SumOf(d)} :
          d \in UNION {[1 .. k -> DocLengths] : k \in 0 .. MaxInFile}}

\* Where document i starts in the file.
DocAt(f, i) == f.starts[i]

\* The four bytes at these positions, read as a length: that of a document
\* when they are its first four, and something below 5 otherwise.
Blen(f, cells) ==
  LET starts == {i \in DOMAIN f.docs : cells = [j \in 1 .. 4 |-> DocAt(f, i) + j - 1]}
  IN  IF starts = {} THEN 0 ELSE f.docs[CHOOSE i \in starts : TRUE]

\* bson_init_static looks at the length and at the last byte.
static_ok(f, at) == f.bad = 0 \/ at # DocAt(f, f.bad)

NewReader == [data |-> [i \in 1 .. BufLen |-> 0], len |-> BufLen, offset |-> 0,
              end |-> 0, bytes_read |-> 0, done |-> FALSE, failed |-> FALSE]

-----------------------------------------------------------------------------
\* The read function puts n bytes of the file at the end of the buffer.
\* (_bson_reader_handle_fd_read: read(), again while it says EAGAIN.)
fd_read(r, n) ==
  [r EXCEPT !.data = SubSeq(r.data, 1, r.end) \o [i \in 1 .. n |-> r.bytes_read + i]
                       \o SubSeq(r.data, r.end + n + 1, r.len),
            !.end = @ + n, !.bytes_read = @ + n]

\* What one call of the read function can make of the reader: some bytes, the
\* end of the file, or an error, which is noted or not.
Reads(f, r, noted) ==
  {fd_read(r, n) : n \in 1 .. Min({r.len - r.end, f.size - r.bytes_read})}
    \cup (IF r.bytes_read = f.size \/ r.len = r.end
          THEN {[r EXCEPT !.done = TRUE]} ELSE {})
    \cup {[r EXCEPT !.done = TRUE, !.failed = noted]}

\* bson_reader_new_from_handle reads once; its failure is not noted.
new_from_handle(f) == Reads(f, NewReader, FALSE)

\* Mutant: the offset is reset before the bytes are moved.
MovesNothing(r) == [r EXCEPT !.end = r.end - r.offset, !.offset = 0]

\* The bytes not yet returned are moved to the front.
Moved(r) ==
  [r EXCEPT !.data = SubSeq(r.data, r.offset + 1, r.end)
                       \o SubSeq(r.data, r.end - r.offset + 1, r.len),
            !.end = r.end - r.offset, !.offset = 0]

\* _bson_reader_handle_fill_buffer after the first read.
fill_buffer(f, r) == UNION {Reads(f, q, TRUE) : q \in {Moved(r)}}

grow_buffer(r) ==
  [r EXCEPT !.len = 2 * @,
            !.data = @ \o [i \in 1 .. r.len |-> 0]]

-----------------------------------------------------------------------------
NoAnswer == [ret |-> "none", eof |-> FALSE]

ReaderInit ==
  /\ source \in Files
  /\ \/ flavour = "handle" /\ reader \in new_from_handle(source)
     \/ flavour = "data" /\ reader = NewReader
  /\ asking = "idle" /\ out = <<>> /\ last = NoAnswer

bson_reader_read ==
  /\ asking = "idle"
  /\ asking' = "reading"
  /\ UNCHANGED <<source, flavour, reader, out, last>>

Answers(ret, eof) ==
  /\ asking' = "idle"
  /\ last' = [ret |-> ret, eof |-> eof]
  /\ UNCHANGED <<source, flavour>>

NoDocument(eof) == Answers("null", eof) /\ UNCHANGED <<reader, out>>

OneDocument(at, n) ==
  /\ Answers("doc", FALSE)
  /\ reader' = [reader EXCEPT !.offset = @ + n]
  /\ out' = Append(out, [at |-> at, len |-> n])

Fills(r) ==
  /\ reader' \in fill_buffer(source, r)
  /\ UNCHANGED <<source, flavour, asking, out, last>>

\* One turn of the loop of _bson_reader_handle_read.
handle_read ==
  /\ asking = "reading" /\ flavour = "handle"
  /\ LET left == reader.end - reader.offset
         cells == [j \in 1 .. 4 |-> reader.data[reader.offset + j]]
         blen == Blen(source, cells)
     IN  IF reader.done THEN NoDocument(~reader.failed)
         ELSE IF left < 4 THEN Fills(reader)
         ELSE IF blen < 5 THEN NoDocument(FALSE)
         ELSE IF blen > left
              THEN Fills(IF blen > reader.len THEN grow_buffer(reader) ELSE reader)
         ELSE IF ~static_ok(source, cells[1]) THEN NoDocument(FALSE)
         ELSE OneDocument(cells[1], blen)

\* _bson_reader_data_read.
data_read ==
  /\ asking = "reading" /\ flavour = "data"
  /\ LET cells == [j \in 1 .. 4 |-> reader.offset + j]
         blen == Blen(source, cells)
     IN  IF reader.offset + 4 >= source.size THEN NoDocument(reader.offset = source.size)
         ELSE IF blen < 5 \/ blen > source.size - reader.offset THEN NoDocument(FALSE)
         ELSE IF ~static_ok(source, cells[1]) THEN NoDocument(FALSE)
         ELSE OneDocument(cells[1], blen)

\* bson_reader_destroy.
reader_destroy ==
  /\ asking = "idle"
  /\ asking' = "gone"
  /\ UNCHANGED <<source, flavour, reader, out, last>>

ReaderTurn == handle_read \/ data_read

ReaderNext == bson_reader_read \/ ReaderTurn \/ reader_destroy

\* The loop of a read runs until it returns.
ReaderFairness == WF_readerVars(ReaderTurn)
ReaderSpec == ReaderInit /\ [][ReaderNext]_readerVars /\ ReaderFairness

\* _bson_reader_handle_tell and _bson_reader_data_tell.
tell ==
  IF flavour = "data" THEN reader.offset
  ELSE reader.bytes_read - reader.end + reader.offset

-----------------------------------------------------------------------------
\* The type invariant: the reader's counters and buffer.
ReaderTypeOK ==
  /\ flavour \in {"handle", "data"} /\ asking \in {"idle", "reading", "gone"}
  /\ reader.data \in Seq(Nat) /\ Len(reader.data) = reader.len
  /\ {reader.offset, reader.end, reader.bytes_read} \subseteq Nat
  /\ out \in Seq([at : Nat, len : Nat])

\* The reader's counters stay within its buffer, over every series of moves and
\* doublings (the checks at the end of _bson_reader_handle_fill_buffer).
CountersFit ==
  flavour = "handle" => reader.offset <= reader.end /\ reader.end <= reader.len

\* The documents returned are those of the file, from the first on, each whole:
\* none twice, none left out, none after a damaged one, however the bytes came.
DocumentsInOrder ==
  /\ Len(out) <= Len(source.docs)
  /\ \A i \in DOMAIN out :
       /\ out[i] = [at |-> DocAt(source, i), len |-> source.docs[i]]
       /\ i # source.bad
       /\ out[i].at + out[i].len - 1 <= source.size

\* The position is always at the start of a document or at the end of the file,
\* never in the middle, whatever is buffered (bson_reader_tell).
TellsBoundary ==
  tell = IF out = <<>> THEN 0 ELSE Last(out).at + Last(out).len - 1

\* A file without damage, whose read errors come after the first read, is
\* reported as ended only when every document was returned.
EofAfterAll ==
  last.ret = "null" /\ last.eof /\ source.size = source.full
    => Len(out) = Len(source.docs) \/ (flavour = "handle" /\ reader.bytes_read = 0)

\* Every read returns: the buffer grows until the document fits, or the file
\* ends.
ReadReturns == asking = "reading" ~> asking # "reading"

\* The documents of a file, however it is delivered, and the reader's position
\* and end among them.
ReaderFaithful ==
  /\ ReaderTypeOK /\ CountersFit
  /\ DocumentsInOrder /\ TellsBoundary /\ EofAfterAll
=============================================================================
