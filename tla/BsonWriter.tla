----------------------------- MODULE BsonWriter -----------------------------
(***************************************************************************)
(* bson_writer_t: documents written one behind the other into a buffer of  *)
(* the caller's, which grows with the caller's realloc function if there   *)
(* is one (bson-writer.c, and _bson_impl_alloc_grow of bson.c for what is  *)
(* appended to the open document).  Lengths are bytes.                     *)
(***************************************************************************)
EXTENDS PowersOfTwo, Sums, Integers, Sequences, FiniteSetsExt

CONSTANTS
  BufLens,   \* the lengths of the caller's buffer
  Offsets,   \* the offsets to start from
  FieldSizes,    \* the sizes of what is appended to a document
  MaxLen,    \* bound: appending and beginning stop at this length
  MaxWritten,   \* bound: the most documents finished
  FirstLen   \* the length an empty buffer is given (64)

ASSUME WriterAssumption ==
  /\ BufLens \subseteq Nat /\ Offsets \subseteq Nat /\ FieldSizes \subseteq Nat \ {0}
  /\ MaxLen \in Nat /\ MaxWritten \in Nat /\ FirstLen \in Nat \ {0}
  /\ \A n \in FieldSizes \cup {5} : \E p \in Powers : MaxLen + n <= p

VARIABLES
  can,      \* the realloc function: "none", "ok", or "null" when memory is out
  start,    \* the offset the writer was made with
  buflen,   \* *buflen
  offset,   \* writer->offset
  b,        \* the open document's length, 0 when there is none
  ready,    \* writer->ready
  written,  \* the lengths of the documents ended
  top,      \* one past the last byte written to
  answered  \* the last answer of begin, or "crash"

writerVars == <<can, start, buflen, offset, b, ready, written, top, answered>>

WriterInit ==
  /\ can \in {"none", "ok", "null"}
  /\ buflen \in BufLens
  /\ start \in {o \in Offsets : o <= buflen}
  /\ offset = start /\ b = 0 /\ ready = TRUE
  /\ written = <<>> /\ top = 0 /\ answered = "none"

\* The length the loop of bson_writer_begin ends with: doubled, from 64 when
\* there was none, until the empty document fits.
doubled(n, need) ==
  IF n >= need THEN n
  ELSE LET first == IF n = 0 THEN FirstLen ELSE n
       IN  first * Min({k \in Powers : first * k >= need})

\* One past the bytes begin writes: the memset starts one byte behind the
\* offset and clears five, so that six are written in all.
cleared(o) == o + 1 + 5

\* bson_writer_begin.
begin ==
  /\ ready /\ answered # "crash" /\ offset < MaxLen /\ Len(written) < MaxWritten
  /\ LET need == offset + 5
         grown == need > buflen
     IN  IF grown /\ can = "none"
         THEN answered' = "false" /\ UNCHANGED <<buflen, b, ready, top>>
         ELSE IF grown /\ can = "null"
         THEN answered' = "crash" /\ ready' = FALSE /\ buflen' = doubled(buflen, need)
              /\ UNCHANGED <<b, top>>
         ELSE /\ answered' = "true" /\ ready' = FALSE /\ b' = 5
              /\ buflen' = doubled(buflen, need)
              /\ top' = Max({top, cleared(offset)})
  /\ UNCHANGED <<can, start, offset, written>>

\* bson_append_* of n bytes to the open document (_bson_impl_alloc_grow).
append_field(n) ==
  /\ b > 0 /\ offset + b < MaxLen /\ answered # "crash"
  /\ LET req == offset + b + n
     IN  IF req <= buflen
         THEN b' = b + n /\ top' = Max({top, req}) /\ UNCHANGED <<buflen, answered>>
         ELSE IF can = "ok"
         THEN /\ b' = b + n /\ top' = Max({top, req})
              /\ buflen' = next_power_of_two(req) /\ UNCHANGED answered
         ELSE IF can = "null"
         THEN answered' = "crash" /\ UNCHANGED <<buflen, b, top>>
         ELSE UNCHANGED <<buflen, b, top, answered>>
  /\ UNCHANGED <<can, start, offset, ready, written>>

\* bson_writer_end.
end ==
  /\ ~ready /\ answered # "crash"
  /\ offset' = offset + b /\ b' = 0 /\ ready' = TRUE
  /\ written' = Append(written, b)
  /\ UNCHANGED <<can, start, buflen, top, answered>>

\* Mutant: what was written of the document stays.
RollbackKeeps ==
  /\ answered # "crash" /\ ~ready
  /\ offset' = offset + b /\ b' = 0 /\ ready' = TRUE
  /\ UNCHANGED <<can, start, buflen, written, top, answered>>

\* bson_writer_rollback: also when no document is open.
rollback ==
  /\ answered # "crash"
  /\ b' = 0 /\ ready' = TRUE
  /\ UNCHANGED <<can, start, buflen, offset, written, top, answered>>

WriterNext == begin \/ (\E n \in FieldSizes : append_field(n)) \/ end \/ rollback

WriterSpec == WriterInit /\ [][WriterNext]_writerVars

\* bson_writer_get_length.
get_length == offset + b

-----------------------------------------------------------------------------
\* The type invariant: a document is open exactly when the writer is not ready.
WriterTypeOK ==
  /\ {start, buflen, offset, b, top} \subseteq Nat
  /\ answered \in {"none", "true", "false", "crash"}
  /\ answered # "crash" => (ready <=> b = 0)

\* The documents ended fill the buffer from the first offset without a gap,
\* whatever was begun, rolled back or refused between them: what a reader of
\* the buffer finds is those documents (bson_writer_end, bson_writer_rollback).
DocumentsPacked ==
  offset = start + SumOf(written)

\* What get_length answers fits the buffer, the open document included: growth
\* by doubling (begin) and to a power of two (append) never falls short.
LengthFits ==
  answered # "crash" /\ (b > 0 \/ written # <<>>) => get_length <= buflen

\* No byte is written outside of the buffer but the one begin clears too many.
OneByteAtMost ==
  top <= buflen + 1

\* The buffer of a writer: documents one behind the other, within its length.
WrittenPacked == WriterTypeOK /\ DocumentsPacked /\ LengthFits /\ OneByteAtMost
=============================================================================
