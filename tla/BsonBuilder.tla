------------------------------ MODULE BsonBuilder ------------------------------
(***************************************************************************)
(* How bson.c keeps the bytes of a bson_t: inline in the structure, in a    *)
(* buffer that it owns or in one that the caller lent, with the documents   *)
(* under construction nested in one buffer.  Only sizes are modelled; the   *)
(* bytes are those of BsonFormat.                                           *)
(*                                                                          *)
(* docs is the path of open documents: the first is the bson_t itself, each *)
(* other one a child between append_document_begin and append_document_end. *)
(***************************************************************************)
EXTENDS PowersOfTwo, Integers, Sequences, FiniteSets

CONSTANTS
  InlineSize,   \* sizeof impl->data, 120
  StructSize,   \* what an inline document grows to when it gets a child, 128
  EmptySize,    \* the bytes of an empty document, 5
  MaxSize,      \* INT32_MAX and BSON_MAX_SIZE
  Pieces,       \* sizes of what is appended: type, key and value
  MaxDepth      \* bound: open documents

ASSUME BuilderConstants ==
  /\ {InlineSize, StructSize, EmptySize, MaxSize, MaxDepth} \subseteq Nat \ {0}
  /\ EmptySize <= InlineSize /\ InlineSize < StructSize
  /\ \A n \in 1..(MaxSize + 1) : \E p \in Powers : n <= p
  /\ StructSize \in Powers /\ StructSize <= MaxSize
  /\ Pieces \subseteq Nat \ {0}

VARIABLES
  kind,      \* "inline", "alloc", "lent" (NO_FREE), "rdonly" or "gone"
  cap,       \* buflen, or sizeof data
  docs,      \* the open documents
  asked,     \* history: bytes appended to each open document, its own children included
  overrun,   \* a byte was written outside of the buffer
  heap       \* buffers that were allocated and neither freed nor handed over

builderVars == <<kind, cap, docs, asked, overrun, heap>>

NewDoc(offset, depth) == [offset |-> offset, len |-> EmptySize, enc |-> EmptySize, depth |-> depth]
Innermost == docs[Len(docs)]
End(d) == d.offset + d.len
Max2(a, b) == IF a >= b THEN a ELSE b

Fresh(k, c) ==
  /\ kind' = k /\ cap' = c
  /\ docs' = <<NewDoc(0, 0)>> /\ asked' = <<0>>
  /\ overrun' = FALSE

\* bson_init and bson_new; bson_sized_new for a small size.
BuilderInit ==
  /\ kind = "inline" /\ cap = InlineSize
  /\ docs = <<NewDoc(0, 0)>> /\ asked = <<0>>
  /\ overrun = FALSE
  /\ heap = 0

-----------------------------------------------------------------------------
(* _bson_grow: what the buffer is afterwards, or no change and failure.      *)

Grown(ok, k, c, h) == [ok |-> ok, kind |-> k, cap |-> c, heap |-> h]
Same(ok) == Grown(ok, kind, cap, heap)

\* _bson_impl_inline_grow
inline_grow(size) ==
  IF docs[1].len + size <= InlineSize THEN Same(TRUE)
  ELSE LET req == next_power_of_two(docs[1].len + size)
       IN  IF req <= MaxSize THEN Grown(TRUE, "alloc", req, heap + 1) ELSE Same(FALSE)

\* Mutant: no room for the final bytes of the parents.
GrowWithoutDepth(size) ==
  LET req == Innermost.offset + Innermost.len + size
  IN  IF req <= cap THEN Same(TRUE)
      ELSE IF next_power_of_two(req) <= MaxSize
           THEN Grown(TRUE, kind, next_power_of_two(req), heap) ELSE Same(FALSE)

\* _bson_impl_alloc_grow, with room for the final bytes of the parents.
alloc_grow(size) ==
  LET req == Innermost.offset + Innermost.len + size + Innermost.depth
  IN  IF req <= cap THEN Same(TRUE)
      ELSE IF req <= MaxSize + 1 /\ next_power_of_two(req) <= MaxSize
           THEN Grown(TRUE, kind, next_power_of_two(req), heap) ELSE Same(FALSE)

grow(size) == IF kind = "inline" THEN inline_grow(size) ELSE alloc_grow(size)

Buffer(g) == kind' = g.kind /\ cap' = g.cap /\ heap' = g.heap

\* _bson_append_va on the innermost document: its bytes, its length and its
\* final byte.
Wrote(g, size) == overrun' = (overrun \/ End(Innermost) + size > g.cap)

Longer(d, size) == [d EXCEPT !.len = d.len + size, !.enc = d.len + size]

Writable == kind \in {"inline", "alloc", "lent"}

\* _bson_append (any of the bson_append functions, bson_concat): false when
\* the document would be too long.
append_bytes(size) ==
  /\ Writable
  /\ LET g == grow(size)
     IN  IF size <= MaxSize - Innermost.len /\ g.ok
         THEN /\ Buffer(g) /\ Wrote(g, size)
              /\ docs' = [docs EXCEPT ![Len(docs)] = Longer(Innermost, size)]
              /\ asked' = [asked EXCEPT ![Len(docs)] = @ + size]
         ELSE UNCHANGED builderVars

\* _bson_append_bson_begin: an inline document moves to a buffer first.
append_bson_begin(size) ==
  /\ Writable /\ Len(docs) < MaxDepth
  /\ LET moved == IF kind = "inline" THEN inline_grow(StructSize - docs[1].len) ELSE Same(TRUE)
         all == size + EmptySize
         req == Innermost.offset + Innermost.len + all + Innermost.depth
         fits == req <= moved.cap
         g == IF fits THEN moved
              ELSE [moved EXCEPT !.cap = next_power_of_two(req)]
     IN  IF all <= MaxSize - Innermost.len /\ (fits \/ (req <= MaxSize + 1 /\ next_power_of_two(req) <= MaxSize))
         THEN /\ Buffer(g) /\ Wrote(g, all)
              /\ docs' = Append([docs EXCEPT ![Len(docs)] = Longer(Innermost, all)],
                                NewDoc(End(Innermost) + size - 1, Len(docs)))
              /\ asked' = Append([asked EXCEPT ![Len(docs)] = @ + all], 0)
         ELSE Buffer(moved) /\ UNCHANGED <<docs, asked, overrun>>

Parent == docs[Len(docs) - 1]

\* _bson_append_bson_end: the parent takes the length over and writes its own
\* final byte.
append_bson_end ==
  /\ Writable /\ Len(docs) > 1
  /\ LET len == Parent.len + Innermost.len - EmptySize
         n == Len(docs) - 1
     IN  /\ docs' = [SubSeq(docs, 1, n) EXCEPT ![n] = [Parent EXCEPT !.len = len, !.enc = len]]
         /\ asked' = [SubSeq(asked, 1, n) EXCEPT ![n] = @ + asked[Len(docs)]]
         /\ overrun' = (overrun \/ Parent.offset + len > cap)
  /\ UNCHANGED <<kind, cap, heap>>

-----------------------------------------------------------------------------

AllClosed == Len(docs) = 1

\* bson_reinit keeps the buffer.
reinit == Writable /\ AllClosed /\ docs' = <<NewDoc(0, 0)>> /\ asked' = <<0>> /\ UNCHANGED <<kind, cap, overrun, heap>>

\* bson_destroy frees the buffer that the document owns.
Freed(k) == IF k = "alloc" THEN heap - 1 ELSE heap

destroy ==
  /\ kind # "gone"
  /\ kind' = "gone" /\ heap' = Freed(kind)
  /\ UNCHANGED <<cap, docs, asked, overrun>>

\* bson_destroy_with_steal hands the bytes over: those of an inline document in
\* a new buffer.  With a child open, or read-only, there is nothing to steal.
destroy_with_steal ==
  /\ kind # "gone"
  /\ kind' = "gone"
  /\ heap' = IF ~AllClosed \/ kind = "rdonly" THEN Freed(kind)
             ELSE IF kind = "alloc" THEN heap - 1 ELSE heap
  /\ UNCHANGED <<cap, docs, asked, overrun>>

\* A document that replaces one that is gone.
Again == kind = "gone"

\* bson_sized_new
sized_new(size) ==
  /\ Again
  /\ IF size <= InlineSize THEN Fresh("inline", InlineSize) /\ UNCHANGED heap
     ELSE Fresh("alloc", Max2(EmptySize, size)) /\ heap' = heap + 1

\* bson_new_from_buffer with no buffer yet: the caller keeps it.
new_from_buffer == Again /\ Fresh("lent", EmptySize) /\ UNCHANGED heap

Reinitialised(k, c, len) ==
  /\ kind' = k /\ cap' = c
  /\ docs' = <<[NewDoc(0, 0) EXCEPT !.len = len, !.enc = len]>>
  /\ asked' = <<len - EmptySize>>
  /\ overrun' = (len > c)

\* bson_init_static: read-only, over the caller's bytes.
static_document(len) ==
  /\ Again /\ len \in EmptySize..MaxSize
  /\ Reinitialised("rdonly", len, len) /\ UNCHANGED heap

\* bson_copy (bson_new_from_data); the original is destroyed.
copy ==
  /\ kind # "gone" /\ AllClosed
  /\ LET len == docs[1].len
     IN  IF len <= InlineSize THEN Reinitialised("inline", InlineSize, len) /\ heap' = Freed(kind)
         ELSE Reinitialised("alloc", len, len) /\ heap' = Freed(kind) + 1

\* bson_copy_to; the original is destroyed.
copy_to ==
  /\ kind # "gone" /\ AllClosed
  /\ LET len == docs[1].len
     IN  IF kind = "inline" THEN Reinitialised("inline", InlineSize, len) /\ UNCHANGED heap
         ELSE Reinitialised("alloc", next_power_of_two(len), len) /\ heap' = Freed(kind) + 1

BuilderNext ==
  \/ \E size \in Pieces : append_bytes(size) \/ append_bson_begin(size)
  \/ append_bson_end \/ reinit \/ destroy \/ destroy_with_steal
  \/ copy \/ copy_to \/ new_from_buffer
  \/ \E size \in {EmptySize, InlineSize + 1} : sized_new(size)
  \/ \E len \in {EmptySize + size : size \in Pieces} \cup {MaxSize} : static_document(len)

BuilderSpec == BuilderInit /\ [][BuilderNext]_builderVars

-----------------------------------------------------------------------------

\* The kinds of the variables.  Buffers do not grow beyond what an int32 can
\* count (bson.c:108, 159); only bson_copy_to of a document of more than half of
\* that rounds up beyond it (bson.c:2029).
BuilderTypeOK ==
  /\ kind \in {"inline", "alloc", "lent", "rdonly", "gone"}
  /\ cap \in 1..next_power_of_two(MaxSize)
  /\ docs \in Seq([offset: Nat, len: Nat, enc: Nat, depth: Nat])
  /\ Len(docs) \in 1..MaxDepth /\ Len(asked) = Len(docs)
  /\ \A i \in 1..Len(docs) : docs[i].depth = i - 1
  /\ overrun \in BOOLEAN

\* No byte is written outside of the buffer, the final bytes of the parents of
\* a nested document included, which are written long after the child grew
\* (bson.c:153, 541).
InBuffer == ~overrun

\* The length in the bytes of the innermost document is the sum of what was
\* appended to it and to its children (bson.c:533-543).
LengthsAdd == Innermost.len = EmptySize + asked[Len(docs)] /\ Innermost.enc = Innermost.len

\* Every buffer that was allocated is freed or handed over exactly once
\* (bson.c:2117, 2133).
OwnedOnce == heap = IF kind = "alloc" THEN 1 ELSE 0

\* The buffer of nested documents: large enough, counted right at every depth
\* and owned by one bson_t.
BufferHolds == BuilderTypeOK /\ InBuffer /\ LengthsAdd /\ OwnedOnce
=============================================================================
