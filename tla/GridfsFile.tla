------------------------------- MODULE GridfsFile -------------------------------
(***************************************************************************)
(* A GridFS file: a handle that reads, writes and seeks through one page,   *)
(* which holds a chunk of the file, and the chunks and files collections    *)
(* that the pages are loaded from and flushed to.                           *)
(*                                                                          *)
(* Bytes are numbered by the call that wrote them.  The history variable    *)
(* content is the file as its writer means it to be, and odd collects what  *)
(* the handle did on the way that may make the stored file differ.          *)
(***************************************************************************)
EXTENDS Integers, Sequences, FiniteSets, FiniteSetsExt

CONSTANTS
  ChunkSize,     \* file->chunk_size
  StreamChunk,   \* MONGOC_GRIDFS_STREAM_CHUNK, 4096
  Ops,           \* the operations the client calls
  ReadSizes,     \* bound: bytes that a read asks for
  Outcomes,      \* of an update: "ok", "refused" or "lost" (applied, no reply)
  GoOn,          \* bound: the slips after which the client goes on
  MaxLength,     \* bound: length of the file
  MaxCalls,      \* bound: calls that write
  MaxFaults      \* bound: operations that fail

ASSUME GridfsAssumption ==
  /\ ChunkSize \in Nat \ {0} /\ StreamChunk \in Nat \ {0} /\ "ok" \in Outcomes
  /\ ReadSizes \subseteq Nat /\ MaxLength \in Nat

VARIABLES
  file,      \* mongoc_gridfs_file_t
  chunks,    \* server: the data of each chunk, empty when there is none
  files,     \* server: length in the files document, -1 when there is none
  doing,      \* the call in progress
  ret,       \* what the last call returned
  content,   \* history: the bytes of the file
  odd,       \* history: what went wrong unnoticed
  status,    \* "ok", or how the process went wrong
  calls, faults

gridfsVars == <<file, chunks, files, doing, ret, content, odd, status, calls, faults>>

ChunkNumbers == 0 .. (MaxLength \div ChunkSize) + 1
NoPage == [state |-> "none", n |-> 0, data |-> <<>>, off |-> 0, buf |-> FALSE]
NoCursor == [open |-> FALSE, rest |-> {}, failed |-> FALSE]
NoOperation == [op |-> "idle", left |-> 0, got |-> <<>>, min |-> 0, from |-> 0, stream |-> -1]
Nothing == [op |-> "none", ok |-> TRUE, n |-> 0]
Closed == [open |-> FALSE, pos |-> 0, length |-> 0, page |-> NoPage, cursor |-> NoCursor,
           range |-> <<0, 0>>, is_dirty |-> FALSE, failed |-> FALSE]

Here(f) == f.pos \div ChunkSize

(***************************************************************************)
(* The page.  n, the chunk it was loaded for, is not kept by the code.      *)
(***************************************************************************)
page_new(n, data) == [state |-> "live", n |-> n, data |-> data, off |-> 0, buf |-> FALSE]

page_seek(page, off) == [page EXCEPT !.off = off]

page_read(page, len) == SubSeq(page.data, page.off + 1, page.off + Min({len, Len(page.data) - page.off}))

\* Mutant: the copy on write forgets what follows the bytes that are written.
WriteTruncates(page, byte, len) ==
  LET w == Min({len, ChunkSize - page.off}) IN
  [page EXCEPT !.buf = TRUE, !.off = @ + w,
     !.data = SubSeq(@, 1, page.off) \o [i \in 1 .. w |-> byte]]
page_write(page, byte, len) ==
  LET w == Min({len, ChunkSize - page.off}) IN
  [page EXCEPT !.buf = TRUE, !.off = @ + w,
     !.data = SubSeq(@, 1, page.off) \o [i \in 1 .. w |-> byte] \o SubSeq(@, page.off + w + 1, Len(@))]

page_is_dirty(page) == page.state = "live" /\ page.buf

(***************************************************************************)
(* Saving.  An update of a collection is applied unless it was refused and  *)
(* succeeds only when its reply arrives.  w holds the handle and the server.*)
(***************************************************************************)
Applied(o) == o # "refused"

Saved(w, o) ==
  [w EXCEPT !.files = IF Applied(o) THEN w.f.length ELSE @,
            !.f.failed = o # "ok", !.f.is_dirty = FALSE, !.ok = (o = "ok"),
            !.odd = IF o = "ok" THEN @ ELSE @ \union {"undirtied"}]

\* The page is stored under the number of the chunk that holds pos.
flush_page(w, o1, o2) ==
  LET stored == [w EXCEPT !.chunks[Here(w.f)] = IF Applied(o1) THEN w.f.page.data ELSE @,
                          !.f.failed = o1 # "ok",
                          !.odd = IF Here(w.f) = w.f.page.n THEN @ ELSE @ \union {"misfiled"}]
      clean == [stored EXCEPT !.f.page = NoPage]
  IN  IF o1 # "ok" THEN [stored EXCEPT !.ok = FALSE]
      ELSE IF clean.f.is_dirty THEN Saved(clean, o2) ELSE [clean EXCEPT !.ok = TRUE]

\* Mutant: only the files document is written.
SaveFilesOnly(w, o1, o2, o3) == IF ~w.f.is_dirty THEN [w EXCEPT !.ok = TRUE] ELSE Saved(w, o3)
\* Whether the page was stored is forgotten when the files document is.
file_save(w, o1, o2, o3) ==
  IF ~w.f.is_dirty THEN [w EXCEPT !.ok = TRUE]
  ELSE IF ~page_is_dirty(w.f.page) THEN Saved(w, o3)
  ELSE LET flushed == flush_page(w, o1, o2) IN
       Saved(IF o1 = "ok" THEN flushed ELSE [flushed EXCEPT !.odd = @ \union {"unsaved"}], o3)

(***************************************************************************)
(* Loading the page that holds pos.  Returns the handle and the status.     *)
(***************************************************************************)
ChunksFrom(n) == {[n |-> m, data |-> chunks[m]] : m \in {m \in ChunkNumbers : m >= n /\ chunks[m] # <<>>}}
\* They come in the order of their numbers.
FirstOf(rest) == CHOOSE c \in rest : \A d \in rest : c.n <= d.n

KeepCursor(f) == f.cursor.open /\ f.range[1] >= Here(f) /\ f.range[2] <= Here(f)

\* The cursor that will yield the chunk.
refresh_cursor(f) ==
  IF KeepCursor(f) THEN f
  ELSE [f EXCEPT !.cursor = [open |-> TRUE, rest |-> ChunksFrom(Here(f)), failed |-> FALSE],
                 !.range = <<Here(f), f.length \div ChunkSize>>]

Loaded(f, data) == LET p == page_new(Here(f), data) IN
  IF f.pos % ChunkSize > Len(data) THEN [f |-> f, status |-> "aborted"]
  ELSE [f |-> [f EXCEPT !.page = page_seek(p, f.pos % ChunkSize)], status |-> "ok"]

refresh_page(f, fails) ==
  LET g == [f EXCEPT !.page = NoPage]
      h == refresh_cursor(g)
      c == FirstOf(h.cursor.rest)
      next == [h EXCEPT !.cursor.rest = @ \ {c}, !.range[1] = @ + 1]
  IN  CASE f.page.state = "freed" -> [f |-> f, status |-> "freed"]
        [] f.page.state # "freed" /\ f.pos >= f.length /\ f.pos % ChunkSize = 0 -> Loaded(g, <<>>)
        [] OTHER ->
           CASE h.range[1] > Here(f) -> [f |-> h, status |-> "uninitialized"]
             [] h.range[1] <= Here(f) /\ (fails \/ h.cursor.failed) ->
                  [f |-> [h EXCEPT !.cursor.failed = TRUE, !.cursor.rest = {}, !.failed = TRUE], status |-> "ok"]
             [] OTHER -> CASE h.cursor.rest = {} -> [f |-> h, status |-> "ok"]
                           [] h.cursor.rest # {} /\ c.n # Here(f) -> [f |-> next, status |-> "ok"]
                           [] OTHER -> Loaded(next, c.data)

\* What refresh_page gives up without a word.
Dropped(f) == IF page_is_dirty(f.page) THEN {"dropped"} ELSE {}

Faults(os) == Cardinality({i \in DOMAIN os : os[i] # "ok"})
MayFail(os) == faults + Faults(os) <= MaxFaults /\ faults' = faults + Faults(os)

World == [f |-> file, chunks |-> chunks, files |-> files, ok |-> TRUE, odd |-> odd]
Becomes(w) == /\ file' = w.f /\ chunks' = w.chunks /\ files' = w.files /\ odd' = w.odd

CanCall(op) == status = "ok" /\ doing.op = "idle" /\ op \in Ops /\ odd \subseteq GoOn
Returns(op, ok, n) == ret' = [op |-> op, ok |-> ok, n |-> n]

GridfsInit ==
  /\ file = Closed /\ chunks = [n \in ChunkNumbers |-> <<>>] /\ files = -1
  /\ doing = NoOperation /\ ret = Nothing /\ content = <<>> /\ odd = {} /\ status = "ok"
  /\ calls = 0 /\ faults = 0

\* The bytes of a file of the given length, 0 where a chunk lacks them.
Bytes(chunk, length) == [p \in 1 .. length |->
  LET c == chunk[(p - 1) \div ChunkSize]
      k == ((p - 1) % ChunkSize) + 1
  IN  IF k <= Len(c) THEN c[k] ELSE 0]
\* The file as another client would read it.
StoredContent == IF files < 0 THEN <<>> ELSE Bytes(chunks, files)

Sound == \A n \in ChunkNumbers : Len(chunks[n]) = Min({ChunkSize, Max({0, files - n * ChunkSize})})

NewFile == [Closed EXCEPT !.open = TRUE, !.is_dirty = TRUE]

\* mongoc_gridfs_create_file, for the one file of the model.
create_file ==
  /\ CanCall("create") /\ ~file.open /\ calls < MaxCalls /\ files = -1 /\ \A n \in ChunkNumbers : chunks[n] = <<>>
  /\ file' = NewFile /\ content' = <<>> /\ ret' = Nothing
  /\ doing' = NoOperation
  /\ UNCHANGED <<chunks, files, odd, status, calls, faults>>

\* mongoc_gridfs_create_file_from_stream, up to its loop.
create_file_from_stream ==
  /\ CanCall("stream") /\ ~file.open /\ calls < MaxCalls /\ files = -1 /\ \A n \in ChunkNumbers : chunks[n] = <<>>
  /\ \E k \in 0 .. MaxLength : doing' = [NoOperation EXCEPT !.op = "stream", !.stream = k]
  /\ file' = NewFile /\ content' = <<>> /\ ret' = Nothing
  /\ UNCHANGED <<chunks, files, odd, status, calls, faults>>

FoundFile == [Closed EXCEPT !.open = TRUE, !.length = files]

\* mongoc_gridfs_find_one and mongoc_gridfs_file_list_next.  The new handle
\* takes the file for what it is, unless chunks of it are missing.
find_one ==
  /\ CanCall("find") /\ ~file.open /\ files >= 0
  /\ file' = FoundFile
  /\ content' = StoredContent
  /\ odd' = IF Sound THEN {} ELSE {"incomplete"}
  /\ ret' = Nothing /\ doing' = NoOperation
  /\ UNCHANGED <<chunks, files, status, calls, faults>>

\* What was written and not saved is given up.
file_destroy ==
  /\ CanCall("destroy") /\ file.open
  /\ odd' = IF file.is_dirty \/ page_is_dirty(file.page) THEN odd \union {"abandoned"} ELSE odd
  /\ file' = Closed /\ ret' = Nothing
  /\ status' = IF file.page.state = "freed" THEN "freed" ELSE "ok"
  /\ doing' = NoOperation
  /\ UNCHANGED <<chunks, files, content, calls, faults>>

save_file ==
  /\ CanCall("save") /\ file.open
  /\ \E o1, o2, o3 \in Outcomes : LET w == file_save(World, o1, o2, o3) IN
       /\ MayFail(<<o1, o2, o3>>)
       /\ Becomes(w) /\ Returns("save", w.ok, 0)
  /\ status' = IF file.is_dirty /\ file.page.state = "freed" THEN "freed" ELSE "ok"
  /\ doing' = NoOperation
  /\ UNCHANGED <<content, calls>>

readv ==
  /\ CanCall("read") /\ file.open
  /\ \E len \in ReadSizes, min \in {0, MaxLength}, fails \in BOOLEAN :
       /\ doing' = [NoOperation EXCEPT !.op = "read", !.left = len, !.min = min, !.from = file.pos]
       /\ fails => faults < MaxFaults
       /\ IF file.page.state = "none"
          THEN LET r == refresh_page(file, fails) IN
               file' = r.f /\ status' = r.status /\ faults' = faults + (IF fails THEN 1 ELSE 0)
          ELSE ~fails /\ UNCHANGED <<file, status, faults>>
  /\ ret' = Nothing
  /\ UNCHANGED <<chunks, files, content, odd, calls>>

AtEnd(f) == f.length = f.pos

Enough(c) == Len(c.got) >= c.min

\* One turn of the loop of mongoc_gridfs_file_readv.
readv_turn ==
  /\ status = "ok" /\ doing.op = "read"
  /\ IF file.page.state # "live"
     THEN /\ status' = IF file.page.state = "freed" THEN "freed" ELSE "aborted"
          /\ UNCHANGED <<file, doing, ret, odd, faults>>
     ELSE LET bytes == page_read(file.page, doing.left)
              f == [file EXCEPT !.pos = @ + Len(bytes), !.page.off = @ + Len(bytes)]
              c == [doing EXCEPT !.got = @ \o bytes, !.left = @ - Len(bytes)]
          IN IF c.left = 0 \/ AtEnd(f) \/ Enough(c)
             THEN /\ file' = f /\ doing' = [c EXCEPT !.op = "idle"] /\ Returns("read", TRUE, Len(c.got))
                  /\ UNCHANGED <<odd, status, faults>>
             ELSE \E fails \in BOOLEAN : LET r == refresh_page(f, fails) IN
                  /\ fails => faults < MaxFaults
                  /\ file' = r.f /\ status' = r.status /\ doing' = c
                  /\ odd' = odd \union Dropped(f)
                  /\ faults' = faults + (IF fails THEN 1 ELSE 0)
                  /\ UNCHANGED ret
  /\ UNCHANGED <<chunks, files, content, calls>>

writev ==
  /\ CanCall("write") /\ file.open /\ calls < MaxCalls
  /\ \E len \in 1 .. MaxLength - file.pos : doing' = [NoOperation EXCEPT !.op = "write", !.left = len]
  /\ calls' = calls + 1 /\ ret' = Nothing
  /\ UNCHANGED <<file, chunks, files, content, odd, status, faults>>

Overwritten(w) == [p \in 1 .. Max({Len(content), file.pos + w}) |->
  CASE p > file.pos /\ p <= file.pos + w -> calls
    [] p <= file.pos -> IF p <= Len(content) THEN content[p] ELSE 0
    [] OTHER -> content[p]]

\* pos is pushed back for the flush, so that the number is that of the old page.
flush_full(w, o1, o2) == LET d == flush_page([w EXCEPT !.f.pos = @ - 1], o1, o2) IN [d EXCEPT !.f.pos = @ + 1]

\* One turn of the loop of mongoc_gridfs_file_writev.
writev_turn ==
  /\ status = "ok" /\ doing.op = "write"
  /\ \E fails \in BOOLEAN :
       LET r == IF file.page.state = "none" THEN refresh_page(file, fails) ELSE [f |-> file, status |-> "ok"]
           f == r.f
           page == page_write(f.page, calls, doing.left)
           w == page.off - f.page.off
           after == [f EXCEPT !.page = page, !.pos = @ + w, !.length = Max({@, f.pos + w})]
           left == doing.left - w
       IN /\ fails => file.page.state = "none"
          /\ IF r.status # "ok" \/ f.page.state # "live"
             THEN /\ status' = IF r.status # "ok" THEN r.status
                              ELSE IF f.page.state = "freed" THEN "freed" ELSE "aborted"
                  /\ faults' = faults + (IF fails THEN 1 ELSE 0) /\ faults' <= MaxFaults
                  /\ file' = f
                  /\ UNCHANGED <<chunks, files, content, doing, ret, odd>>
             ELSE \E o1, o2 \in Outcomes :
                  LET flushed == flush_full([World EXCEPT !.f = after], o1, o2)
                      done == left = 0
                  IN /\ MayFail(<<o1, o2>>) /\ (done => o1 = "ok" /\ o2 = "ok")
                     /\ Becomes(IF done THEN [World EXCEPT !.f = [after EXCEPT !.is_dirty = TRUE]] ELSE flushed)
                     /\ content' = Overwritten(w)
                     /\ doing' = [doing EXCEPT !.left = left, !.op = IF ~done THEN "write" ELSE IF doing.stream >= 0 THEN "stream" ELSE "idle"]
                     /\ IF done /\ doing.stream < 0 THEN Returns("write", TRUE, 0) ELSE UNCHANGED ret
                     /\ UNCHANGED status
  /\ UNCHANGED calls

SameOffset(f, offset) == offset % ChunkSize = f.pos % ChunkSize

\* mongoc_gridfs_file_seek, with the asserts of it and of page_seek.
SeekTo(offset, o1, o2) ==
  LET w == IF SameOffset(file, offset)
           THEN [World EXCEPT !.f.page = page_seek(@, offset % ChunkSize)]
           ELSE IF file.page.state = "none" THEN World
           ELSE IF page_is_dirty(file.page) THEN flush_page(World, o1, o2)
           ELSE [World EXCEPT !.f.page.state = "freed"]
      misplaced == file.page.state = "none" \/ offset % ChunkSize > Len(file.page.data)
  IN /\ status' = IF file.length <= offset THEN "aborted"
                  ELSE IF file.page.state = "freed" THEN "freed"
                  ELSE IF SameOffset(file, offset) /\ misplaced THEN "aborted" ELSE "ok"
     /\ IF status' # "ok" THEN UNCHANGED <<file, chunks, files, odd>>
        ELSE Becomes([w EXCEPT !.f.pos = offset,
                               !.odd = IF w.f.page.state = "live" /\ w.f.page.n * ChunkSize + w.f.page.off # offset
                                       THEN @ \union {"astray"} ELSE @])

SeekTarget(delta, whence) ==
  CASE whence = "set" -> delta
    [] whence = "cur" -> file.pos + delta
    [] whence = "end" -> file.length - 1 + delta

file_seek ==
  /\ CanCall("seek") /\ file.open
  /\ \E whence \in {"set", "cur", "end"}, delta \in -MaxLength .. MaxLength, o1, o2 \in Outcomes :
       /\ SeekTarget(delta, whence) \in 0 .. MaxLength
       /\ MayFail(<<o1, o2>>)
       /\ (SameOffset(file, SeekTarget(delta, whence)) \/ ~page_is_dirty(file.page)) => (o1 = "ok" /\ o2 = "ok")
       /\ SeekTo(SeekTarget(delta, whence), o1, o2)
       /\ Returns("seek", TRUE, CASE whence = "set" -> delta [] whence = "cur" -> file.pos + delta [] whence = "end" -> file.length + delta)
  /\ doing' = NoOperation
  /\ UNCHANGED <<content, calls>>

\* The loop of mongoc_gridfs_create_file_from_stream; it ends with a seek to the start.
stream_turn ==
  /\ status = "ok" /\ doing.op = "stream"
  /\ \/ /\ doing.stream > 0
        /\ LET len == Min({doing.stream, StreamChunk}) IN
           doing' = [doing EXCEPT !.op = "write", !.left = len, !.stream = @ - len]
        /\ calls' = calls + 1
        /\ UNCHANGED <<file, chunks, files, ret, content, odd, status, faults>>
     \/ /\ faults < MaxFaults /\ faults' = faults + 1
        /\ file' = Closed /\ doing' = NoOperation /\ Returns("stream", FALSE, 0)
        /\ odd' = odd \union {"abandoned"}
        /\ UNCHANGED <<chunks, files, content, status, calls>>
     \/ /\ doing.stream = 0
        /\ \E o1, o2 \in Outcomes : MayFail(<<o1, o2>>) /\ SeekTo(0, o1, o2)
        /\ doing' = NoOperation /\ Returns("stream", TRUE, 0)
        /\ UNCHANGED <<content, calls>>

Without(o, gone) == IF Applied(o) THEN gone ELSE chunks

\* mongoc_gridfs_file_remove and mongoc_gridfs_drop: the chunks only after the files document.
files_then_chunks(o1, o2) ==
  /\ files' = IF Applied(o1) THEN -1 ELSE files
  /\ chunks' = IF o1 = "ok" THEN Without(o2, [n \in ChunkNumbers |-> <<>>]) ELSE chunks

file_remove ==
  /\ CanCall("remove") /\ files >= 0
  /\ \E o1, o2 \in Outcomes :
       /\ o1 # "ok" => o2 = "ok"
       /\ MayFail(<<o1, o2>>) /\ files_then_chunks(o1, o2) /\ Returns("remove", o1 = "ok" /\ o2 = "ok", 0)
  /\ odd' = odd \union {"removed"}
  /\ doing' = NoOperation
  /\ UNCHANGED <<file, content, status, calls>>

\* mongoc_gridfs_remove_by_filename: both deletions, whatever became of the first.
remove_by_filename ==
  /\ CanCall("remove") /\ files >= 0
  /\ \E o1, o2 \in Outcomes :
       /\ MayFail(<<o1, o2>>)
       /\ files' = IF Applied(o1) THEN -1 ELSE files
       /\ chunks' = Without(o2, [n \in ChunkNumbers |-> <<>>])
       /\ Returns("remove_by_filename", o1 = "ok" /\ o2 = "ok", 0)
  /\ odd' = odd \union {"removed"}
  /\ doing' = NoOperation
  /\ UNCHANGED <<file, content, status, calls>>

GridfsTurn == readv_turn \/ writev_turn \/ stream_turn

GridfsNext ==
  \/ create_file \/ create_file_from_stream \/ find_one \/ file_destroy
  \/ save_file \/ readv \/ writev \/ file_seek \/ GridfsTurn
  \/ file_remove \/ remove_by_filename

GridfsSpec == GridfsInit /\ [][GridfsNext]_gridfsVars
\* A call runs to its end: nothing in it waits for another thread.
GridfsFairness == WF_gridfsVars(GridfsTurn)

\* The file as the handle sees it, through its page.
Seen == Bytes(IF file.page.state = "live" THEN [chunks EXCEPT ![file.page.n] = file.page.data] ELSE chunks, file.length)

Fine == status = "ok" /\ odd = {}

\* As long as the handle has not slipped, its page laid over the chunks is
\* the file that its writer means: copy on write, partial chunks at the end,
\* flushes that fail and are tried again, and pages that are loaded anew
\* (page_write, flush_page, refresh_page).
SeesItsWrites == (Fine /\ file.open) => Seen = content

\* The page is positioned where pos is (page_seek in refresh_page, the
\* offsets that readv and writev advance beside pos).
PageFollowsPos == (Fine /\ file.page.state = "live") =>
  file.page.n * ChunkSize + file.page.off = file.pos

\* readv returns the bytes of the file from where it stood (the refresh of
\* the page between two chunks, the end of the last chunk).
ReadsContent == Fine => doing.got = SubSeq(content, doing.from + 1, doing.from + Len(doing.got))

\* A readv that returns fewer bytes than asked has the minimum, or is at
\* the end of the file (the three exits of its loop).
ShortReadsExplained == (Fine /\ ret.op = "read" /\ doing.left > 0) => (ret.n >= doing.min \/ file.pos = file.length)

\* A save that returns true has stored the file, unless the handle slipped
\* (mongoc_gridfs_file_save, with the page it flushes).
SaveStores == (Fine /\ ret.op = "save" /\ ret.ok) => StoredContent = content

\* Removing a file takes its chunks only after its files document, so that
\* no document is left whose chunks are gone (mongoc_gridfs_file_remove).
ChunksGoLast == chunks' # chunks /\ ret'.op = "remove" => files' = -1

\* Every call returns, as long as failures are finite (the loop of writev
\* that flushes again, the loop of readv that refreshes its page).
FileCallsReturn == (doing.op # "idle") ~> (doing.op = "idle" \/ status # "ok" \/ odd # {})

\* The page, the position and the file belong together through every series
\* of reads, writes, seeks and flushes.
PageFaithful == SeesItsWrites /\ PageFollowsPos /\ ReadsContent /\ ShortReadsExplained

\* The two collections are in order whenever the client is told so, and while
\* a file is removed.
StoredSafely == [][SaveStores' /\ ChunksGoLast]_gridfsVars
=============================================================================
