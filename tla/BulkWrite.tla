-------------------------------- MODULE BulkWrite --------------------------------
(***************************************************************************)
(* mongoc_bulk_operation_t and the write commands that it executes: inserts *)
(* that follow each other are merged, split again into messages, sent as    *)
(* write commands or as legacy opcodes with getlasterror, and their replies *)
(* are merged into one result.                                              *)
(*                                                                          *)
(* An operation is named for what the server makes of it; "large" is an      *)
(* insert of a document longer than any message.  The other documents are   *)
(* as long as each other.  A message may be lost, before or after the server *)
(* has executed it.                                                         *)
(***************************************************************************)
EXTENDS Integers, Sequences, FiniteSets, FiniteSetsExt

CONSTANTS
  Kinds,        \* the operations that are tried
  Wires,        \* what nodes understand: "legacy", "both" or "commands"
  Deliveries,     \* what happens to a message
  DocRooms,     \* documents that max_bson_size leaves room for
  Rooms,        \* documents that max_msg_size leaves room for, beside the header
  MaxBatch,     \* MAX_INSERT_BATCH, 1000
  MaxCommands,  \* bound: n_commands above it are not told apart
  MaxOps        \* bound: operations in a bulk operation

ASSUME BulkAssumption ==
  /\ Kinds \subseteq {"insert", "duplicate", "large", "update", "updateTwo", "upsert", "updateFails",
                      "remove", "removeTwo"}
  /\ Deliveries \subseteq {"replied", "lost", "unsent", "refused"}
  /\ DocRooms \subseteq Nat /\ Rooms \subseteq Nat /\ MaxBatch \in Nat \ {0}
  /\ MaxCommands \in Nat

VARIABLES
  ops,        \* the operations that were added
  commands,   \* bulk->commands
  input,      \* ordered, acknowledged, wire version, DocRooms, Rooms, client set
  phase,      \* "build", "run" or "done"
  cur,        \* the command being executed
  pos,        \* the documents of it that were sent
  sent,       \* the operations in the order in which the client tried to send them
  applied,    \* server: the operations that took effect
  refused,    \* server: the operations that failed
  result,     \* bulk->result
  trouble,    \* a message was lost, refused or too large to be sent
  returned    \* what execute reported: success, an error, an initialized reply

bulkVars == <<ops, commands, input, phase, cur, pos, sent, applied, refused, result, trouble, returned>>

Type(kind) ==
  CASE kind \in {"insert", "duplicate", "large"} -> "insert"
    [] kind \in {"update", "updateTwo", "upsert", "updateFails"} -> "update"
    [] kind \in {"remove", "removeTwo"} -> "delete"

Fails(kind) == kind \in {"duplicate", "updateFails"}

\* How many documents the server reports.
Affected(kind) ==
  CASE Fails(kind) -> 0
    [] kind \in {"updateTwo", "removeTwo"} -> 2
    [] OTHER -> 1

\* The documents that these operations insert, match or remove.
AffectedBy(set) == Cardinality({doc \in set \X (1..2) : doc[2] <= Affected(ops[doc[1]])})

NoResult ==
  [failed |-> FALSE, error |-> FALSE, nInserted |-> 0, nMatched |-> 0, nUpserted |-> 0, nRemoved |-> 0,
   offset |-> 0, n_commands |-> 0, writeErrors |-> <<>>, upserted |-> <<>>]
NotReturned == [success |-> FALSE, error |-> FALSE, reply |-> FALSE]

BulkInit ==
  /\ ops = <<>> /\ commands = <<>>
  /\ input \in [ordered: BOOLEAN, ack: BOOLEAN, wire: Wires, doc: DocRooms, room: Rooms,
               client: BOOLEAN]
  /\ phase = "build" /\ cur = 1 /\ pos = 0
  /\ sent = <<>> /\ applied = {} /\ refused = {}
  /\ result = NoResult /\ trouble = FALSE /\ returned = NotReturned

-----------------------------------------------------------------------------
(* Adding operations.                                                        *)

Added(kind, cs) ==
  /\ phase = "build" /\ Len(ops) < MaxOps
  /\ ops' = Append(ops, kind) /\ commands' = cs
  /\ UNCHANGED <<input, phase, cur, pos, sent, applied, refused, result, trouble, returned>>

Command(type) == [type |-> type, first |-> Len(ops) + 1, n |-> 1, n_merged |-> 0]

\* _mongoc_write_command_insert_append
insert_append(c) == [c EXCEPT !.n = @ + 1, !.n_merged = @ + 1]

\* mongoc_bulk_operation_insert: joins the insert before it.
bulk_insert(kind) ==
  /\ Type(kind) = "insert"
  /\ LET n == Len(commands)
     IN  Added(kind, IF n > 0 /\ commands[n].type = "insert"
                     THEN [commands EXCEPT ![n] = insert_append(@)]
                     ELSE Append(commands, Command("insert")))

\* mongoc_bulk_operation_update, update_one and replace_one.
bulk_update(kind) == Type(kind) = "update" /\ Added(kind, Append(commands, Command("update")))

\* mongoc_bulk_operation_remove, remove_one, delete and delete_one.
bulk_remove(kind) == Type(kind) = "delete" /\ Added(kind, Append(commands, Command("delete")))

-----------------------------------------------------------------------------
(* The server.                                                               *)

\* It executes the operations of one message; in order, it stops at the first
\* that fails.
Executed(msg) ==
  LET bad == {i \in msg : Fails(ops[i])}
      tried == IF input.ordered /\ bad # {} THEN {i \in msg : i <= Min(bad)} ELSE msg
  IN  [done |-> tried \ bad, bad |-> tried \cap bad]

\* The reply to a write command.
Reply(first, ex) ==
  [n |-> AffectedBy(ex.done),
   up |-> Cardinality({i \in ex.done : ops[i] = "upsert"}),
   errs |-> [k \in 1..Cardinality(ex.bad) |->
               (CHOOSE i \in ex.bad : Cardinality({j \in ex.bad : j <= i}) = k) - first]]
NoReply == [n |-> 0, up |-> 0, errs |-> <<>>]

-----------------------------------------------------------------------------
(* Merging replies into the result.                                          *)

Count(r, type, n, up, matched) ==
  [r EXCEPT !.nInserted = IF type = "insert" THEN @ + n ELSE @,
            !.nRemoved = IF type = "delete" THEN @ + n ELSE @,
            !.nUpserted = IF type = "update" THEN @ + up ELSE @,
            !.nMatched = IF type = "update" THEN @ + matched ELSE @,
            !.upserted = IF type = "update" THEN @ \o [k \in 1..up |-> r.n_commands] ELSE @]

\* _mongoc_write_result_merge_arrays
merge_arrays(r, errs) == [r EXCEPT !.writeErrors = @ \o [k \in 1..Len(errs) |-> errs[k] + r.offset]]

Onward(r, c, by) ==
  [r EXCEPT !.offset = @ + by,
            !.n_commands = Min({MaxCommands, @ + 1 + (IF c.type = "insert" THEN c.n_merged ELSE 0)})]

\* _mongoc_write_result_merge
result_merge(r, c, rep, current_n_documents) ==
  LET counted == Count(r, c.type, rep.n, rep.up, IF rep.n > rep.up THEN rep.n - rep.up ELSE 0)
      failed == [counted EXCEPT !.failed = @ \/ rep.errs # <<>>]
  IN  Onward(merge_arrays(failed, rep.errs), c,
             IF c.type = "insert" THEN current_n_documents ELSE rep.n)

\* _mongoc_write_result_merge_legacy
merge_legacy(r, c, rep, current_n_documents) ==
  LET counted == Count(r, c.type, rep.n, rep.up, IF rep.up > 0 THEN 0 ELSE rep.n)
      err == rep.errs # <<>>
      failed == [counted EXCEPT !.failed = @ \/ err, !.error = @ \/ err]
  IN  Onward(IF err THEN merge_arrays(failed, <<0>>) ELSE failed, c,
             IF c.type = "insert" THEN current_n_documents ELSE 1)

-----------------------------------------------------------------------------
(* Executing one message of the current command.                             *)

Cmd == commands[cur]

\* Without acknowledgement a node that still understands them gets the legacy
\* opcodes (gWriteOps, min_wire_version).
IsLegacy == input.wire = "legacy" \/ (input.wire = "both" /\ ~input.ack)

BulkFailure(r) == [r EXCEPT !.failed = TRUE, !.error = TRUE]

\* Mutant: the document that did not fit is skipped.
SkipsOne(k) ==
  [msg |-> (Cmd.first + pos)..(Cmd.first + pos + k - 1),
   next |-> pos + k + (IF pos + k < Cmd.n THEN 1 ELSE 0), i |-> k, more |-> pos + k < Cmd.n]

\* A message with the next k documents of an insert.
Taken(k) ==
  [msg |-> (Cmd.first + pos)..(Cmd.first + pos + k - 1),
   next |-> pos + k, i |-> k, more |-> pos + k < Cmd.n]

\* The loops over documents: the first that is not taken, or the end.
TakenUntil(Stops(_)) == Taken(Min({k \in 0..(Cmd.n - pos) : k = Cmd.n - pos \/ Stops(k)}))

Document(k) == ops[Cmd.first + pos + k]

Whole == [msg |-> Cmd.first..(Cmd.first + Cmd.n - 1), next |-> Cmd.n, i |-> 0, more |-> FALSE]

\* All documents together are short enough: they are appended at once, and none
\* is counted.
AtOnce ==
  /\ Cmd.n <= MaxBatch /\ Cmd.n <= input.doc /\ Cmd.n <= input.room
  /\ \A i \in Cmd.first..(Cmd.first + Cmd.n - 1) : ops[i] # "large"

\* _mongoc_write_command_insert.  The length of the command does not grow while
\* its array is open, so that each document is compared with the room of an
\* empty message: a message is full at MAX_INSERT_BATCH documents or before one
\* that fits in no message.
insert_message ==
  IF AtOnce THEN Whole
  ELSE TakenUntil(LAMBDA k : k = MaxBatch \/ input.room = 0 \/ Document(k) = "large")

\* _mongoc_write_command_insert_legacy adds up the lengths.  The room for a
\* document longer than a message wraps around to a large number, and it is
\* taken.
legacy_message ==
  LET max_docs == IF input.ordered \/ input.ack THEN 1 ELSE MaxBatch
  IN  TakenUntil(LAMBDA k : \/ k = max_docs
                           \/ /\ Document(k) # "large"
                              /\ k >= input.room \/ \E j \in 0..(k - 1) : Document(j) = "large")

Message ==
  IF Cmd.type # "insert" THEN Whole
  ELSE IF IsLegacy THEN legacy_message ELSE insert_message

\* What may come of a message.  mongoc_cluster_sendv refuses one larger than
\* max_msg_size and the server a write command without operations; a command
\* larger than max_bson_size it may refuse.
OutcomesOf(msg) ==
  LET n == Cardinality(msg.msg)
  IN  IF Cmd.type = "insert" /\ (n > input.room \/ \E i \in msg.msg : ops[i] = "large") THEN {"unsent"}
      ELSE IF n = 0 /\ ~IsLegacy THEN {"refused"}
      ELSE {outcome \in Deliveries : \/ trouble => outcome = "replied"
                                     \/ n > input.doc /\ ~IsLegacy /\ outcome = "refused"}

ReplySeen(msg, outcome) ==
  LET ex == Executed(msg.msg)
      reached == outcome \in {"replied", "lost"} \/ (IsLegacy /\ outcome = "refused")
  IN  /\ sent' = sent \o [k \in 1..Cardinality(msg.msg) |-> Min(msg.msg) + k - 1]
      /\ applied' = IF reached THEN applied \cup ex.done ELSE applied
      /\ refused' = IF reached THEN refused \cup ex.bad ELSE refused
      /\ trouble' = (trouble \/ outcome # "replied")

\* _mongoc_write_command_delete, _insert and _update: {ok: 0} and a lost reply
\* are failures of mongoc_client_command_simple.
write_command(msg, outcome) ==
  LET ok == outcome = "replied"
      rep == IF ok THEN Reply(Min(msg.msg), Executed(msg.msg)) ELSE NoReply
  IN  [r |-> result_merge(IF ok THEN result ELSE BulkFailure(result), Cmd, rep, msg.i),
       again |-> msg.more /\ (ok \/ ~input.ordered)]

\* _mongoc_client_recv_gle: a reply of {ok: 0} sets the error and is a success.
recv_gle(outcome) == outcome \in {"replied", "refused"}

\* getlasterror reports 0 for an insert, which is overwritten with the number of
\* documents in the message.
gle_reply(msg) ==
  LET rep == Reply(Min(msg.msg), Executed(msg.msg))
  IN  IF Cmd.type = "insert" THEN [rep EXCEPT !.n = msg.i] ELSE rep

\* The legacy opcodes: the reply to getlasterror is read if there is one.
legacy_command(msg, outcome) ==
  LET rep == gle_reply(msg)
      r == CASE outcome = "unsent" -> BulkFailure(result)
             [] outcome # "unsent" /\ ~input.ack -> result
             [] input.ack /\ ~recv_gle(outcome) /\ outcome # "unsent" -> BulkFailure(result)
             [] input.ack /\ outcome = "refused" ->
                  merge_legacy([result EXCEPT !.error = TRUE], Cmd, NoReply, msg.i)
             [] input.ack /\ outcome = "replied" -> merge_legacy(result, Cmd, rep, msg.i)
  IN  [r |-> r, again |-> msg.more]

\* mongoc_bulk_operation_execute stops after a command that failed.
stops(r) == r.failed /\ input.ordered

\* One message of mongoc_bulk_operation_execute, with _mongoc_write_command_execute.
execute_step ==
  /\ phase = "run" /\ cur <= Len(commands)
  /\ \E outcome \in OutcomesOf(Message) :
       LET msg == Message
           x == IF IsLegacy THEN legacy_command(msg, outcome) ELSE write_command(msg, outcome)
       IN  /\ ReplySeen(msg, outcome)
           /\ result' = x.r
           /\ pos' = IF x.again THEN msg.next ELSE 0
           /\ cur' = IF x.again THEN cur ELSE IF stops(x.r) THEN Len(commands) + 1 ELSE cur + 1
  /\ UNCHANGED <<ops, commands, input, phase, returned>>

\* Mutant: only write errors count.
CompleteUnlessErrors(r) ==
  [success |-> r.writeErrors = <<>>, error |-> r.writeErrors # <<>>, reply |-> TRUE]

\* _mongoc_write_result_complete; an error is made of the first write error.
result_complete(r) ==
  LET ret == ~r.failed /\ r.writeErrors = <<>>
  IN  [success |-> ret, error |-> r.error \/ (~ret /\ r.writeErrors # <<>>), reply |-> TRUE]

\* mongoc_bulk_operation_execute: the checks before the first command.
execute ==
  /\ phase = "build"
  /\ IF ~input.client THEN phase' = "done" /\ returned' = [success |-> FALSE, error |-> TRUE, reply |-> FALSE]
     ELSE IF commands = <<>>
          THEN phase' = "done" /\ returned' = [success |-> FALSE, error |-> TRUE, reply |-> TRUE]
          ELSE phase' = "run" /\ UNCHANGED returned
  /\ UNCHANGED <<ops, commands, input, cur, pos, sent, applied, refused, result, trouble>>

execute_end ==
  /\ phase = "run" /\ cur > Len(commands)
  /\ phase' = "done" /\ returned' = result_complete(result)
  /\ UNCHANGED <<ops, commands, input, cur, pos, sent, applied, refused, result, trouble>>

BulkNext ==
  \/ \E kind \in Kinds : bulk_insert(kind) \/ bulk_update(kind) \/ bulk_remove(kind)
  \/ execute \/ execute_step \/ execute_end

BulkSpec == BulkInit /\ [][BulkNext]_bulkVars

-----------------------------------------------------------------------------

Done == phase = "done" /\ input.client /\ ops # <<>>
Of(type) == {i \in applied : Type(ops[i]) = type}

\* The client tries to send the operations in the order in which they were
\* added, each once and none left out between two of them, wherever a message
\* was full and whatever became of it.
SentInOrder == sent = [k \in 1..Len(sent) |-> k]

\* Unless it failed in order, an execution that returns has tried to send every
\* operation (bulk.page: "Any errors that occur are reported after all operations
\* are attempted"), and every one was executed if no message was lost, refused
\* or too large.  One does not return: an unordered insert, and an ordered
\* legacy one, repeats an empty message for a document that fits in none.
AllTried ==
  Done =>
    /\ ~input.ordered \/ ~result.failed => Len(sent) = Len(ops)
    /\ ~trouble /\ (~input.ordered \/ refused = {}) => applied \cup refused = 1..Len(ops)

\* Success is reported only if every operation took effect, when the node
\* understands write commands.
SuccessMeansAll == Done /\ ~IsLegacy /\ returned.success => applied = 1..Len(ops)

\* A failure comes with an error (mongoc_bulk_operation_execute.page: "otherwise
\* 0 and error is set").
FailureHasError == phase = "done" /\ ~returned.success => returned.error

\* After a command that failed no later command is executed, if ordered.
CommandsStop ==
  input.ordered /\ ~IsLegacy =>
    \A c, d \in 1..Len(commands) :
      c < d /\ refused \cap (commands[c].first..(commands[c].first + commands[c].n - 1)) # {} =>
        applied \cap (commands[d].first..(commands[d].first + commands[d].n - 1)) = {}

\* The counts of the result are those of the server, for write commands.
CountsExact ==
  Done /\ ~IsLegacy /\ ~trouble =>
    /\ result.nInserted = Cardinality(Of("insert"))
    /\ result.nRemoved = AffectedBy(Of("delete"))
    /\ result.nUpserted = Cardinality({i \in applied : ops[i] = "upsert"})
    /\ result.nMatched + result.nUpserted = AffectedBy(Of("update"))

\* What reaches the server: every operation that ordered allows, in order.
SentOnceInOrder == SentInOrder /\ AllTried /\ CommandsStop

\* What the caller is told: success, errors and counts as on the server.
OutcomeHonest == SuccessMeansAll /\ FailureHasError /\ CountsExact
=============================================================================
