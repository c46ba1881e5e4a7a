-------------------------------- MODULE MCData --------------------------------
(* The parts that hold, encode and store documents, in one run: the encoding,  *)
(* the builder, the writer, the matcher, bulk writes and GridFS files.  A      *)
(* behaviour is about one part; the others stay in one of their states (an      *)
(* iterator that has come to the end of an empty document, initial states).     *)
EXTENDS MCBsonFormat, BsonBuilder, BsonWriter, MCMongocMatcher, BulkWrite, GridfsFile

VARIABLE part

FormatStart == /\ tree = <<>> /\ raw = encode(<<>>) /\ it = iter_next(iter_init(raw))
               /\ first = NotVisited /\ again = NotVisited
WriterStart == can = "ok" /\ buflen = 8 /\ start = 0 /\ WriterInit
MatcherStart == query = <<>> /\ document = <<>> /\ MatcherInit
BulkStart ==
  /\ input = [ordered |-> TRUE, ack |-> TRUE, wire |-> "commands", doc |-> 2, room |-> 3,
             client |-> TRUE]
  /\ BulkInit

PartsInit ==
  /\ BuilderInit /\ GridfsInit
  /\ \/ part = "format" /\ FormatInit /\ WriterStart /\ MatcherStart /\ BulkStart
     \/ part = "writer" /\ FormatStart /\ WriterInit /\ MatcherStart /\ BulkStart
     \/ part = "matcher" /\ FormatStart /\ WriterStart /\ MatcherInit /\ BulkStart
     \/ part = "bulk" /\ FormatStart /\ WriterStart /\ MatcherStart /\ BulkInit
     \/ part \in {"builder", "gridfs"} /\ FormatStart /\ WriterStart /\ MatcherStart /\ BulkStart

PartsNext ==
  \/ /\ part = "format" /\ FormatNext
     /\ UNCHANGED <<part, builderVars, writerVars, matcherVars, bulkVars, gridfsVars>>
  \/ /\ part = "builder" /\ BuilderNext
     /\ UNCHANGED <<part, formatVars, writerVars, matcherVars, bulkVars, gridfsVars>>
  \/ /\ part = "writer" /\ WriterNext
     /\ UNCHANGED <<part, formatVars, builderVars, matcherVars, bulkVars, gridfsVars>>
  \/ /\ part = "matcher" /\ MatcherNext
     /\ UNCHANGED <<part, formatVars, builderVars, writerVars, bulkVars, gridfsVars>>
  \/ /\ part = "bulk" /\ BulkNext
     /\ UNCHANGED <<part, formatVars, builderVars, writerVars, matcherVars, gridfsVars>>
  \/ /\ part = "gridfs" /\ GridfsNext
     /\ UNCHANGED <<part, formatVars, builderVars, writerVars, matcherVars, bulkVars>>

PartsSpec ==
  PartsInit /\ [][PartsNext]_<<part, formatVars, builderVars, writerVars, matcherVars,
                               bulkVars, gridfsVars>>
=============================================================================
