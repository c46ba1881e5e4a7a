------------------------------ MODULE Documents ------------------------------
(* What the cursor and the column loaders share: the BSON documents.  Their *)
(* content matters only to ColumnData, which says what each column finds.   *)

CONSTANTS
  Doc,    \* the documents that can be in the collection
  NoDoc   \* the NULL that mongoc_cursor_next leaves in *bson

ASSUME NoDocIsNoDocument == NoDoc \notin Doc
=============================================================================
