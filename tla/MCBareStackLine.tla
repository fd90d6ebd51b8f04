--------------------------- MODULE MCBareStackLine ---------------------------
(***************************************************************************)
(* Model-checking instance of the loader with argumentless STACK CFI      *)
(* lines: the records of MCLoaderRecords, any of which may be the line the *)
(* bare STACK CFI line swallows.                                           *)
(***************************************************************************)
EXTENDS BareStackLine, MCLoaderRecords

=============================================================================
