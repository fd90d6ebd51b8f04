--------------------------- MODULE MCSymbolLoader ---------------------------
(***************************************************************************)
(* Model-checking instance of the loader: 3-bit addresses (7 plays        *)
(* ULLONG_MAX), files of up to four lines, a bail-out after two errors.   *)
(* The lines cover each branch of LoadMapFromMemory: nested, crossing and *)
(* rejected FUNC ranges, source lines inside and outside their function,  *)
(* PUBLIC at address 0 and repeated, malformed records of each kind.      *)
(***************************************************************************)
EXTENDS SymbolLoader, MCLoaderRecords

=============================================================================
