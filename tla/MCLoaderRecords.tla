-------------------------- MODULE MCLoaderRecords --------------------------
(***************************************************************************)
(* The symbol-file lines the loader instances draw their files from:      *)
(* nested, crossing and rejected FUNC ranges, source lines inside and     *)
(* outside their function, PUBLIC at address 0 and repeated, malformed    *)
(* records of each kind.                                                   *)
(***************************************************************************)

Rec(k, w, a, s, i) == [kind |-> k, well |-> w, addr |-> a, size |-> s, id |-> i]

MCRecords ==
  { Rec("FUNC", TRUE, 0, 4, 0),      \* FUNC 0 4
    Rec("FUNC", TRUE, 2, 1, 0),      \* nested in FUNC 0 4
    Rec("FUNC", TRUE, 3, 2, 0),      \* crosses FUNC 0 4
    Rec("FUNC", TRUE, 7, 1, 0),      \* address ULLONG_MAX
    Rec("FUNC", FALSE, 0, 4, 0),     \* malformed FUNC
    Rec("LINE", TRUE, 0, 2, 1),
    Rec("LINE", TRUE, 5, 1, 1),      \* outside FUNC 0 4
    Rec("LINE", FALSE, 1, 1, 1),     \* malformed line or unknown prefix
    Rec("PUBLIC", TRUE, 0, 0, 0),    \* dropped silently
    Rec("PUBLIC", TRUE, 5, 0, 0),
    Rec("PUBLIC", FALSE, 5, 0, 0),
    Rec("FILE", TRUE, 0, 0, 1),
    Rec("FILE", FALSE, 0, 0, 1),
    Rec("STACK_OTHER", TRUE, 0, 0, 0),
    Rec("MODULE", TRUE, 0, 0, 0) }

=============================================================================
