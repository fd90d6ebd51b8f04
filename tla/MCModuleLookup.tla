--------------------------- MODULE MCModuleLookup ---------------------------
(***************************************************************************)
(* Model-checking instance of LookupAddress: 3-bit addresses, files of up *)
(* to four lines drawn from FUNC, line, PUBLIC and FILE records placed so  *)
(* that functions nest and abut, PUBLIC symbols fall inside, between and   *)
(* after functions, and a line may name a known or an unknown file id.    *)
(* For the frame-info queries FRAME_DATA and FPO records overlap so that  *)
(* the preference order decides, and a crossing FRAME_DATA record is     *)
(* dropped by StoreRange; CFI INIT ranges nest and abut, and delta        *)
(* records fall at an INIT base, inside a nested INIT range and past it,  *)
(* and may repeat an address.                                              *)
(***************************************************************************)
EXTENDS FrameInfo

Rec(k, w, a, s, i) == [kind |-> k, well |-> w, addr |-> a, size |-> s, id |-> i]

MCRecords ==
  { Rec("FUNC", TRUE, 0, 4, 0),      \* FUNC [0, 4)
    Rec("FUNC", TRUE, 1, 1, 0),      \* FUNC [1, 2), nested
    Rec("FUNC", TRUE, 4, 4, 0),      \* FUNC [4, 8): abuts [0, 4), ends at the top
    Rec("LINE", TRUE, 0, 2, 1),
    Rec("LINE", TRUE, 1, 1, 2),      \* file id 2 has no FILE record
    Rec("PUBLIC", TRUE, 2, 0, 0),
    Rec("PUBLIC", TRUE, 1, 0, 0),    \* at the base of FUNC [1, 2)
    Rec("PUBLIC", TRUE, 6, 0, 0),
    Rec("FILE", TRUE, 0, 0, 1),
    Rec("STACK_WIN", TRUE, 0, 2, 4),        \* FRAME_DATA [0, 2)
    Rec("STACK_WIN", TRUE, 1, 2, 4),        \* FRAME_DATA [1, 3): crosses [0, 2)
    Rec("STACK_WIN", TRUE, 0, 4, 0),        \* FPO [0, 4)
    Rec("FUNC", TRUE, 2, 4, 3),             \* FUNC [2, 6), stack_param_size 3
    Rec("FUNC", TRUE, 6, 1, 1),             \* FUNC [6, 7): 7 is past it
    Rec("STACK_CFI_INIT", TRUE, 0, 4, 0),   \* INIT [0, 4)
    Rec("STACK_CFI_INIT", TRUE, 1, 2, 0),   \* INIT [1, 3), nested
    Rec("STACK_CFI_INIT", TRUE, 4, 3, 0),   \* INIT [4, 7)
    Rec("STACK_CFI", TRUE, 1, 0, 0),        \* delta at 1
    Rec("STACK_CFI", TRUE, 3, 0, 0),        \* delta at 3, past INIT [1, 3)
    Rec("STACK_CFI", TRUE, 5, 0, 0),        \* delta at 5
    Rec("STACK_CFI", FALSE, 2, 0, 0) }      \* delta without rules

=============================================================================
