---------------------------- MODULE MCFuncParams ----------------------------
(***************************************************************************)
(* Model-checking instance of parameter recovery: words of four 4-bit     *)
(* bytes, a six-byte memory region at address 4 whose word at 6 points to *)
(* 4, and FUNC records of up to three descriptors.  The descriptors cover *)
(* each branch: unsized, a location evaluating to 0, an unreadable word,  *)
(* a masked integer, a float, a pointer, odd and larger-than-a-word sizes *)
(* whose dump runs past the region, the three malformed shapes            *)
(* ParseFuncParam distinguishes, and location programs that deref a       *)
(* pointer, an unreadable word or an empty stack, drop, or use an        *)
(* undefined opcode.                                                       *)
(***************************************************************************)
EXTENDS FuncParams

DW_OP_addr == 3    DW_OP_deref == 6    DW_OP_drop == 19    DW_OP_lit0 == 48

I(op, v1) == [op |-> op, v1 |-> v1]

At4     == <<I(DW_OP_addr, 4)>>
At6     == <<I(DW_OP_addr, 6)>>
At8     == <<I(DW_OP_addr, 8)>>
Zero    == <<I(DW_OP_lit0, 0)>>
Chase   == <<I(DW_OP_addr, 6), I(DW_OP_deref, 0)>>   \* the word at 6: 4
Underflow == <<I(DW_OP_deref, 0)>>                   \* deref of an empty stack
BadPtr  == <<I(DW_OP_addr, 8), I(DW_OP_deref, 0)>>   \* deref of an unreadable word
Dropped == <<I(DW_OP_addr, 6), I(DW_OP_drop, 0)>>    \* 6 in the code, 0 in the spec
Unknown == <<I(160, 0)>>                             \* an undefined opcode: val

MCInstrs ==
  {I(DW_OP_addr, 4), I(DW_OP_addr, 6), I(DW_OP_addr, 8), I(DW_OP_lit0, 0),
   I(DW_OP_deref, 0), I(DW_OP_drop, 0), I(160, 0)}

D(at, l, s, c, p) == [at |-> at, locs |-> l, typeSize |-> s, cls |-> c, loc |-> p]

MCDescriptors ==
  { D(TRUE, "ok", 2, "integer", At4),     \* masked to two bytes
    D(TRUE, "ok", 4, "float", At6),       \* low half of the word at 6
    D(TRUE, "ok", 6, "pointer", At4),     \* no typed value; dump 4 .. 9
    D(TRUE, "ok", 6, "integer", At6),     \* dump 6 .. 11 runs past the region
    D(TRUE, "ok", 3, "integer", Chase),   \* odd size: dump only
    D(TRUE, "ok", 0, "integer", At4),     \* unsized
    D(TRUE, "ok", 2, "integer", Zero),    \* location evaluates to 0
    D(TRUE, "ok", 2, "integer", Underflow), \* evaluation fails
    D(TRUE, "ok", 2, "integer", BadPtr),  \* the deref's read fails: skipped
    D(TRUE, "ok", 4, "pointer", At8),     \* the word at 8 is not readable
    D(TRUE, "ok", 2, "integer", Dropped), \* stack operation: stale val
    D(TRUE, "ok", 4, "pointer", Unknown), \* uninitialised val
    D(FALSE, "ok", 2, "integer", At4),    \* fewer than four '@' fields
    D(TRUE, "empty", 2, "integer", <<>>), \* empty location expression
    D(TRUE, "bad", 2, "integer", <<>>) }  \* non-hex opcode

MCMemBytes == <<1, 2, 4, 0, 0, 0>>   \* bytes 4 .. 9

MCRegs == [r \in {0} |-> 0]

=============================================================================
