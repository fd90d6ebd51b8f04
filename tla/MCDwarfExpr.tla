---------------------------- MODULE MCDwarfExpr ----------------------------
(***************************************************************************)
(* Model-checking instance of the evaluator: 16-bit words, programs of up  *)
(* to three operations drawn from one representative of every opcode      *)
(* class, operands that hit the sign bit of const1s, the pick bound and a *)
(* negative (wrapping) offset, two registers, a frame base, and memory    *)
(* readable at two addresses, one holding a pointer to the other.         *)
(***************************************************************************)
EXTENDS DwarfExpr

NoArgOps == {DW_OP_reg0, DW_OP_lit0 + 1, DW_OP_deref, DW_OP_dup, DW_OP_drop,
             DW_OP_over, DW_OP_swap, DW_OP_rot, DW_OP_deref_size,
             DW_OP_xderef, 160}                \* 160: an undefined opcode
ArgOps   == {DW_OP_breg0 + 1, DW_OP_fbreg, DW_OP_addr, DW_OP_const1s,
             DW_OP_const2s, DW_OP_const4u, DW_OP_pick}

MCInstrs ==
  {[op |-> o, v1 |-> 0] : o \in NoArgOps}
  \cup {[op |-> o, v1 |-> v] : o \in ArgOps, v \in {0, 1, 255, 65535}}
  \cup {[op |-> DW_OP_regX, v1 |-> 1]}

MCRegs == <<16, 17>>                 \* Regs[0] = 16, Regs[1] = 17
MCRegsFn == [i \in 0 .. 1 |-> MCRegs[i + 1]]
MCMemory == (16 :> 1) @@ (1 :> 65535)

=============================================================================
