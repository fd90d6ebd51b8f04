------------------------------ MODULE DwarfExpr ------------------------------
(***************************************************************************)
(* EvaluateDwarfExpression: the stack machine that computes a parameter's *)
(* effective address from its location program.  One step executes one    *)
(* ArgLocInfo, including the push_back(val) that ends every loop           *)
(* iteration; a "return 0" ends the evaluation with result 0.              *)
(*                                                                         *)
(* The program is generated as it is executed (each step picks the next   *)
(* operation from Instrs), which covers every program of up to MaxProg    *)
(* operations.  Values are words of WordBits bits; the frame's registers, *)
(* its frame base and the readable memory are constants.  val is read     *)
(* before it is written when the first operation pushes without setting   *)
(* it: an uninitialised local, any value of Garbage.                       *)
(***************************************************************************)
EXTENDS Naturals, Sequences, SequencesExt

CONSTANTS
  WordBits,   \* bits of a uint64_t in the model
  Instrs,     \* the ArgLocInfo records [op, v1] a program is built from
  MaxProg,    \* bound on the program length
  Regs,       \* frame->GetRegValue: register index -> value
  FrameBase,  \* frame->GetFrameBase()
  Memory,     \* memory->GetMemoryAtAddress: readable address -> value
  Garbage     \* the values an uninitialised uint64_t may hold

WordLimit == 2 ^ WordBits
Word      == 0 .. WordLimit - 1

ASSUME /\ Instrs \subseteq [op : 0 .. 255, v1 : Word]
       /\ Regs \in [DOMAIN Regs -> Word] /\ FrameBase \in Word
       /\ Memory \in [DOMAIN Memory -> Word] /\ Garbage \subseteq Word

(* DWARF opcodes used by the evaluator (dwarf2enums.h).                   *)
DW_OP_addr == 3       DW_OP_deref == 6
DW_OP_const1u == 8    DW_OP_const1s == 9    DW_OP_const2u == 10
DW_OP_const2s == 11   DW_OP_const4u == 12   DW_OP_const4s == 13
DW_OP_const8u == 14   DW_OP_const8s == 15   DW_OP_dup == 18
DW_OP_drop == 19      DW_OP_over == 20      DW_OP_pick == 21
DW_OP_swap == 22      DW_OP_rot == 23       DW_OP_xderef == 24
DW_OP_lit0 == 48      DW_OP_lit31 == 79     DW_OP_reg0 == 80
DW_OP_reg31 == 111    DW_OP_breg0 == 112    DW_OP_breg31 == 143
DW_OP_regX == 144     DW_OP_fbreg == 145    DW_OP_deref_size == 148
DW_OP_xderef_size == 149

(* Two's-complement view of a word: the (long long) casts.                *)
(* Adding the signed values of two words wraps like the unsigned sum.    *)
WrapAdd(x, y) == (x + y) % WordLimit

(* Mutant: the sign bit is taken one bit too high.                         *)
SignExtendOffByOne(v, b) ==
  LET low == v % (2 ^ b) IN
  IF b >= WordBits THEN v
  ELSE IF low >= 2 ^ b THEN low + WordLimit - 2 ^ b ELSE low

(* (uint64_t)(T)(v & mask): sign-extend the low b bits of v.              *)
SignExtend(v, b) ==
  LET low == v % (2 ^ b) IN
  IF b >= WordBits THEN v
  ELSE IF low >= 2 ^ (b - 1) THEN low + WordLimit - 2 ^ b ELSE low

VARIABLES
  prog,     \* the operations executed so far
  s,        \* the value stack (vector<uint64_t> s)
  val,      \* the local val, pushed at the end of every iteration
  result    \* the returned value, or NotDone

vars == <<prog, s, val, result>>

NotDone == -1

Init ==
  /\ prog = <<>>
  /\ s = <<>>
  /\ val \in Garbage
  /\ result = NotDone

(* One loop iteration on operation ai that ends in s.push_back(val').     *)
Push(ai, v) ==
  /\ result = NotDone
  /\ Len(prog) < MaxProg
  /\ prog' = Append(prog, ai)
  /\ val' = v
  /\ result' = NotDone

(* An iteration that pushes back extra first, then val (unchanged).       *)
PushAfter(ai, extra) ==
  /\ Push(ai, val)
  /\ s' = extra \o <<val>>

(* An iteration that returns 0.                                           *)
Fail(ai) ==
  /\ result = NotDone
  /\ Len(prog) < MaxProg
  /\ prog' = Append(prog, ai)
  /\ result' = 0
  /\ UNCHANGED <<s, val>>

(* reg0..reg31, regX, breg0..breg31, fbreg, addr, lit0..lit31, const*:    *)
(* the branches that compute val, pushed at the end of the iteration.     *)
ValueOp(ai) ==
  LET op == ai.op
      v ==
        CASE op >= DW_OP_reg0 /\ op <= DW_OP_reg31 -> Regs[op - DW_OP_reg0]
          [] op = DW_OP_fbreg -> WrapAdd(FrameBase, ai.v1)
          [] op = DW_OP_addr -> ai.v1
          [] op = DW_OP_regX -> Regs[ai.v1]
          [] op >= DW_OP_breg0 /\ op <= DW_OP_breg31 ->
               WrapAdd(Regs[op - DW_OP_breg0], ai.v1)
          [] op >= DW_OP_lit0 /\ op <= DW_OP_lit31 -> op - DW_OP_lit0
          [] op \in {DW_OP_const1u, DW_OP_const2u, DW_OP_const4u,
                     DW_OP_const8u, DW_OP_const8s} -> ai.v1
          [] op = DW_OP_const1s -> SignExtend(ai.v1, 8)
          [] op = DW_OP_const2s -> SignExtend(ai.v1, 16)
          [] op = DW_OP_const4s -> SignExtend(ai.v1, 32)
  IN /\ \/ op >= DW_OP_reg0 /\ op <= DW_OP_breg31
        \/ op \in {DW_OP_fbreg, DW_OP_addr, DW_OP_regX, DW_OP_const1u,
                   DW_OP_const2u, DW_OP_const4u, DW_OP_const8u,
                   DW_OP_const8s, DW_OP_const1s, DW_OP_const2s,
                   DW_OP_const4s}
        \/ op >= DW_OP_lit0 /\ op <= DW_OP_lit31
     /\ Push(ai, v)
     /\ s' = Append(s, v)

(* deref: pop an address and push the word read there; an empty stack or *)
(* an unreadable address returns 0.                                       *)
Deref(ai) ==
  /\ ai.op = DW_OP_deref
  /\ IF s = <<>> \/ Last(s) \notin DOMAIN Memory
     THEN Fail(ai)
     ELSE /\ Push(ai, Memory[Last(s)])
          /\ s' = Append(Front(s), Memory[Last(s)])

(* dup, drop, pick, over, swap, rot: each rearranges the stack, then the  *)
(* iteration's push_back(val) pushes val as well.                         *)
StackOp(ai) ==
  LET n == Len(s) IN
  CASE ai.op = DW_OP_dup ->
         IF n = 0 THEN Fail(ai) ELSE PushAfter(ai, Append(s, s[n]))
    [] ai.op = DW_OP_drop ->
         IF n = 0 THEN Fail(ai) ELSE PushAfter(ai, Front(s))
    [] ai.op = DW_OP_pick ->
         IF n = 0 \/ n - 1 < ai.v1 THEN Fail(ai)
         ELSE PushAfter(ai, Append(s, s[n - ai.v1]))
    [] ai.op = DW_OP_over ->
         IF n < 2 THEN Fail(ai) ELSE PushAfter(ai, Append(s, s[n - 1]))
    [] ai.op = DW_OP_swap ->
         IF n < 2 THEN Fail(ai)
         ELSE PushAfter(ai, [s EXCEPT ![n] = s[n - 1], ![n - 1] = s[n]])
    [] ai.op = DW_OP_rot ->
         IF n < 3 THEN Fail(ai)
         ELSE PushAfter(ai, [s EXCEPT ![n] = s[n - 1], ![n - 1] = s[n - 2],
                                     ![n - 2] = s[n]])

(* deref_size, xderef, xderef_size: not implemented, return 0.            *)
Unsupported(ai) ==
  /\ ai.op \in {DW_OP_deref_size, DW_OP_xderef, DW_OP_xderef_size}
  /\ Fail(ai)

(* Any other opcode matches no branch: only push_back(val) runs.          *)
KnownOps ==
  (DW_OP_reg0 .. DW_OP_fbreg) \cup (DW_OP_lit0 .. DW_OP_lit31)
  \cup {DW_OP_addr, DW_OP_deref, DW_OP_deref_size, DW_OP_xderef_size}
  \cup (DW_OP_const1u .. DW_OP_const8s) \cup (DW_OP_dup .. DW_OP_xderef)

UnknownOp(ai) ==
  /\ ai.op \notin KnownOps
  /\ PushAfter(ai, s)

(* The loop ends: the top of the stack, or 0 for an empty stack.          *)
Return ==
  /\ result = NotDone
  /\ result' = IF s = <<>> THEN 0 ELSE Last(s)
  /\ UNCHANGED <<prog, s, val>>

(* One iteration of the loop over the program, on operation ai.          *)
Execute(ai) ==
  \/ ValueOp(ai)
  \/ Deref(ai)
  \/ ai.op \in DW_OP_dup .. DW_OP_rot /\ StackOp(ai)
  \/ Unsupported(ai)
  \/ UnknownOp(ai)

Next == (\E ai \in Instrs : Execute(ai)) \/ Return

Spec == Init /\ [][Next]_vars

-----------------------------------------------------------------------------
(***************************************************************************)
(* Properties: the step machine against the reference evaluator.          *)
(***************************************************************************)
Ref == INSTANCE DwarfExprSpec

StackManipOps == DW_OP_dup .. DW_OP_rot

(* A program of supported pushing operations, deref and the unsupported   *)
(* ones evaluates to the value the spec's stack machine gives it: the     *)
(* signed casts, the register and frame-base offsets, the deref of the    *)
(* top of the stack and every early "return 0" agree with section 4.8.    *)
ValueOpsMatchSpec ==
  /\ result # NotDone
  /\ \A i \in 1 .. Len(prog) : prog[i].op \in KnownOps \ StackManipOps
  => result = Ref!Evaluate(prog)

(* Spec section 4.8: dup, drop, over, swap, rot and pick are the standard *)
(* stack operations, so a program using them evaluates as in the spec.    *)
StackOpsMatchSpec ==
  /\ result # NotDone
  /\ \A i \in 1 .. Len(prog) : prog[i].op \in KnownOps
  => result = Ref!Evaluate(prog)

(* Spec section 4.8: any operation outside the supported subset makes the *)
(* evaluation fail, returning 0.                                           *)
UnknownOpFails ==
  /\ result # NotDone
  /\ \E i \in 1 .. Len(prog) : prog[i].op \notin KnownOps
  => result = 0

=============================================================================
