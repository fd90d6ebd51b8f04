---------------------------- MODULE DwarfExprSpec ----------------------------
(***************************************************************************)
(* What the location-expression evaluator promises (spec section 4.8): a  *)
(* stack machine over the supported DWARF operations, where the value of  *)
(* the program is the last value on the stack, and stack underflow, an    *)
(* out-of-range pick, an unreadable address or any other operation yields *)
(* 0.  Written from the specification as the reference the code's step    *)
(* machine (DwarfExpr) is compared with.                                   *)
(***************************************************************************)
EXTENDS Naturals, Sequences, SequencesExt

CONSTANTS WordBits, Regs, FrameBase, Memory

LOCAL WordLimit == 2 ^ WordBits

(* v sign-extended from b bits to a word.                                 *)
LOCAL Signed(v, b) ==
  IF b >= WordBits THEN v
  ELSE IF v % (2 ^ b) >= 2 ^ (b - 1) THEN (WordLimit - 2 ^ b) + (v % (2 ^ b))
  ELSE v % (2 ^ b)

(* The value a pushing operation pushes, by opcode range.                 *)
LOCAL Pushed(op, v1) ==
  CASE op \in 80 .. 111  -> Regs[op - 80]                      \* reg0..31
    [] op = 144          -> Regs[v1]                           \* regx
    [] op \in 112 .. 143 -> (Regs[op - 112] + v1) % WordLimit  \* breg0..31
    [] op = 145          -> (FrameBase + v1) % WordLimit       \* fbreg
    [] op \in 48 .. 79   -> op - 48                            \* lit0..31
    [] op = 9            -> Signed(v1, 8)                      \* const1s
    [] op = 11           -> Signed(v1, 16)                     \* const2s
    [] op = 13           -> Signed(v1, 32)                     \* const4s
    [] OTHER             -> v1             \* addr, const1u..8u, const8s

PushOps == (48 .. 145) \cup {3, 8, 9, 10, 11, 12, 13, 14, 15}

RECURSIVE Run(_, _)
Run(p, st) ==
  LET n  == Len(st)
      op == Head(p).op
      v1 == Head(p).v1
  IN
  IF p = <<>> THEN IF st = <<>> THEN 0 ELSE st[n]
  ELSE CASE op \in PushOps -> Run(Tail(p), Append(st, Pushed(op, v1)))
         [] op = 6 ->                                          \* deref
              IF n = 0 \/ st[n] \notin DOMAIN Memory THEN 0
              ELSE Run(Tail(p), Append(Front(st), Memory[st[n]]))
         [] op = 18 -> IF n = 0 THEN 0 ELSE Run(Tail(p), Append(st, st[n]))
         [] op = 19 -> IF n = 0 THEN 0 ELSE Run(Tail(p), Front(st))
         [] op = 21 -> IF n <= v1 THEN 0                       \* pick
                       ELSE Run(Tail(p), Append(st, st[n - v1]))
         [] op = 20 -> IF n < 2 THEN 0 ELSE Run(Tail(p), Append(st, st[n - 1]))
         [] op = 22 -> IF n < 2 THEN 0                         \* swap
                       ELSE Run(Tail(p), SubSeq(st, 1, n - 2)
                                          \o <<st[n], st[n - 1]>>)
         [] op = 23 -> IF n < 3 THEN 0                         \* rot
                       ELSE Run(Tail(p), SubSeq(st, 1, n - 3)
                                          \o <<st[n], st[n - 2], st[n - 1]>>)
         [] OTHER -> 0

(* The effective address the location program p denotes.                  *)
Evaluate(p) == Run(p, <<>>)

=============================================================================
