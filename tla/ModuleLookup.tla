---------------------------- MODULE ModuleLookup ----------------------------
(***************************************************************************)
(* The queries a loaded module answers: LookupAddress, which merges FUNC,  *)
(* line and PUBLIC evidence for one address.  The module index is const   *)
(* after LoadMapFromMemory returns, so a query is an operator over the     *)
(* loader's final state, and a property quantifies over every address.    *)
(* Addresses are module-relative (instruction - module base); adding the  *)
(* module base back to the bases returned is left out.                     *)
(***************************************************************************)
EXTENDS SymbolLoader

(* The one element of a retrieval result that is not empty.               *)
The(S) == CHOOSE e \in S : TRUE

NoFrame == [kind |-> "NONE", sym |-> 0, base |-> 0, line |-> 0, file |-> 0]

(* Source-line fields of the function entry f at address a: the line     *)
(* record's index and the FILE record naming its source file, 0 if the    *)
(* file id is unknown (source_file_name left empty).                       *)
LineFields(f, a) ==
  LET ln  == RetrieveRange(LinesOf(f.val), a)
      fid == history[The(ln).val.src].id
  IN IF ln = {} THEN [line |-> 0, file |-> 0]
     ELSE [line |-> The(ln).val.src,
           file |-> IF fid \in DOMAIN files THEN files[fid] ELSE 0]

(* Mutant: the textbook test address < base + size, whose sum wraps to 0  *)
(* for a range ending at the top of the address space.                    *)
CoversAddressNaive(e, a) == a >= e.base /\ a < (e.base + e.size) % WordLimit

(* The code's overflow-friendly test that the function found covers a.    *)
CoversAddress(e, a) == a >= e.base /\ a - e.base < e.size

(* Mutant: a PUBLIC symbol at the nearest function's own base is taken.    *)
PublicAppliesAtBase(pub, near) ==
  pub # {} /\ (near = {} \/ The(pub).base >= The(near).base)

(* The PUBLIC symbol found applies unless the nearest function starts at  *)
(* or after it.                                                            *)
PublicApplies(pub, near) ==
  pub # {} /\ (near = {} \/ The(pub).base > The(near).base)

(* LookupAddress: the nearest function if it really covers a; otherwise   *)
(* the PUBLIC symbol at or below a, unless the nearest function starts at  *)
(* or after it.                                                            *)
LookupAddress(a) ==
  LET near == RetrieveNearestRange(functions, a)
      pub  == RetrieveAddress(public_symbols, a)
  IN IF near # {} /\ CoversAddress(The(near), a)
     THEN [kind |-> "FUNC", sym |-> The(near).val, base |-> The(near).base]
          @@ LineFields(The(near), a)
     ELSE IF PublicApplies(pub, near)
     THEN [kind |-> "PUBLIC", sym |-> The(pub).val, base |-> The(pub).base,
           line |-> 0, file |-> 0]
     ELSE NoFrame

-----------------------------------------------------------------------------
(***************************************************************************)
(* Properties of LookupAddress.                                            *)
(***************************************************************************)

(* Whatever LookupAddress reports is right: a FUNC answer is the innermost *)
(* stored function covering the address, its source line is one of that    *)
(* function's lines covering the address, and its file the FILE record of  *)
(* the line's file id; a PUBLIC answer is the closest symbol at or below   *)
(* the address, and no stored function starts between the symbol and the  *)
(* address (the bounding the code does with RetrieveNearestRange).         *)
LookupSound ==
  done =>
  \A a \in Addr :
    LET r == LookupAddress(a) IN
    /\ r.kind = "FUNC" =>
         \E f \in functions :
           /\ f.val = r.sym /\ f.base = r.base /\ InRange(f, a)
           /\ \A g \in functions : InRange(g, a) => Encloses(g, f)
           /\ r.line # 0 =>
                \E l \in LinesOf(f.val) : l.val.src = r.line /\ InRange(l, a)
           /\ r.file # 0 =>
                /\ history[r.file].kind = "FILE"
                /\ history[r.file].id = history[r.line].id
    /\ r.kind = "PUBLIC" =>
         \E p \in public_symbols :
           /\ p.val = r.sym /\ p.base = r.base /\ p.base <= a
           /\ \A q \in public_symbols : q.base <= a => q.base <= p.base
           /\ \A f \in functions : ~(p.base <= f.base /\ f.base <= a)

(* Spec section 8: if a stored FUNC covers the address, the lookup         *)
(* resolves it to a FUNC (its function_base is that of a covering FUNC).   *)
LookupComplete ==
  done =>
  \A a \in Addr :
    (\E f \in functions : InRange(f, a)) => LookupAddress(a).kind = "FUNC"

(* With the flat function sets dump_syms writes (no FUNC range inside     *)
(* another), every address a stored FUNC covers resolves to a FUNC, up to  *)
(* the last address of the address space.                                  *)
LookupCompleteFlat ==
  done /\ (\A f, g \in functions : f # g => ~Overlap(f, g))
  =>
  \A a \in Addr :
    (\E f \in functions : InRange(f, a)) => LookupAddress(a).kind = "FUNC"

=============================================================================
