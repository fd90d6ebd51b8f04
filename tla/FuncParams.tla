----------------------------- MODULE FuncParams -----------------------------
(***************************************************************************)
(* Parameter recovery: SymbolParseHelper::ParseFuncParam, which turns the *)
(* parameter metadata of a FUNC record into the function's params, and     *)
(* ReadFuncParams, which LookupAddress calls to read and format each       *)
(* parameter's value from the crashed process's memory.  One step is one  *)
(* iteration of ReadFuncParams' loop.                                      *)
(*                                                                         *)
(* A parameter descriptor "typeName@typeSize@paramName@locExpr" is a      *)
(* record: whether it has its four '@' fields (at), whether its location  *)
(* expression parses (locs: "ok"; "empty": no '$' token; "bad": an       *)
(* operation without a token or with a non-hex opcode), typeSize after    *)
(* strtoull (0 when not hex), the class of its type name by the first of *)
(* '*'/'&', "float", "double" it contains (cls), and loc, the ArgLocInfo  *)
(* program its location expression parses to.  ReadFuncParams runs the   *)
(* evaluator of DwarfExpr on loc, one operation per step, in the frame    *)
(* (Regs, FrameBase) and over the same memory it then reads the value     *)
(* from.  A parameter's position stands for its names.  Words are          *)
(* WordBytes bytes of ByteBits bits, read little-endian from a            *)
(* MemoryRegion of consecutive bytes at MemBase.                           *)
(***************************************************************************)
EXTENDS Naturals, Sequences, SequencesExt, Bitwise

CONSTANTS
  Descriptors,  \* the parameter descriptors a FUNC record may carry
  MaxParams,    \* bound on the number of descriptors of a FUNC record
  WordBytes,    \* sizeof(uint64_t) (8 in the code)
  ByteBits,     \* bits of a byte (8 in the code)
  MemBase,      \* MemoryRegion::GetBase()
  MemBytes,     \* the region's bytes, from MemBase on
  Instrs,       \* the ArgLocInfo records location programs are made of
  MaxLoc,       \* bound on the length of a location program
  Regs,         \* frame->GetRegValue: register index -> value
  FrameBase,    \* frame->GetFrameBase()
  Garbage       \* the values the evaluator's uninitialised val may hold

WordLimit == 2 ^ (WordBytes * ByteBits)
Word      == 0 .. WordLimit - 1
Byte      == 0 .. 2 ^ ByteBits - 1
Classes   == {"pointer", "float", "double", "integer"}

ASSUME /\ Descriptors \subseteq [at : BOOLEAN, locs : {"ok", "empty", "bad"},
                                 typeSize : Nat, cls : Classes, loc : Seq(Instrs)]
       /\ \A d \in Descriptors : Len(d.loc) <= MaxLoc
       /\ MemBytes \in Seq(Byte) /\ MemBase + Len(MemBytes) <= WordLimit

(***************************************************************************)
(* ParseFuncParam.                                                         *)
(***************************************************************************)

(* Mutant: a bad operation returns false without params.clear().           *)
OnBadLocationKeep(params) == params

(* A location operation without a token or with a non-hex opcode:          *)
(* params.clear(); return false.                                            *)
OnBadLocation(params) == <<>>

(* The loop over the descriptors pv: a descriptor without its four '@'    *)
(* fields clears params; an empty location expression returns with the    *)
(* parameters parsed so far; a well-formed one is appended.               *)
RECURSIVE ParseFrom(_, _)
ParseFrom(pv, params) ==
  IF pv = <<>> THEN params
  ELSE LET p == Head(pv) IN
       CASE ~p.at            -> <<>>
         [] p.locs = "empty" -> params
         [] p.locs = "bad"   -> OnBadLocation(params)
         [] OTHER            -> ParseFrom(Tail(pv), Append(params, p))

ParseFuncParam(pv) == ParseFrom(pv, <<>>)

(* ParseFunction: the parameter segment is parsed only when num_params is *)
(* hex and Tokenize finds exactly that many descriptors (countOk).         *)
FunctionParams(countOk, declared) ==
  IF countOk THEN ParseFuncParam(declared) ELSE <<>>

(***************************************************************************)
(* MemoryRegion and the formatting of a value.                             *)
(***************************************************************************)

(* GetMemoryAtAddress succeeds for the n bytes at a inside the region.    *)
Readable(a, n) == a >= MemBase /\ a - MemBase + n <= Len(MemBytes)

ByteAt(a) == MemBytes[a - MemBase + 1]

(* The uint64_t read at a, little-endian.                                  *)
RECURSIVE WordFrom(_, _)
WordFrom(a, k) ==
  IF k = WordBytes THEN 0
  ELSE ByteAt(a + k) * 2 ^ (ByteBits * k) + WordFrom(a, k + 1)

WordAt(a) == WordFrom(a, 0)

(* GetMemoryAtAddress(uint64_t) as the evaluator's deref sees it.          *)
WordMemory ==
  [a \in {x \in MemBase .. MemBase + Len(MemBytes) : Readable(x, WordBytes)}
     |-> WordAt(a)]

(* Mutant: the shift is computed in bytes, without the "<< 3".             *)
MaskBitsBytes(size) == WordBytes - size

(* bitsz = (sizeof(uint64_t) - typeSize) << 3                              *)
MaskBits(size) == (WordBytes - size) * ByteBits

(* mask = ~0; mask <<= bitsz; mask >>= bitsz                               *)
Mask(size) ==
  (((WordLimit - 1) * 2 ^ MaskBits(size)) % WordLimit) \div 2 ^ MaskBits(size)

NoSimple == -1   \* show_simple_type stays false

(* The typed value shown for an even typeSize of at most a word: the      *)
(* pointer or double reinterprets the whole word, the float its low half, *)
(* any other type the word masked to typeSize bytes.                      *)
SimpleValue(p, value) ==
  IF p.typeSize % 2 = 0 /\ p.typeSize <= WordBytes
  THEN CASE p.cls \in {"pointer", "double"} -> value
         [] p.cls = "float" -> value % 2 ^ (ByteBits * (WordBytes \div 2))
         [] p.cls = "integer" -> value & Mask(p.typeSize)
  ELSE NoSimple

(* The byte dump from offset j on: a failed read leaves byte_value as the *)
(* previous iteration left it.                                             *)
RECURSIVE DumpFrom(_, _, _, _)
DumpFrom(a, j, n, byte_value) ==
  IF j >= n THEN <<>>
  ELSE LET at == (a + j) % WordLimit
           b  == IF Readable(at, 1) THEN ByteAt(at) ELSE byte_value
       IN <<b>> \o DumpFrom(a, j + 1, n, b)

(* The hex dump of typeSize bytes; the first read is at addr, which the   *)
(* word read has already shown readable.                                  *)
Dump(a, n) == <<ByteAt(a)>> \o DumpFrom(a, 1, n, ByteAt(a))

(***************************************************************************)
(* ReadFuncParams.                                                         *)
(***************************************************************************)
VARIABLES
  declared,  \* the descriptors of the FUNC record
  countOk,   \* its num_params field is hex and matches the descriptors
  memory,    \* the MemoryRegion pointer is not NULL
  params,    \* Function::params
  pc,        \* "start", "loop", "eval" (in EvaluateDwarfExpression), "done"
  i,         \* the loop index, from 1
  info,      \* frame->params, each entry with the address it was read at
  evProg,    \* EvaluateDwarfExpression: the operations executed so far,
  evS,       \*   its stack s,
  evVal,     \*   its local val,
  evResult   \*   and its return value, or NotDone

evVars == <<evProg, evS, evVal, evResult>>
vars == <<declared, countOk, memory, params, pc, i, info, evProg, evS, evVal, evResult>>

(* The evaluator, on the frame and the memory of this call.                *)
Eval == INSTANCE DwarfExpr
          WITH WordBits <- WordBytes * ByteBits, MaxProg <- MaxLoc,
               Memory <- WordMemory, prog <- evProg, s <- evS,
               val <- evVal, result <- evResult

NoValue == [simple |-> NoSimple, dump |-> <<>>]

Init ==
  /\ declared \in BoundedSeq(Descriptors, MaxParams)
  /\ countOk \in BOOLEAN
  /\ memory \in BOOLEAN
  /\ params = FunctionParams(countOk, declared)
  /\ pc = "start"
  /\ i = 1
  /\ info = <<>>
  /\ evProg = <<>> /\ evS = <<>> /\ evResult = Eval!NotDone
  /\ evVal = CHOOSE g \in Garbage : TRUE   \* not read before a call

(* if (!memory || params.empty()) return; info.clear();                   *)
Start ==
  /\ pc = "start"
  /\ pc' = IF ~memory \/ params = <<>> THEN "done" ELSE "loop"
  /\ info' = IF pc' = "loop" THEN <<>> ELSE info
  /\ UNCHANGED <<declared, countOk, memory, params, i, evVars>>

Iteration == pc = "loop" /\ i <= Len(params)

(* typeSize <= 0: the parameter is reported without a value.              *)
Unsized ==
  /\ Iteration
  /\ params[i].typeSize <= 0
  /\ info' = Append(info, [param |-> i, addr |-> 0, value |-> NoValue])
  /\ i' = i + 1
  /\ UNCHANGED <<declared, countOk, memory, params, pc, evVars>>

(* EvaluateDwarfExpression(frame, memory, params[i].locs) is called: an   *)
(* empty stack s, and val a fresh uninitialised local.                     *)
Locate ==
  /\ Iteration
  /\ params[i].typeSize > 0
  /\ pc' = "eval"
  /\ evProg' = <<>> /\ evS' = <<>> /\ evVal' \in Garbage
  /\ evResult' = Eval!NotDone
  /\ UNCHANGED <<declared, countOk, memory, params, i, info>>

(* The evaluator's loop body on the next operation of the location.       *)
EvalStep ==
  /\ pc = "eval"
  /\ Len(evProg) < Len(params[i].loc)
  /\ Eval!Execute(params[i].loc[Len(evProg) + 1])
  /\ UNCHANGED <<declared, countOk, memory, params, pc, i, info>>

(* The evaluator's loop has run through the location and returns.         *)
EvalReturn ==
  /\ pc = "eval"
  /\ Len(evProg) = Len(params[i].loc)
  /\ Eval!Return
  /\ UNCHANGED <<declared, countOk, memory, params, pc, i, info>>

(* EvaluateDwarfExpression has returned addr = evResult.                  *)
Located == pc = "eval" /\ evResult # Eval!NotDone

(* The location evaluates to 0: logged and skipped.                        *)
NoLocation ==
  /\ Located /\ evResult = 0
  /\ pc' = "loop"
  /\ i' = i + 1
  /\ UNCHANGED <<declared, countOk, memory, params, info, evVars>>

(* The word at the location cannot be read: ReadFuncParams returns.       *)
Unreadable ==
  /\ Located /\ evResult # 0
  /\ ~Readable(evResult, WordBytes)
  /\ pc' = "done"
  /\ UNCHANGED <<declared, countOk, memory, params, i, info, evVars>>

(* The value is read, formatted and dumped, and the parameter reported.   *)
Report ==
  LET p == params[i]
      a == evResult
  IN
  /\ Located /\ a # 0 /\ Readable(a, WordBytes)
  /\ info' = Append(info, [param |-> i, addr |-> a,
                           value |-> [simple |-> SimpleValue(p, WordAt(a)),
                                      dump   |-> Dump(a, p.typeSize)]])
  /\ pc' = "loop"
  /\ i' = i + 1
  /\ UNCHANGED <<declared, countOk, memory, params, evVars>>

(* The loop has visited every parameter.                                   *)
Finish ==
  /\ pc = "loop" /\ i > Len(params)
  /\ pc' = "done"
  /\ UNCHANGED <<declared, countOk, memory, params, i, info, evVars>>

Next ==
  \/ Start \/ Unsized \/ Locate \/ EvalStep \/ EvalReturn
  \/ NoLocation \/ Unreadable \/ Report \/ Finish

(* ReadFuncParams runs on the caller's thread and never blocks.            *)
Spec == Init /\ [][Next]_vars

-----------------------------------------------------------------------------
(***************************************************************************)
(* Properties of parameter recovery.                                       *)
(***************************************************************************)

(* A descriptor the spec's grammar (section 4.2) accepts as a parameter.   *)
WellFormed(d) == d.at /\ d.locs = "ok"

(* Spec 4.2: an unparseable opcode fails the whole parameter list.  What   *)
(* ParseFunction keeps is always a prefix of the declared parameters; all *)
(* of them when every descriptor is well formed, none when a malformed     *)
(* descriptor comes before any empty location expression.                  *)
ParamListShape ==
  /\ IsPrefix(params, declared)
  /\ countOk /\ (\A k \in 1 .. Len(declared) : WellFormed(declared[k]))
     => params = declared
  /\ (\E k \in 1 .. Len(declared) :
        /\ ~declared[k].at \/ declared[k].locs = "bad"
        /\ \A m \in 1 .. k - 1 : declared[m].locs # "empty")
     => params = <<>>

(* Every value ReadFuncParams reports is what memory holds at the         *)
(* parameter's location, in the parameter's type: the reported parameters *)
(* come in declaration order; a sized one has a readable, non-zero         *)
(* location; an even typeSize of at most a word shows the word (pointer,  *)
(* double), its low half (float) or its low typeSize bytes, any other     *)
(* size shows none; and its dump has typeSize bytes, each readable one    *)
(* being the byte at that offset (spec 4.8).                               *)
ReportedValuesMatchMemory ==
  \A k \in 1 .. Len(info) :
    LET e == info[k]
        p == params[e.param]
        w == WordAt(e.addr)
    IN /\ k > 1 => info[k - 1].param < e.param
       /\ p.typeSize = 0 => e.value = NoValue
       /\ p.typeSize > 0 =>
            /\ e.addr # 0 /\ Readable(e.addr, WordBytes)
            /\ e.value.simple =
                 IF p.typeSize % 2 = 1 \/ p.typeSize > WordBytes THEN NoSimple
                 ELSE CASE p.cls = "integer" -> w % 2 ^ (ByteBits * p.typeSize)
                        [] p.cls = "float"   -> w % 2 ^ (ByteBits * (WordBytes \div 2))
                        [] OTHER             -> w
            /\ Len(e.value.dump) = p.typeSize
            /\ \A j \in 0 .. p.typeSize - 1 :
                 Readable(e.addr + j, 1) => e.value.dump[j + 1] = ByteAt(e.addr + j)

(* Spec section 7: a failed memory read drops the parameter.  Once        *)
(* ReadFuncParams has returned with a memory view, every sized parameter   *)
(* whose location (as section 4.8 evaluates it) is non-zero and readable  *)
(* is reported, whatever the parameters before it hold.                    *)
ReadableParamsReported ==
  pc = "done" /\ memory =>
  \A k \in 1 .. Len(params) :
    LET a == Eval!Ref!Evaluate(params[k].loc) IN
    params[k].typeSize > 0 /\ a # 0 /\ Readable(a, WordBytes)
    => \E m \in 1 .. Len(info) : info[m].param = k

(* Spec 4.8: the dump shows the first typeSize raw bytes at the           *)
(* parameter's address.                                                     *)
DumpMatchesMemory ==
  \A k \in 1 .. Len(info) :
    LET a == info[k].addr IN
    \A j \in 1 .. Len(info[k].value.dump) :
      /\ Readable(a + j - 1, 1)
      /\ info[k].value.dump[j] = ByteAt(a + j - 1)

=============================================================================
