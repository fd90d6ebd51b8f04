---------------------------- MODULE SymbolLoader ----------------------------
(***************************************************************************)
(* BasicSourceLineResolver::Module::LoadMapFromMemory and the line parsers *)
(* it dispatches to: one step per line of the symbol file.                *)
(*                                                                         *)
(* A line is abstracted to a record [kind, well, addr, size, id]: the     *)
(* record prefix, whether its text passes the parser's token and number   *)
(* checks ("well"), and the numeric fields the module index keeps.  The   *)
(* record's position in the file (its line number) stands for its name,  *)
(* so the function, line, symbol or rule a container holds is the index   *)
(* of the line that produced it.  The buffer is read lazily: each step    *)
(* takes the next line from Records, up to MaxLines lines.                *)
(***************************************************************************)
EXTENDS Naturals, Sequences, FiniteSets, TLC, RangeMaps

CONSTANTS
  Records,                  \* the lines a symbol file may contain
  WinTypes,                 \* STACK WIN frame-info types (StackInfoTypes)
  MaxLines,                 \* bound on the number of lines in the buffer
  kMaxErrorsBeforeBailing,  \* 100 in the code
  LongBits                  \* bits of unsigned long, strtoul's result type

Kinds == {"FILE", "FUNC", "LINE", "PUBLIC", "STACK_WIN", "STACK_CFI_INIT",
          "STACK_CFI", "STACK_OTHER", "MODULE", "INFO"}

ASSUME /\ Records \subseteq [kind : Kinds, well : BOOLEAN, addr : Addr,
                             size : Addr, id : Nat]
       /\ MaxLines \in Nat
       /\ kMaxErrorsBeforeBailing \in Nat
       /\ LongBits \in 1 .. Width

(* A line that began with an interior NUL: after the rewrite to '_' its   *)
(* prefix matches nothing, so it falls to the source-line branch.         *)
NulLine == [kind |-> "LINE", well |-> FALSE, addr |-> 0, size |-> 0, id |-> 0]

NoFunc == 0                 \* cur_func holding no Function

VARIABLES
  history,            \* the lines read so far, in order
  pendingNul,         \* a line starting with an interior NUL is still unread
  nul,                \* where an interior NUL lay: "none", "linestart", "inname"
  cur_func,           \* line index of the current FUNC, or NoFunc
  functions,          \* range map of functions (val: line index)
  lines,              \* line records, val: [func, src]
  files,              \* file id -> line index of its FILE record
  public_symbols,     \* address map of public symbols
  windows_frame_info, \* WinTypes -> range map
  cfi_initial_rules,  \* range map of STACK CFI INIT records
  cfi_delta_rules,    \* address -> line index of STACK CFI record
  num_errors,
  is_corrupt,
  done                \* LoadMapFromMemory has returned

vars == <<history, pendingNul, nul, cur_func, functions, lines, files,
          public_symbols, windows_frame_info, cfi_initial_rules,
          cfi_delta_rules, num_errors, is_corrupt, done>>

index == <<functions, lines, files, public_symbols, windows_frame_info,
           cfi_initial_rules, cfi_delta_rules>>

(* The line container of function f (Function::lines).                     *)
LinesOf(f) == {e \in lines : e.val.func = f}

(* LogParseError: only the count matters; the message is logging.         *)
LogParseError(err) == IF err THEN num_errors + 1 ELSE num_errors

(***************************************************************************)
(* The number checks of SymbolParseHelper: strtoull saturates to          *)
(* ULLONG_MAX (MaxAddr here), which the parsers reject.                    *)
(***************************************************************************)
ParseFunctionOk(r)     == r.well /\ r.addr # MaxAddr /\ r.size # MaxAddr
ParseLineOk(r)         == r.well /\ r.addr # MaxAddr /\ r.size # MaxAddr
ParsePublicSymbolOk(r) == r.well /\ r.addr # MaxAddr
ParseFileOk(r)         == r.well

(* Mutant: address 0 is not filtered out.                                  *)
IsPublicStoredNoZeroCheck(r) == ParsePublicSymbolOk(r)

(* Module::ParsePublicSymbol puts a parsed symbol in the map unless its    *)
(* address is 0.                                                           *)
IsPublicStored(r) == ParsePublicSymbolOk(r) /\ r.addr # 0

(* Mutant: a FUNC line that fails to parse leaves cur_func as it was.      *)
FuncAfterParseKeep(r, i) == IF ParseFunctionOk(r) THEN i ELSE cur_func

(* cur_func.reset(ParseFunction(buffer)): NULL when the line fails.       *)
FuncAfterParse(r, i) == IF ParseFunctionOk(r) THEN i ELSE NoFunc

(* Mutant: unsigned long one bit narrower than MemAddr, as on an LLP64    *)
(* build, where strtoul is not mapped to a 64-bit conversion.             *)
StrtoulNarrow(v) == IF v >= 2 ^ (Width - 1) THEN 2 ^ (Width - 1) - 1 ELSE v

(* strtoul(field, NULL, 16) into a MemAddr: a value past ULONG_MAX        *)
(* saturates to ULONG_MAX; the end of the number is not checked.          *)
Strtoul(v) == IF v >= 2 ^ LongBits THEN 2 ^ LongBits - 1 ELSE v

(* ParseCFIFrameInfo: an INIT record is stored with StoreRange (result    *)
(* ignored); a delta record assigns cfi_delta_rules_[address].            *)
CFIInitRules(r, i) ==
  IF r.kind = "STACK_CFI_INIT" /\ r.well
  THEN StoreRange(cfi_initial_rules, Strtoul(r.addr), Strtoul(r.size), i)
  ELSE cfi_initial_rules

CFIDeltaRules(r, i) ==
  IF r.kind = "STACK_CFI" /\ r.well
  THEN (Strtoul(r.addr) :> i) @@ cfi_delta_rules
  ELSE cfi_delta_rules

(***************************************************************************)
(* The memory buffer is prepared before parsing: an interior NUL is        *)
(* rewritten to '_' and counted as one error however many there are.  It   *)
(* either starts a line (which then fails to parse) or lies in a name.     *)
(***************************************************************************)
Init ==
  /\ history = <<>>
  /\ \E kind \in {"none", "linestart", "inname"} :
       /\ pendingNul = (kind = "linestart")
       /\ nul = kind
       /\ num_errors = IF kind = "none" THEN 0 ELSE 1
  /\ cur_func = NoFunc
  /\ functions = {}
  /\ lines = {}
  /\ files = <<>>
  /\ public_symbols = {}
  /\ windows_frame_info = [t \in WinTypes |-> {}]
  /\ cfi_initial_rules = {}
  /\ cfi_delta_rules = <<>>
  /\ is_corrupt = FALSE
  /\ done = FALSE

(* A NUL inside a name lies in one of the FILE, FUNC or PUBLIC lines of    *)
(* file h: the buffer may end after h only if such a line was read.       *)
NulPlaced(h) ==
  nul = "inname" => \E j \in 1 .. Len(h) : h[j].kind \in {"FILE", "FUNC", "PUBLIC"}

(* Lines file h still owes the interior NUL: the line that begins with it *)
(* while pend, a line whose name holds it until NulPlaced(h).              *)
Owed(h, pend) == (IF pend THEN 1 ELSE 0) + (IF NulPlaced(h) THEN 0 ELSE 1)

(* The common frame of one loop iteration: read line r, then bail out     *)
(* once num_errors exceeds kMaxErrorsBeforeBailing.  The bound on the     *)
(* file keeps room for the lines that still owe the interior NUL.         *)
ReadLine(r) ==
  /\ ~done
  /\ Len(history) + 1 + Owed(Append(history, r), pendingNul /\ r # NulLine) <= MaxLines
  /\ history' = Append(history, r)

(* Mutant: the bail-out fires when the count reaches the cap.              *)
BailIfTooManyErrorsAtCap ==
  /\ done' = (num_errors' >= kMaxErrorsBeforeBailing)
  /\ is_corrupt' = IF done' THEN num_errors' > 0 ELSE is_corrupt

BailIfTooManyErrors ==
  /\ done' = (num_errors' > kMaxErrorsBeforeBailing)
  /\ is_corrupt' = IF done' THEN num_errors' > 0 ELSE is_corrupt

(* FILE <id> <name>: ParseFile; files_.insert keeps an existing id.        *)
FileLine(r) ==
  LET i == Len(history) + 1 IN
  /\ r.kind = "FILE"
  /\ ReadLine(r)
  /\ files' = IF ParseFileOk(r) /\ r.id \notin DOMAIN files
              THEN files @@ (r.id :> i) ELSE files
  /\ num_errors' = LogParseError(~ParseFileOk(r))
  /\ BailIfTooManyErrors
  /\ UNCHANGED <<pendingNul, nul, cur_func, functions, lines,
                 public_symbols, windows_frame_info, cfi_initial_rules,
                 cfi_delta_rules>>

(* STACK WIN / STACK CFI INIT / STACK CFI: ParseStackInfo and              *)
(* ParseCFIFrameInfo.  StoreRange's result is ignored for both range maps; *)
(* a delta record replaces an earlier one at the same address.             *)
StackLine(r) ==
  LET i == Len(history) + 1 IN
  /\ r.kind \in {"STACK_WIN", "STACK_CFI_INIT", "STACK_CFI", "STACK_OTHER"}
  /\ ReadLine(r)
  /\ windows_frame_info' =
       IF r.kind = "STACK_WIN" /\ r.well
       THEN [windows_frame_info EXCEPT
               ![r.id] = StoreRange(@, r.addr, r.size, i)]
       ELSE windows_frame_info
  /\ cfi_initial_rules' = CFIInitRules(r, i)
  /\ cfi_delta_rules' = CFIDeltaRules(r, i)
  /\ num_errors' = LogParseError(r.kind = "STACK_OTHER" \/ ~r.well)
  /\ BailIfTooManyErrors
  /\ UNCHANGED <<pendingNul, nul, cur_func, functions, lines, files,
                 public_symbols>>

(* FUNC: a parsed function becomes cur_func whether or not StoreRange     *)
(* accepts it; a failed parse resets cur_func to NULL.                     *)
FuncLine(r) ==
  LET i == Len(history) + 1 IN
  /\ r.kind = "FUNC"
  /\ ReadLine(r)
  /\ cur_func' = FuncAfterParse(r, i)
  /\ functions' = IF ParseFunctionOk(r)
                  THEN StoreRange(functions, r.addr, r.size, i)
                  ELSE functions
  /\ num_errors' = LogParseError(~ParseFunctionOk(r))
  /\ BailIfTooManyErrors
  /\ UNCHANGED <<pendingNul, nul, lines, files, public_symbols,
                 windows_frame_info, cfi_initial_rules, cfi_delta_rules>>

(* PUBLIC: clears cur_func; address 0 is accepted and dropped; a second   *)
(* symbol at a stored address fails Store and is an error.                 *)
PublicLine(r) ==
  LET i   == Len(history) + 1
      ok  == ParsePublicSymbolOk(r)
      put == IsPublicStored(r)
  IN
  /\ r.kind = "PUBLIC"
  /\ ReadLine(r)
  /\ cur_func' = NoFunc
  /\ public_symbols' = IF put THEN StoreAddress(public_symbols, r.addr, i)
                       ELSE public_symbols
  /\ num_errors' =
       LogParseError(~ok \/ (put /\ ~CanStoreAddress(public_symbols, r.addr)))
  /\ BailIfTooManyErrors
  /\ UNCHANGED <<pendingNul, nul, functions, lines, files,
                 windows_frame_info, cfi_initial_rules, cfi_delta_rules>>

(* MODULE and INFO lines are ignored.                                       *)
IgnoredLine(r) ==
  /\ r.kind \in {"MODULE", "INFO"}
  /\ ReadLine(r)
  /\ num_errors' = num_errors
  /\ BailIfTooManyErrors
  /\ UNCHANGED <<pendingNul, nul, cur_func, index>>

(* Any other prefix is a source line of cur_func: ParseLine, then         *)
(* StoreRange into the function's own line map, whose result is ignored.   *)
(* The line is stored even when cur_func itself was refused by functions. *)
ParseSourceLine(r) ==
  LET i  == Len(history) + 1
      ok == cur_func # NoFunc /\ ParseLineOk(r)
  IN
  /\ r.kind = "LINE"
  /\ ReadLine(r)
  /\ lines' =
       IF ok /\ CanStoreRange(LinesOf(cur_func), r.addr, r.size)
       THEN lines \cup {[base |-> r.addr, size |-> r.size,
                         val |-> [func |-> cur_func, src |-> i]]}
       ELSE lines
  /\ num_errors' = LogParseError(~ok)
  /\ BailIfTooManyErrors
  /\ UNCHANGED <<nul, cur_func, functions, files, public_symbols,
                 windows_frame_info, cfi_initial_rules, cfi_delta_rules>>

SourceLine(r) == ParseSourceLine(r) /\ UNCHANGED pendingNul

(* The line that began with the rewritten NUL byte.                        *)
NulPrefixedLine ==
  /\ pendingNul
  /\ ParseSourceLine(NulLine)
  /\ pendingNul' = FALSE

(* strtok_r finds no further line: is_corrupt records any counted error.  *)
EndOfBuffer ==
  /\ ~done
  /\ ~pendingNul
  /\ NulPlaced(history)
  /\ done' = TRUE
  /\ is_corrupt' = (num_errors > 0)
  /\ UNCHANGED <<history, pendingNul, nul, cur_func, index, num_errors>>

Next ==
  \/ \E r \in Records :
       \/ FileLine(r)
       \/ StackLine(r)
       \/ FuncLine(r)
       \/ PublicLine(r)
       \/ IgnoredLine(r)
       \/ SourceLine(r)
  \/ NulPrefixedLine
  \/ EndOfBuffer

Spec == Init /\ [][Next]_vars

-----------------------------------------------------------------------------
(***************************************************************************)
(* Properties of the loader.                                               *)
(***************************************************************************)

(* The line of the last FUNC or PUBLIC record before line j, or 0: the    *)
(* scope a source line at j belongs to by the file format.               *)
ScopeOf(j) ==
  LET s == {i \in 1 .. (j - 1) : history[i].kind \in {"FUNC", "PUBLIC"}}
  IN IF s = {} THEN 0 ELSE Max(s)

(* Every source line the loader keeps is filed under the function of the  *)
(* FUNC record that opens its scope: a PUBLIC record, or a FUNC record     *)
(* that fails to parse, must end the previous function's scope (the       *)
(* cur_func resets in LoadMapFromMemory), so that no line is attributed to *)
(* a function that does not contain it in the file.                        *)
LineAttribution ==
  \A e \in lines :
    /\ e.val.func = ScopeOf(e.val.src)
    /\ history[e.val.func].kind = "FUNC"

(* Whether line j of the file is an error under the spec's error policy   *)
(* (section 4.2): a malformed record, a source line outside a parsed FUNC  *)
(* scope, a repeated PUBLIC address or an unknown STACK platform; a        *)
(* PUBLIC at address 0, a refused range and MODULE/INFO are not errors.    *)
IsParseError(j) ==
  LET r == history[j] IN
  CASE r.kind = "FILE"   -> ~r.well
    [] r.kind = "FUNC"   -> ~ParseFunctionOk(r)
    [] r.kind = "PUBLIC" ->
         \/ ~ParsePublicSymbolOk(r)
         \/ /\ r.addr # 0
            /\ \E i \in 1 .. (j - 1) :
                 /\ history[i].kind = "PUBLIC"
                 /\ ParsePublicSymbolOk(history[i])
                 /\ history[i].addr = r.addr
    [] r.kind = "LINE"   ->
         \/ ~ParseLineOk(r)
         \/ ScopeOf(j) = 0
         \/ history[ScopeOf(j)].kind = "PUBLIC"
         \/ ~ParseFunctionOk(history[ScopeOf(j)])
    [] r.kind \in {"MODULE", "INFO"} -> FALSE
    [] OTHER -> r.kind = "STACK_OTHER" \/ ~r.well

(* The error count of LoadMapFromMemory is exactly one for any interior   *)
(* NUL plus one per erroneous line read, so is_corrupt and the bail-out    *)
(* after kMaxErrorsBeforeBailing reflect the file's real errors.           *)
ErrorAccounting ==
  num_errors = (IF nul = "none" THEN 0 ELSE 1)
               + Cardinality({j \in 1 .. Len(history) : IsParseError(j)})

(* Spec section 8: every line record stored under a function lies inside  *)
(* the function's range.                                                   *)
LinesWithinFunction ==
  \A f \in functions : \A l \in LinesOf(f.val) : Encloses(f, l)

(* The FUNC and STACK WIN lines read so far that parse but that           *)
(* StoreRange refused: no entry of their container holds their index.     *)
RefusedRanges ==
  {j \in 1 .. Len(history) :
     LET r == history[j] IN
     \/ r.kind = "FUNC" /\ ParseFunctionOk(r)
        /\ j \notin {e.val : e \in functions}
     \/ r.kind = "STACK_WIN" /\ r.well
        /\ j \notin {e.val : e \in windows_frame_info[r.id]}}

-----------------------------------------------------------------------------
(***************************************************************************)
(* Refinement: the loader implements the spec's record-to-container       *)
(* mapping (ModuleIndex).  A function refused by StoreRange survives in    *)
(* the code only as cur_func, which keeps collecting lines that no lookup  *)
(* can reach; the mapping reads it as the spec's Discard state and       *)
(* shows each function's line container as the lines filed under it.      *)
(***************************************************************************)

(* The parse failures of the loader's parsers, by record kind.            *)
Malformed(r) ==
  CASE r.kind = "FUNC"   -> ~ParseFunctionOk(r)
    [] r.kind = "LINE"   -> ~ParseLineOk(r)
    [] r.kind = "PUBLIC" -> ~ParsePublicSymbolOk(r)
    [] r.kind = "FILE"   -> ~ParseFileOk(r)
    [] r.kind \in {"MODULE", "INFO"} -> FALSE
    [] OTHER -> r.kind = "STACK_OTHER" \/ ~r.well

StoredFuncs == {e.val : e \in functions}

(* cur_func as the spec's current function: NoFunc is ModuleIndex's None *)
(* (both 0), an unstored function is its Discard (-1).                     *)
AbsCurrent ==
  IF cur_func = NoFunc \/ cur_func \in StoredFuncs THEN cur_func ELSE -1

AbsLines ==
  [f \in StoredFuncs |->
     {[base |-> l.base, size |-> l.size, val |-> l.val.src] : l \in LinesOf(f)}]

Index == INSTANCE ModuleIndex
           WITH Lines <- Records \cup {NulLine}, ErrorCap <- kMaxErrorsBeforeBailing,
                file <- history, current <- AbsCurrent, funcs <- functions,
                funcLines <- AbsLines, publics <- public_symbols,
                fileNames <- files, errors <- num_errors, finished <- done

(* Every step of LoadMapFromMemory is a step of the spec's loader: the     *)
(* functions, their line containers, the public symbols, the files, the    *)
(* current function (including the discarding after a refused FUNC), the   *)
(* error count and the abort after the cap evolve as section 4.2 says.     *)
IndexRefinement == Index!Spec

=============================================================================
