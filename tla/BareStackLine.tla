---------------------------- MODULE BareStackLine ----------------------------
(***************************************************************************)
(* The loader on files that may contain a "STACK CFI" line with nothing    *)
(* after its platform token.  ParseStackInfo scans the platform token up   *)
(* to the NUL that strtok_r left in place of the line break, writes a NUL *)
(* there and steps past it, so ParseCFIFrameInfo parses the NEXT line's    *)
(* text: strtok_r(" \r\n") cuts that line after its first token, which     *)
(* strtoul reads as the delta address, and strtok_r("\r\n") takes the rest *)
(* of the line as the rules, writing a NUL over its line break.  The       *)
(* loader's own strtok_r then returns the first token of that line as a   *)
(* line of its own, and, meeting the NUL, no further line at all.          *)
(*                                                                         *)
(* The file is generated as it is read, so the step also chooses whether  *)
(* lines followed the swallowed one: those are the lines left unread.     *)
(***************************************************************************)
EXTENDS SymbolLoader

(* The text "STACK CFI" ending its line.                                   *)
BareCFI == [kind |-> "STACK_CFI_BARE", well |-> FALSE, addr |-> 0, size |-> 0, id |-> 0]

VARIABLE
  unread     \* loading returned with lines of the file not yet read

(* strtoul(first token, NULL, 16): a source line starts with its hex       *)
(* address; "FUNC" and "FILE" give 0xF (an "F", then no hex digit); PUBLIC, *)
(* STACK, MODULE and INFO start with no hex digit and give 0.              *)
LeadingHex(r) ==
  CASE r.kind = "LINE"              -> r.addr
    [] r.kind \in {"FUNC", "FILE"}  -> 15
    [] OTHER                        -> 0

(* The bare line is followed by line r2 and, if more, by further lines.   *)
(* ParseCFIFrameInfo stores r2's rest as the delta at LeadingHex(r2) and   *)
(* succeeds; r2's first token, alone, reaches the source-line branch,     *)
(* which fails (no cur_func, or ParseLine finds one token); then strtok_r  *)
(* returns NULL and LoadMapFromMemory sets is_corrupt_ and returns.        *)
BareCFIThen(r2, more) ==
  LET i == Len(history) + 1 IN
  /\ ~done
  /\ Len(history) + 2 <= MaxLines
  /\ history' = history \o <<BareCFI, r2>>
  /\ cfi_delta_rules' = (Strtoul(LeadingHex(r2)) :> i + 1) @@ cfi_delta_rules
  /\ num_errors' = LogParseError(TRUE)
  /\ done' = TRUE
  /\ is_corrupt' = (num_errors' > 0)
  /\ unread' = more
  /\ ~more => ~pendingNul /\ NulPlaced(history')
  /\ UNCHANGED <<pendingNul, nul, cur_func, functions, lines, files,
                 public_symbols, windows_frame_info, cfi_initial_rules>>

(* The bare line is the last: past its NUL lies the end of the text, so   *)
(* ParseCFIFrameInfo finds no token and fails; strtok_r finds no line.     *)
BareCFIAtEnd ==
  /\ ReadLine(BareCFI)
  /\ ~pendingNul /\ NulPlaced(history)
  /\ num_errors' = LogParseError(TRUE)
  /\ done' = TRUE
  /\ is_corrupt' = (num_errors' > 0)
  /\ UNCHANGED <<pendingNul, nul, cur_func, index, unread>>

BareInit == Init /\ unread = FALSE

BareNext ==
  \/ Next /\ UNCHANGED unread
  \/ \E r2 \in Records, more \in BOOLEAN : BareCFIThen(r2, more)
  \/ BareCFIAtEnd

BareSpec == BareInit /\ [][BareNext]_<<vars, unread>>

-----------------------------------------------------------------------------
(* Spec section 7: a parse error is recovered locally and parsing          *)
(* continues, so LoadMapFromMemory returns with lines of the file unread  *)
(* only once the error count exceeds kMaxErrorsBeforeBailing.              *)
ReadsToEndBelowCap ==
  done /\ unread => num_errors > kMaxErrorsBeforeBailing

=============================================================================
