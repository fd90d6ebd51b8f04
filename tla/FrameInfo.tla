------------------------------ MODULE FrameInfo ------------------------------
(***************************************************************************)
(* The two unwinding queries of a loaded module: FindWindowsFrameInfo,     *)
(* which prefers a STACK WIN FRAME_DATA record, then an FPO record, then   *)
(* the covering function's parameter size; and FindCFIFrameInfo, which     *)
(* composes the STACK CFI INIT record covering the address with the delta *)
(* records from the INIT record's base up to the address.  Like           *)
(* LookupAddress both are operators over the loader's final state.        *)
(*                                                                         *)
(* The rule strings and the WindowsFrameInfo carriers are opaque (the     *)
(* program parsers are external), so a carrier or a rule string is the   *)
(* index of the line that produced it.  ParseCFIRuleSet is taken to      *)
(* accept every rule string the loader kept.                               *)
(***************************************************************************)
EXTENDS ModuleLookup, SequencesExt

(* WindowsFrameInfo::StackInfoTypes the query consults.                   *)
STACK_INFO_FPO        == 0
STACK_INFO_FRAME_DATA == 4

NoInfo == [kind |-> "NONE", src |-> 0, parameter_size |-> 0]

(* Mutant: the older FPO records are preferred over FRAME_DATA.            *)
FindWindowsFrameInfoFpoFirst(a) ==
  LET fd   == RetrieveRange(windows_frame_info[STACK_INFO_FPO], a)
      fpo  == RetrieveRange(windows_frame_info[STACK_INFO_FRAME_DATA], a)
      near == RetrieveNearestRange(functions, a)
  IN IF fd # {} THEN [kind |-> "STACK", src |-> The(fd).val, parameter_size |-> 0]
     ELSE IF fpo # {} THEN [kind |-> "STACK", src |-> The(fpo).val, parameter_size |-> 0]
     ELSE IF near # {} /\ CoversAddress(The(near), a)
     THEN [kind |-> "FUNC", src |-> The(near).val,
           parameter_size |-> history[The(near).val].id]
     ELSE NoInfo

(* FindWindowsFrameInfo: a copy of the FRAME_DATA, else the FPO record     *)
(* covering a; else, for a function that really covers a, a carrier with   *)
(* only parameter_size set (stack_param_size, the FUNC record's id        *)
(* field); else NULL.  The PUBLIC branch writes parameter_size into the   *)
(* carrier that is then freed, so it returns NULL as well.                *)
FindWindowsFrameInfo(a) ==
  LET fd   == RetrieveRange(windows_frame_info[STACK_INFO_FRAME_DATA], a)
      fpo  == RetrieveRange(windows_frame_info[STACK_INFO_FPO], a)
      near == RetrieveNearestRange(functions, a)
  IN IF fd # {} THEN [kind |-> "STACK", src |-> The(fd).val, parameter_size |-> 0]
     ELSE IF fpo # {} THEN [kind |-> "STACK", src |-> The(fpo).val, parameter_size |-> 0]
     ELSE IF near # {} /\ CoversAddress(The(near), a)
     THEN [kind |-> "FUNC", src |-> The(near).val,
           parameter_size |-> history[The(near).val].id]
     ELSE NoInfo

(* Mutant: the walk stops before a delta at the address itself.            *)
DeltaKeysBelow(base, a) ==
  {k \in DOMAIN cfi_delta_rules : k >= base /\ k < a}

(* The keys the delta walk visits: from lower_bound(initial_base) while    *)
(* key <= address.                                                          *)
DeltaKeys(base, a) ==
  {k \in DOMAIN cfi_delta_rules : k >= base /\ k <= a}

(* FindCFIFrameInfo: NULL unless an INIT range covers a; otherwise the     *)
(* INIT rule string followed by the delta rule strings in ascending       *)
(* address order, as ParseCFIRuleSet applies them.                          *)
FindCFIFrameInfo(a) ==
  LET init == RetrieveRange(cfi_initial_rules, a)
      keys == SetToSortSeq(DeltaKeys(The(init).base, a), <)
  IN IF init = {} THEN <<>>
     ELSE <<The(init).val>> \o [j \in DOMAIN keys |-> cfi_delta_rules[keys[j]]]

-----------------------------------------------------------------------------
(***************************************************************************)
(* Properties of the frame-info queries.                                   *)
(***************************************************************************)

(* The innermost entry of range map m covering a, as a set of 0 or 1.     *)
InnermostCovering(m, a) ==
  {e \in m : InRange(e, a) /\ \A g \in m : InRange(g, a) => Encloses(g, e)}

(* Whatever FindWindowsFrameInfo returns is the record the unwinder must  *)
(* use: the innermost FRAME_DATA record covering the address if there is *)
(* one, else the innermost FPO record; only when neither covers it may it *)
(* fall back to a function, and then exactly to the function LookupAddress *)
(* resolves the address to, with that FUNC record's stack_param_size.     *)
WindowsFrameInfoSound ==
  done =>
  \A a \in Addr :
    LET r   == FindWindowsFrameInfo(a)
        fd  == InnermostCovering(windows_frame_info[STACK_INFO_FRAME_DATA], a)
        fpo == InnermostCovering(windows_frame_info[STACK_INFO_FPO], a)
        lk  == LookupAddress(a)
    IN CASE fd # {}  -> r.kind = "STACK" /\ r.src = The(fd).val
         [] fpo # {} -> r.kind = "STACK" /\ r.src = The(fpo).val
         [] OTHER    ->
              /\ r.kind = "FUNC" <=> lk.kind = "FUNC"
              /\ r.kind = "FUNC" =>
                   r.src = lk.sym /\ r.parameter_size = history[lk.sym].id

(* The delta record the file last gives for address k, or 0: a later      *)
(* STACK CFI line for the same address replaces an earlier one.            *)
LastDeltaAt(k) ==
  LET js == {j \in 1 .. Len(history) :
               history[j].kind = "STACK_CFI" /\ history[j].well
               /\ history[j].addr = k}
  IN IF js = {} THEN 0 ELSE Max(js)

(* The unwind rules at a are those the file states: the INIT record whose *)
(* range is innermost around a, followed, in ascending address order, by  *)
(* the last delta record of the file for each address from the INIT      *)
(* record's base up to and including a (spec 4.7, scenario 4 of section 8). *)
CFIRulesMatchFile ==
  done =>
  \A a \in Addr :
    LET init == InnermostCovering(cfi_initial_rules, a)
        ks   == SetToSortSeq({k \in Addr : k >= The(init).base /\ k <= a
                                           /\ LastDeltaAt(k) # 0}, <)
    IN FindCFIFrameInfo(a) =
         IF init = {} THEN <<>>
         ELSE <<The(init).val>> \o [j \in DOMAIN ks |-> LastDeltaAt(ks[j])]

=============================================================================
