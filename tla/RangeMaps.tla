----------------------------- MODULE RangeMaps -----------------------------
(***************************************************************************)
(* The address-indexed containers the resolver's module index is built    *)
(* from (spec section 4.3).  Their C++ code (ContainedRangeMap,           *)
(* AddressMap, std::map) is not part of src/, so these operators are      *)
(* modelled from the specification.                                       *)
(*                                                                         *)
(* A range map is a set of entries [base, size, val] standing for the     *)
(* half-open ranges [base, base + size).  Addresses are unsigned words of *)
(* Width bits, so that the overflow cases of a 64-bit address space are   *)
(* reachable with a handful of addresses.                                 *)
(***************************************************************************)
EXTENDS Naturals, FiniteSets, FiniteSetsExt

CONSTANT Width            \* bits of a MemAddr in the model (64 in the code)

ASSUME Width \in Nat \ {0}

WordLimit == 2 ^ Width
MaxAddr   == WordLimit - 1
Addr      == 0 .. MaxAddr

(* The overflow-safe containment test the code writes as                  *)
(* "address >= base && address - base < size".                            *)
InRange(e, a) == a >= e.base /\ a - e.base < e.size

(* e contains f: f nests inside e (possibly sharing an end).               *)
Encloses(e, f) == e.base <= f.base /\ f.base + f.size <= e.base + e.size

Overlap(e, f) == e.base < f.base + f.size /\ f.base < e.base + e.size

(***************************************************************************)
(* Containment range map: store fails for an empty range, for a range     *)
(* whose last address base + size - 1 overflows the address space, and    *)
(* for a range that crosses a stored one or equals it.  Nested ranges are *)
(* accepted.                                                               *)
(***************************************************************************)
CanStoreRange(m, base, size) ==
  LET new == [base |-> base, size |-> size]
  IN /\ size > 0
     /\ base + size - 1 <= MaxAddr
     /\ \A e \in m :
          \/ ~Overlap(e, new)
          \/ Encloses(e, new) /\ ~Encloses(new, e)
          \/ Encloses(new, e) /\ ~Encloses(e, new)

StoreRange(m, base, size, val) ==
  IF CanStoreRange(m, base, size)
  THEN m \cup {[base |-> base, size |-> size, val |-> val]}
  ELSE m

(* Entries of a set of nested entries, the innermost one (smallest size). *)
Innermost(S) == CHOOSE e \in S : \A f \in S : e.size <= f.size

(* RetrieveRange: the innermost entry covering a, or the empty set.       *)
RetrieveRange(m, a) ==
  LET covering == {e \in m : InRange(e, a)}
  IN IF covering = {} THEN {} ELSE {Innermost(covering)}

(* RetrieveNearestRange: the innermost of the entries with the greatest   *)
(* base <= a, whether or not it covers a; or the empty set.              *)
RetrieveNearestRange(m, a) ==
  LET below == {e \in m : e.base <= a}
      top   == {e \in below : e.base = Max({f.base : f \in below})}
  IN IF below = {} THEN {} ELSE {Innermost(top)}

(***************************************************************************)
(* Address map (public symbols): point keys; a key may be stored once;    *)
(* Retrieve returns the entry with the greatest key <= a.                  *)
(***************************************************************************)
CanStoreAddress(m, a) == \A e \in m : e.base # a

StoreAddress(m, a, val) ==
  IF CanStoreAddress(m, a) THEN m \cup {[base |-> a, val |-> val]} ELSE m

RetrieveAddress(m, a) ==
  LET below == {e \in m : e.base <= a}
  IN IF below = {} THEN {}
     ELSE {CHOOSE e \in below : \A f \in below : f.base <= e.base}

=============================================================================
