----------------------------- MODULE ModuleIndex -----------------------------
(***************************************************************************)
(* What loading a symbol file promises (spec sections 3 and 4.2), written  *)
(* from the specification as the abstract view of the loader: the module *)
(* as the spec's entities, each function owning its nested line           *)
(* container, and the record-to-container mapping applied line by line.   *)
(*                                                                         *)
(* "current" is the spec's current function: a stored function (the line *)
(* of its FUNC record), None (no FUNC yet, a PUBLIC, or a malformed FUNC)  *)
(* or Discard (a FUNC whose insertion failed: it and its following line    *)
(* records are dropped).                                                    *)
(* Which lines are malformed is the parsers' business: Malformed is a     *)
(* parameter.  STACK records only count as errors here; their containers  *)
(* are not part of this view.                                              *)
(***************************************************************************)
EXTENDS Naturals, Sequences, TLC, RangeMaps

CONSTANTS
  Lines,         \* the lines a symbol file may contain
  Malformed(_),  \* the line fails its record's parser
  MaxLines,      \* bound on the number of lines of a file
  ErrorCap       \* loading aborts once the error count exceeds it

VARIABLES
  file,          \* the lines processed so far
  current,       \* the current function
  funcs,         \* the functions container
  funcLines,     \* function -> its line container
  publics,       \* the public-symbol container
  fileNames,     \* file id -> the FILE line naming it
  errors,        \* counted errors
  finished       \* loading has returned

(* The two states of "current" that name no stored function.              *)
None    == 0
Discard == -1

vars == <<file, current, funcs, funcLines, publics, fileNames, errors, finished>>

(* An interior NUL byte counts as one error before the first line.        *)
Init ==
  /\ file = <<>>
  /\ current = None
  /\ funcs = {} /\ funcLines = <<>> /\ publics = {} /\ fileNames = <<>>
  /\ errors \in {0, 1}
  /\ finished = FALSE

(* Process line r, counting err errors; abort once errors exceed the cap. *)
Process(r, err) ==
  /\ ~finished /\ Len(file) < MaxLines
  /\ file' = Append(file, r)
  /\ errors' = errors + err
  /\ finished' = (errors' > ErrorCap)

Func(r) ==
  LET i  == Len(file) + 1
      ok == ~Malformed(r) /\ CanStoreRange(funcs, r.addr, r.size)
  IN
  /\ r.kind = "FUNC"
  /\ Process(r, IF Malformed(r) THEN 1 ELSE 0)
  /\ current' = IF Malformed(r) THEN None ELSE IF ok THEN i ELSE Discard
  /\ funcs' = IF ok THEN funcs \cup {[base |-> r.addr, size |-> r.size, val |-> i]}
              ELSE funcs
  /\ funcLines' = IF ok THEN funcLines @@ (i :> {}) ELSE funcLines
  /\ UNCHANGED <<publics, fileNames>>

(* A line record continues the current function; without one it is an    *)
(* error, and under a discarded function it is dropped.                   *)
LineRec(r) ==
  LET i == Len(file) + 1
      f == current
  IN
  /\ r.kind = "LINE"
  /\ Process(r, IF f = None \/ Malformed(r) THEN 1 ELSE 0)
  /\ funcLines' =
       IF f \in DOMAIN funcLines /\ ~Malformed(r)
          /\ CanStoreRange(funcLines[f], r.addr, r.size)
       THEN [funcLines EXCEPT ![f] = @ \cup {[base |-> r.addr, size |-> r.size,
                                               val |-> i]}]
       ELSE funcLines
  /\ UNCHANGED <<current, funcs, publics, fileNames>>

(* PUBLIC ends the current function; address 0 is accepted and dropped,  *)
(* a second symbol at an address is a structural error.                   *)
Public(r) ==
  LET put == ~Malformed(r) /\ r.addr # 0 IN
  /\ r.kind = "PUBLIC"
  /\ Process(r, IF Malformed(r) \/ (put /\ ~CanStoreAddress(publics, r.addr))
                THEN 1 ELSE 0)
  /\ current' = None
  /\ publics' = IF put THEN StoreAddress(publics, r.addr, Len(file) + 1)
                ELSE publics
  /\ UNCHANGED <<funcs, funcLines, fileNames>>

(* File ids are unique: the first FILE line naming an id is kept.         *)
FileRec(r) ==
  /\ r.kind = "FILE"
  /\ Process(r, IF Malformed(r) THEN 1 ELSE 0)
  /\ fileNames' = IF ~Malformed(r) /\ r.id \notin DOMAIN fileNames
                  THEN fileNames @@ (r.id :> Len(file) + 1) ELSE fileNames
  /\ UNCHANGED <<current, funcs, funcLines, publics>>

(* MODULE and INFO are ignored; STACK records and unknown platforms count *)
(* only as errors in this view.                                            *)
Other(r) ==
  /\ r.kind \notin {"FUNC", "LINE", "PUBLIC", "FILE"}
  /\ Process(r, IF Malformed(r) THEN 1 ELSE 0)
  /\ UNCHANGED <<current, funcs, funcLines, publics, fileNames>>

Finish ==
  /\ ~finished
  /\ finished' = TRUE
  /\ UNCHANGED <<file, current, funcs, funcLines, publics, fileNames, errors>>

Next == Finish \/ \E r \in Lines : Func(r) \/ LineRec(r) \/ Public(r)
                                    \/ FileRec(r) \/ Other(r)

Spec == Init /\ [][Next]_vars

=============================================================================
