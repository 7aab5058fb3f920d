---------------------------- MODULE LoanAnalysis ----------------------------
(***************************************************************************)
(* What the analyses of src/src/analysis/mod.rs know of one instruction:   *)
(* the variables it uses, defines and moves, the places it accesses, and   *)
(* when an access conflicts with a loan.                                   *)
(*                                                                         *)
(* Instructions are records [op, var, path, thru, mutable], `thru` being   *)
(* the reference a place is accessed through:                              *)
(*   nop      touches no variable                                          *)
(*   def      DefVar                                                       *)
(*   use      UseVar Copy                                                  *)
(*   keep     KeepAlive, HasNext, Next, MakeRef of a plain variable        *)
(*   move     UseVar Move                                                  *)
(*   load     LoadPlace                                                    *)
(*   store    Store, StoreRef, MultiSet, VariantSet, VariantReplace        *)
(*   take     MovePlace                                                    *)
(*   loan     BeginLoan: `thru` borrows the place                          *)
(*   deref    MakeRef and ReadRef of a reference chosen at run time        *)
(*   method   MethodCall on a receiver's place                             *)
(*   writeback  Call with the place of a `mut` argument                    *)
(*   consume  ConsumeVar after a named destructor                          *)
(*   try      Try, with the fields body, handler, orelse, final            *)
(***************************************************************************)
EXTENDS Integers, Sequences, SequencesExt, FiniteSetsExt

CONSTANTS
  Vars,   \* variable slots: integers, in the order of declaration
  NoRef   \* a place that is not accessed through a reference

ASSUME VarsAssumption == Vars \subseteq Int /\ NoRef \notin Vars

Regions(t) == t.body \o t.handler \o t.orelse \o t.final

Thru(i) == {i.thru} \ {NoRef}
PlaceOps == {"load", "store", "take"}

(* `var_uses` of an instruction other than Try.  Neither a Call's argument  *)
(* places nor ConsumeVar are uses.                                          *)
plain_uses(i) ==
  CASE i.op \in {"use", "keep", "move", "deref", "method", "loan"} -> {i.var}
    [] i.op \in PlaceOps -> {i.var} \union Thru(i)
    [] OTHER -> {}

(* `region_uses`: regions hold no nested try here. *)
region_uses(region) == UNION {plain_uses(i) : i \in ToSet(region)}

var_uses(i) == IF i.op = "try" THEN region_uses(Regions(i)) ELSE plain_uses(i)

var_def(i) == IF i.op = "def" THEN {i.var} ELSE {}
var_moved(i) == IF i.op = "move" THEN {i.var} ELSE {}
loan_liveness_def(i) == IF i.op = "loan" THEN {i.thru} ELSE var_def(i)

(* `region_cleanup_vars` and the sets of `try_region_defs`. *)
region_defs(region) == UNION {var_def(i) : i \in ToSet(region)}
region_moved(region) == UNION {var_moved(i) : i \in ToSet(region)}
region_cleanup_vars(region) == region_defs(region) \ region_moved(region)

(* `mir_places_overlap`: equal fields, and any two indices, overlap. *)
mir_places_overlap(v, p, w, q) ==
  v = w /\ \A k \in DOMAIN p \cap DOMAIN q : p[k] = q[k]

(* `loan_accesses`: how an instruction accesses its place.  A Try has no   *)
(* arm, nor has reading through a reference chosen at run time.             *)
loan_accesses(i) ==
  CASE i.op \in {"use", "load"} -> {"Read"}
    [] i.op \in {"def", "move", "store", "take", "method", "writeback",
                 "consume"} -> {"Write"}
    [] OTHER -> {}

(* The loans of a function: all its BeginLoans outside of try regions. *)
LoansOf(code) == {i \in code : i.op = "loan"}
roots_of(code, r) == {l.var : l \in {k \in LoansOf(code) : k.thru = r}}

(* Does starting `loan` conflict with one of a live reference `other`? *)
BeginConflicts(loan, other, loans) ==
  /\ other # loan.thru
  /\ \E l \in loans :
       /\ l.thru = other /\ (loan.mutable \/ l.mutable)
       /\ mir_places_overlap(loan.var, loan.path, l.var, l.path)

(* Does the access of `i` conflict with a loan of a live reference? *)
AccessConflicts(i, reference, loans) ==
  \E access \in loan_accesses(i), l \in loans :
    /\ l.thru = reference
    /\ IF i.thru = reference THEN access = "Write" /\ ~l.mutable
       ELSE /\ access = "Write" \/ l.mutable
            /\ mir_places_overlap(i.var, i.path, l.var, l.path)

(* Mutant: only loads, stores and loans are checked, definitions are not. *)
conflicts_no_def(i, live, loans) ==
  \E r \in live :
    IF i.op = "loan" THEN BeginConflicts(i, r, loans)
    ELSE i.op # "def" /\ AccessConflicts(i, r, loans)

(* The conflict report of `analyze_loans` at one instruction, `live` being *)
(* the variables live before it.                                           *)
conflicts(i, live, loans) ==
  \E r \in live :
    IF i.op = "loan" THEN BeginConflicts(i, r, loans)
    ELSE AccessConflicts(i, r, loans)

-----------------------------------------------------------------------------
(* `transfer_liveness` for one instruction. *)
transfer_liveness(i, live) == (live \ loan_liveness_def(i)) \union var_uses(i)

(* `extend_with_loan_roots`: the owners behind live references, the owners *)
(* behind those, and so on: what its loop adds, and no more.               *)
RootsIn(S, code) == \A r \in S : roots_of(code, r) \subseteq S
extend_with_loan_roots(live, code) ==
  {v \in Vars : \A S \in SUBSET Vars : live \subseteq S /\ RootsIn(S, code) => v \in S}

(* `transfer_drop_liveness` for one instruction. *)
transfer_drop_liveness(i, live, code) ==
  extend_with_loan_roots((live \ var_def(i)) \union var_uses(i), code)
=============================================================================
