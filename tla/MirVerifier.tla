----------------------------- MODULE MirVerifier -----------------------------
(***************************************************************************)
(* src/src/mir/verify.rs: what production compilation demands of lowered   *)
(* code before it is run.  `verify` is the set of its findings; types are  *)
(* left out (the checker's coercions are not modelled), so a finding is    *)
(* about a register, a place, an edge of the graph or an effect.           *)
(*                                                                         *)
(* fn is a function: its blocks, how many variables and registers it has,  *)
(* and whether it is declared to raise.                                    *)
(***************************************************************************)
EXTENDS MirLowering

instruction_result_regs(i) == IF "dest" \in DOMAIN i THEN {i.dest} ELSE {}

instruction_places(i) == IF i.op \in {"load", "store"} THEN {i.place} ELSE {}
IndexRegs(i) == UNION {ToSet(p.index) : p \in instruction_places(i)}

instruction_operand_regs(i) ==
  IndexRegs(i) \union
  CASE i.op \in {"leaf", "prim"} -> ToSet(i.args)
    [] i.op \in {"store", "defvar", "insert", "raise"} -> {i.src}
    [] OTHER -> {}

(* Where a run of blocks sits.  A jump stays in the region, an escape      *)
(* leaves a try for a block of the function.                               *)
RegionContext(region_len, function_len, in_try_region, protected) ==
  [region_len |-> region_len, function_len |-> function_len,
   in_try_region |-> in_try_region, protected |-> protected]
FunctionContext(fn) == RegionContext(Len(fn.blocks), Len(fn.blocks), FALSE, FALSE)

Finding(cond, what) == IF cond THEN {what} ELSE {}

verify_place(fn, p) == Finding(p.root > fn.n_vars, "place has invalid root slot")

(* A raise, or a call that carries an error type; here every call does.    *)
Raising(i) == i.op = "raise" \/ (i.op = "leaf" /\ i.outcome = "call")

verify_instruction(fn, i, context) ==
  UNION {verify_place(fn, p) : p \in instruction_places(i)}
  \union Finding(\E r \in instruction_result_regs(i) \union instruction_operand_regs(i) :
                   r > fn.n_regs, "invalid register")
  \union Finding(Raising(i) /\ ~fn.raises /\ ~context.protected,
                 "unprotected raise in nonraising function")

(* Mutant: an escape is bounded by the region it leaves. *)
EscapeFindingsRegion(target, context) ==
  Finding(~context.in_try_region, "EscapeJump terminator outside a try region")
  \union Finding(target > context.region_len, "escape to invalid block")
EscapeFindings(target, context) ==
  Finding(~context.in_try_region, "EscapeJump terminator outside a try region")
  \union Finding(target > context.function_len, "escape to invalid block")

verify_terminator(t, context) ==
  CASE t.op = "jump"    -> Finding(t.to > context.region_len, "jump to invalid block")
    [] t.op = "branch"  -> Finding(t.then_b > context.region_len \/ t.else_b > context.region_len,
                                   "branch to invalid block")
    [] t.op = "falloff" -> Finding(~context.in_try_region,
                                   "FallOff terminator outside a try region")
    [] t.op = "escape"  -> EscapeFindings(t.to, context)
    [] OTHER            -> {}

PartContext(i, part, context) ==
  RegionContext(Len(i[part]), context.function_len, TRUE,
                (part = "body" /\ i.handles) \/ context.protected)
Parts == {"body", "handler", "orelse", "final"}

(* A run of blocks in its context, with those of the tries in it.          *)
RECURSIVE verify_blocks(_, _, _)
verify_blocks(fn, bs, context) ==
  UNION {verify_terminator(bs[b].term, context)
         \union UNION {LET i == bs[b].instrs[n]
                       IN  IF i.op = "try"
                           THEN UNION {verify_blocks(fn, i[part], PartContext(i, part, context))
                                         : part \in Parts}
                           ELSE verify_instruction(fn, i, context)
                         : n \in DOMAIN bs[b].instrs}
           : b \in DOMAIN bs}

verify(fn) == verify_blocks(fn, fn.blocks, FunctionContext(fn))

(* A lowered body as a function.                                           *)
Function(lowered, raises) ==
  [blocks |-> lowered.blocks, n_vars |-> Len(lowered.vars), n_regs |-> lowered.reg - 1,
   raises |-> raises]
=============================================================================
