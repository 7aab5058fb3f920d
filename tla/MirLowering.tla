----------------------------- MODULE MirLowering -----------------------------
(***************************************************************************)
(* src/src/mir/mod.rs: the flattening of the basic blocks' expressions     *)
(* into instructions over registers, with blocks of its own for what short *)
(* circuits, and of try statements into regions.                           *)
(*                                                                         *)
(* F is the state of `Flatten`; `val` is the register of the expression    *)
(* just flattened.  A region's interner, registers and block numbers are   *)
(* those of the code: variables and registers go on from the function's,   *)
(* blocks start again.  What the checker knows of a comprehension's binder *)
(* (its owner) is modelled by `binders`, the innermost last.               *)
(***************************************************************************)
EXTENDS HirLowering, TLC

Root(slot) == [root |-> slot, index |-> <<>>]

emit(F, i) == [F EXCEPT !.blocks[F.cur].instrs = Append(@, i)]
Result(F, i) ==
  [emit(F, i @@ [dest |-> F.reg]) EXCEPT !.val = F.reg, !.reg = @ + 1]
terminate(F, t) == [F EXCEPT !.blocks[F.cur].term = t]
mir_blocks(F, count) == new_blocks(F, count)
fresh_var(F) == [F EXCEPT !.vars = Append(@, <<"$sc", Len(F.vars)>>)]

Intern(F, runtime) == [F EXCEPT !.vars = var(@, runtime)]
SlotOf(F, runtime) == var_id(F.vars, runtime)

DefVar(F, slot, src) == emit(F, [op |-> "defvar", var |-> slot, src |-> src])
UseVar(F, slot) == Result(F, [op |-> "usevar", var |-> slot])

(* A name is the binder the checker says, or the slot of its runtime name. *)
expression_var(F, e) ==
  LET bound == {i \in DOMAIN F.binders : F.binders[i].n = e.n}
  IN  IF bound # {} THEN F.binders[CHOOSE i \in bound : \A j \in bound : j <= i].slot
      ELSE SlotOf(F, e.r)
NamesKnown(F, e) == IF e.k = "var" THEN Intern(F, e.r) ELSE F

(* An alias stands for the place it was declared with.                     *)
resolved_place(F, slot) ==
  IF slot \in DOMAIN F.aliases THEN F.aliases[slot] ELSE Root(slot)

-----------------------------------------------------------------------------
RECURSIVE lower_expr(_, _), args(_, _), Operation(_, _, _), short_circuit(_, _),
          ternary(_, _), compare_links(_, _, _, _, _, _), compare_chain(_, _),
          comprehension_if(_, _, _, _), comprehension_for(_, _, _, _),
          comprehension_clauses(_, _, _, _), comprehension(_, _), lower_named(_, _),
          lower_identifier(_, _)

lower_expr(F, e) ==
  CASE e.k \in {"var", "slot"} -> lower_identifier(F, e)
    [] e.k \in {"and", "or"}  -> short_circuit(F, e)
    [] e.k = "if"             -> ternary(F, e)
    [] e.k = "compare"        -> compare_chain(F, e)
    [] e.k = "comprehension"  -> comprehension(F, e)
    [] e.k = "named"          -> lower_named(F, e)
    [] e.k \in {"int", "none"} -> Result(F, [op |-> "const", k |-> e.k, n |-> e.id])
    [] e.k = "test"  -> Operation(F, e, [op |-> "leaf", id |-> <<e.id>>, outcome |-> "bool"])
    [] e.k = "call"  -> Operation(F, e, [op |-> "leaf", id |-> <<e.id>>, outcome |-> "call"])
    [] e.k = "tstring" -> Operation(F, e, [op |-> "prim", n |-> "join"])
    [] e.k = "index" -> Operation(F, e, [op |-> "prim", n |-> "index"])
    [] OTHER         -> Operation(F, e, [op |-> "prim", n |-> e.n])

(* Operands left to right; `vals` collects their registers.                *)
args(F, es) ==
  IF es = <<>> THEN [f |-> F, regs |-> <<>>]
  ELSE Then(args(F, Front(es)), LAMBDA rest :
         LET G == lower_expr(rest.f, Last(es))
         IN  [f |-> G, regs |-> Append(rest.regs, G.val)])

Operation(F, e, i) ==
  LET G == args(F, e.args) IN Result(G.f, i @@ [args |-> G.regs])

lower_identifier(F, e) ==
  LET G == NamesKnown(F, e)
      slot == expression_var(G, e)
  IN  IF slot \in DOMAIN G.aliases
      THEN Result(G, [op |-> "load", place |-> G.aliases[slot]])
      ELSE UseVar(G, slot)

short_circuit(F, e) ==
  Then(lower_expr(F, e.args[1]), LAMBDA left :
    LET result == Len(left.vars) + 1
        rhs == next_block(left)
        seeded == DefVar(fresh_var(left), result, left.val)
        forked == terminate(mir_blocks(seeded, 2), IF e.k = "and" THEN Branch(left.val, rhs, rhs + 1)
                                                   ELSE Branch(left.val, rhs + 1, rhs))
    IN  Then(lower_expr(At(forked, rhs), e.args[2]), LAMBDA right :
          UseVar(At(terminate(DefVar(right, result, right.val), Jump(rhs + 1)), rhs + 1),
                 result)))

ternary_arm(F, block_id, a, result, merge) ==
  Then(lower_expr(At(F, block_id), a), LAMBDA value :
    terminate(DefVar(value, result, value.val), Jump(merge)))
ternary(F, e) ==
  Then(lower_expr(F, e.args[1]), LAMBDA cond :
    LET result == Len(cond.vars) + 1
        then_b == next_block(cond)
        forked == terminate(mir_blocks(fresh_var(cond), 3),
                            Branch(cond.val, then_b, then_b + 1))
        arm == ternary_arm(forked, then_b, e.args[2], result, then_b + 2)
        other == ternary_arm(arm, then_b + 1, e.args[3], result, then_b + 2)
    IN  UseVar(At(other, then_b + 2), result))

(* a < b < c: each operand once; a false link is the answer.               *)
compare_links(F, e, i, prev, result, merge) ==
  Then(lower_expr(F, e.args[i]), LAMBDA operand :
    LET compared == Result(operand, [op |-> "leaf", id |-> <<e.id, i>>, outcome |-> "bool",
                                     args |-> <<prev, operand.val>>])
        rest == next_block(operand)
    IN  IF i = Len(e.args)
        THEN terminate(DefVar(compared, result, operand.reg), Jump(merge))
        ELSE compare_links(
               At(terminate(mir_blocks(DefVar(compared, result, operand.reg), 1),
                            Branch(operand.reg, rest, merge)), rest),
               e, i + 1, operand.val, result, merge))
compare_chain(F, e) ==
  LET result == Len(F.vars) + 1
      merge == next_block(F)
  IN  Then(lower_expr(mir_blocks(fresh_var(F), 1), e.args[1]), LAMBDA first :
        UseVar(At(compare_links(first, e, 2, first.val, result, merge), merge), result))

(* The clauses nest like the statements they stand for.                    *)
comprehension_if(F, e, i, collection) ==
  Then(lower_expr(F, e.args[i].args[1]), LAMBDA cond :
    LET body == next_block(cond)
        tested == terminate(mir_blocks(cond, 2), Branch(cond.val, body, body + 1))
        inner == comprehension_clauses(At(tested, body), e, i + 1, collection)
    IN  At(terminate(inner, Jump(body + 1)), body + 1))

(* The header asks, the body takes the element into the binder.            *)
comprehension_loop(F, iterator) ==
  LET header == next_block(F)
      asked == Result(At(terminate(mir_blocks(F, 3), Jump(header)), header),
                      [op |-> "hasnext", iter |-> iterator])
  IN  Result(At(terminate(asked, Branch(F.reg, header + 1, header + 2)), header + 1),
             [op |-> "next", iter |-> iterator])
comprehension_for(F, e, i, collection) ==
  LET c == e.args[i]
      iterator == Len(F.vars) + 1
      Bound(taken) ==
        DefVar([taken EXCEPT !.vars = Append(@, <<"$comp", Len(@)>>),
                             !.binders = Append(@, [n |-> c.n, slot |-> Len(taken.vars) + 1])],
               Len(taken.vars) + 1, taken.val)
      Ready(source) ==
        emit(DefVar(source, iterator, source.val), [op |-> "getiter", iter |-> iterator])
  IN  Then(Ready(lower_expr(Intern(F, <<"$compiter", Len(F.vars)>>), c.args[1])), LAMBDA ready :
        LET bound == Bound(comprehension_loop(ready, iterator))
            header == next_block(ready)
        IN  [At(terminate(comprehension_clauses(bound, e, i + 1, collection), Jump(header)),
                header + 2) EXCEPT !.binders = F.binders])

comprehension_clauses(F, e, i, collection) ==
  IF i = Len(e.args)
  THEN Then(lower_expr(F, e.args[i]), LAMBDA value :
         emit(value, [op |-> "insert", var |-> collection, src |-> value.val]))
  ELSE IF e.args[i].k = "cif" THEN comprehension_if(F, e, i, collection)
       ELSE comprehension_for(F, e, i, collection)

comprehension(F, e) ==
  LET collection == Len(F.vars) + 1
      empty == Result(F, [op |-> "prim", n |-> "list", args |-> <<>>])
      held == DefVar(fresh_var(empty), collection, F.reg)
  IN  UseVar(comprehension_clauses(held, e, 1, collection), collection)

lower_named(F, e) ==
  Then(lower_expr(F, e.args[1]), LAMBDA value :
    LET G == Intern(value, e.r)
    IN  [DefVar(G, SlotOf(G, e.r), value.val) EXCEPT !.val = value.val])

-----------------------------------------------------------------------------
(* Places of references: a variable or an element of one.                  *)
RECURSIVE place(_, _)
place(F, e) ==
  IF e.k = "index"
  THEN Then(place(F, e.args[1]), LAMBDA base :
         Then(lower_expr(base, e.args[2]), LAMBDA at :
           [at EXCEPT !.val = [base.val EXCEPT !.index = Append(@, at.val)]]))
  ELSE LET G == NamesKnown(F, e)
       IN  [G EXCEPT !.val = resolved_place(G, expression_var(G, e))]

(* `ref` declarations of places; the alias stays in the table when its     *)
(* scope ends.                                                             *)
lower_ref_decl(F, s) ==
  LET G == Intern(F, s.r)
  IN  Then(place(G, s.e), LAMBDA target :
        [target EXCEPT !.aliases = (SlotOf(G, s.r) :> target.val) @@ @])

Assign(F, slot, src) ==
  IF slot \in DOMAIN F.aliases
  THEN emit(F, [op |-> "store", place |-> F.aliases[slot], src |-> src])
  ELSE DefVar(F, slot, src)

(* Opaque statements name variables as the source does.                    *)
lower_aug_assign(F, s) ==
  LET G == Intern(F, Runtime(s.n))
      slot == SlotOf(G, Runtime(s.n))
      Combine(old, rhs) ==
        Assign(Result(rhs, [op |-> "prim", n |-> "op", args |-> <<old, rhs.val>>]),
               slot, rhs.reg)
  IN  Then(lower_expr(G, E("var", s.n, "", <<>>)), LAMBDA old :
        Then(lower_expr(old, s.e), LAMBDA rhs : Combine(old.val, rhs)))

unpack_target(F, tuple, runtime, i) ==
  LET index == Result(F, [op |-> "const", k |-> "int", n |-> i - 1])
      elem == Result(index, [op |-> "prim", n |-> "index", args |-> <<tuple, F.reg>>])
  IN  DefVar(Intern(elem, runtime), var_id(var(F.vars, runtime), runtime), F.reg + 1)
lower_unpack(F, s) ==
  Then(lower_expr(F, s.e), LAMBDA tuple :
    FoldLeft(LAMBDA G, i : unpack_target(G, tuple.val, Runtime(s.targets[i]), i),
             tuple, [i \in DOMAIN s.targets |-> i]))

lower_bind(F, i) ==
  Then(lower_expr(F, i.e), LAMBDA value : Assign(value, i.dest, value.val))

lower_next(F, i) ==
  LET item == Result(F, [op |-> "next", iter |-> i.iter]) IN DefVar(item, i.dest, item.val)
lower_has_next(F, i) ==
  LET has == Result(F, [op |-> "hasnext", iter |-> i.iter]) IN DefVar(has, i.dest, has.val)

RECURSIVE region_crosses_control(_)
region_crosses_control(body) ==
  \E i \in DOMAIN body :
    CASE body[i].k \in {"break", "continue"} -> TRUE
      [] body[i].k \in {"if", "try"} ->
           \E b \in SubBodies(body[i]) : region_crosses_control(b)
      [] OTHER -> FALSE

-----------------------------------------------------------------------------
(* The blocks of a graph, in the order they were allocated.                *)
lower_term(F, t) ==
  CASE t.op = "branch" -> Then(lower_expr(F, t.cond), LAMBDA cond :
                            terminate(cond, Branch(cond.val, t.then_b, t.else_b)))
    [] t.op = "return" -> Then(lower_expr(F, t.e), LAMBDA value :
                            terminate(value, [op |-> "return", src |-> value.val]))
    [] t.op = "open"   -> terminate(F, [op |-> "falloff"])
    [] OTHER           -> terminate(F, t)

RECURSIVE lower_instr(_, _), lower_instrs(_, _), lower_blocks(_, _),
          lower_region(_, _, _), emit_try(_, _, _), lower_try_stmt(_, _), lower_stmt(_, _)

lower_instr(F, i) ==
  CASE i.op = "bind"    -> lower_bind(F, i)
    [] i.op = "eval"    -> lower_expr(F, i.e)
    [] i.op = "stmt"    -> lower_stmt(F, i.s)
    [] i.op = "try"     -> emit_try(F, i.s, i.targets)
    [] i.op = "getiter" -> emit(F, i)
    [] i.op = "hasnext" -> lower_has_next(F, i)
    [] i.op = "next"    -> lower_next(F, i)
lower_instrs(F, instrs) ==
  IF instrs = <<>> THEN F
  ELSE Then(lower_instrs(F, Front(instrs)), LAMBDA G : lower_instr(G, Last(instrs)))

lower_blocks(F, graph) ==
  IF graph = <<>> THEN F
  ELSE Then(lower_blocks(F, Front(graph)), LAMBDA G :
         lower_term(lower_instrs(At(G, Len(graph)), Last(graph).instrs), Last(graph).term))

(* A region shares the registers and variables of its function; aliases    *)
(* that it declares are its own.                                           *)
lower_region(F, body, targets) ==
  Then(build_seeded(F.vars, body, targets), LAMBDA region :
    LET inside == lower_blocks([F EXCEPT !.blocks = [b \in DOMAIN region.blocks |-> BasicBlock],
                                         !.vars = region.vars], region.blocks)
    IN  Then(inside, LAMBDA G :
          [F EXCEPT !.reg = G.reg, !.vars = G.vars, !.parts = Append(@, G.blocks)]))

(* Body, handler, `else` and `finally`, in that order.                     *)
TryInstr(s, slot, parts) ==
  [op |-> "try", slot |-> slot, handles |-> s.handler # <<>>,
   body |-> parts[1], handler |-> parts[2], orelse |-> parts[3], final |-> parts[4]]
regions(F, named, handler, orelse, final, targets) ==
  LET after_body == IF named = "" THEN F ELSE Intern(F, Runtime(named))
  IN  lower_region(lower_region(lower_region(after_body, handler, targets),
                                orelse, targets), final, targets)
emit_try(F, s, targets) ==
  LET body == lower_region([F EXCEPT !.parts = <<>>], s.body, targets)
  IN  Then(regions(body, s.hname, s.handler, s.orelse, s.final, targets), LAMBDA G :
        emit([G EXCEPT !.parts = F.parts],
             TryInstr(s, IF s.hname = "" THEN 0 ELSE SlotOf(G, Runtime(s.hname)), G.parts)))

Unsupported(F) == emit(F, [op |-> "unsupported"])

lower_try_stmt(F, s) ==
  IF region_crosses_control(<<s>>) THEN Unsupported(F) ELSE emit_try(F, s, <<>>)

lower_stmt(F, s) ==
  CASE s.k = "ref"    -> lower_ref_decl(F, s)
    [] s.k = "aug"    -> lower_aug_assign(F, s)
    [] s.k = "unpack" -> lower_unpack(F, s)
    [] s.k = "raise"  -> Then(lower_expr(F, s.e), LAMBDA value :
                           emit(value, [op |-> "raise", src |-> value.val]))
    [] s.k = "try"    -> lower_try_stmt(F, s)
    [] s.k = "pass"   -> F
    [] OTHER          -> Unsupported(F)

lower_cfg(cfg) ==
  lower_blocks([blocks |-> [b \in DOMAIN cfg.blocks |-> BasicBlock], cur |-> 1, reg |-> 1,
                vars |-> cfg.vars, aliases |-> <<>>, binders |-> <<>>, parts |-> <<>>, val |-> 0],
               cfg.blocks)
=============================================================================
