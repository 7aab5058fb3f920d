----------------------------- MODULE HirLowering -----------------------------
(***************************************************************************)
(* src/src/hir/mod.rs: the lowering of a body of statements into basic     *)
(* blocks.  The operators are pure: a cursor L (`Lower`) is threaded       *)
(* through the statements, in the order the code visits them.              *)
(*                                                                         *)
(* Expressions are trees [k, n, r, id, args]: kind, name, the runtime name *)
(* the name was resolved to, a label, and operands.  A runtime name is     *)
(* <<name, 0>>, or <<name, s>> where the code writes "name$shadow<s>".     *)
(* A statement is a record with its kind k; a missing suite is <<>>.       *)
(***************************************************************************)
EXTENDS Integers, Sequences, SequencesExt, FiniteSets, Sequencing

Runtime(name) == <<name, 0>>

E(kind, name, label, operands) ==
  [k |-> kind, n |-> name, r |-> Runtime(name), id |-> label, args |-> operands]

(* A variable of the compiler's own, which no scope has.                   *)
Temporary(runtime) == [E("slot", runtime[1], "", <<>>) EXCEPT !.r = runtime]

SubBodies(s) ==
  CASE s.k = "if"    -> {s.branches[i].body : i \in DOMAIN s.branches} \union {s.orelse}
    [] s.k \in {"while", "for"} -> {s.body, s.orelse}
    [] s.k = "try"   -> {s.body, s.handler, s.orelse, s.final}
    [] OTHER         -> {}

(* The names that a body declares with `var` or `ref`; the `else` of a     *)
(* loop is not looked into.                                                *)
RECURSIVE explicit_local_names(_)
explicit_local_names(body) ==
  UNION {LET s == body[i]
         IN  (IF s.k \in {"var", "ref"} THEN {s.n} ELSE {})
             \union UNION {explicit_local_names(b) :
                             b \in IF s.k \in {"while", "for"} THEN {s.body}
                                   ELSE SubBodies(s)} : i \in DOMAIN body}

RECURSIVE collect_named_expr(_)
collect_named_expr(e) ==
  (IF e.k = "named" THEN {e.n} ELSE {})
    \union UNION {collect_named_expr(e.args[i]) : i \in DOMAIN e.args}

statement_expressions(s) ==
  CASE s.k \in {"var", "ref", "assign", "aug", "unpack", "raise", "eval", "return"} -> {s.e}
    [] s.k \in {"while", "for"} -> {s.e}
    [] s.k = "if" -> {s.branches[i].cond : i \in DOMAIN s.branches}
    [] OTHER -> {}

(* Names introduced without `var`: they live in the function's root scope. *)
RECURSIVE collect_function_implicit_names(_, _)
collect_function_implicit_names(body, explicit) ==
  UNION {LET s == body[i]
         IN  (IF s.k = "assign" THEN {s.n} \ explicit ELSE {})
             \union UNION {collect_named_expr(e) : e \in statement_expressions(s)}
             \union UNION {collect_function_implicit_names(b, explicit) : b \in SubBodies(s)}
         : i \in DOMAIN body}

-----------------------------------------------------------------------------
(* The cursor: blocks, the block that is appended to, enclosing loops      *)
(* (innermost last), interned runtime names, and scopes.                   *)
Open == [op |-> "open"]
BasicBlock == [instrs |-> <<>>, term |-> Open]
NewLower(vars, root, loops, is_function) ==
  [blocks |-> <<BasicBlock>>, cur |-> 1, loops |-> loops, vars |-> vars,
   scopes |-> <<root>>, is_function |-> is_function]

LoopFrame(header, exit, escape) == [header |-> header, exit |-> exit, escape |-> escape]

(* Nothing is added to a block that has its terminator.                    *)
seal(L, t) ==
  IF L.blocks[L.cur].term # Open THEN L ELSE [L EXCEPT !.blocks[L.cur].term = t]
push(L, i) ==
  IF L.blocks[L.cur].term # Open THEN L ELSE [L EXCEPT !.blocks[L.cur].instrs = Append(@, i)]

new_blocks(L, count) == [L EXCEPT !.blocks = @ \o [i \in 1 .. count |-> BasicBlock]]
next_block(L) == Len(L.blocks) + 1     \* the next block's id
At(L, block) == [L EXCEPT !.cur = block]

Jump(b) == [op |-> "jump", to |-> b]
Branch(cond, then_b, else_b) ==
  [op |-> "branch", cond |-> cond, then_b |-> then_b, else_b |-> else_b]

(* A variable's id is its place in the interner.                           *)
var(vars, runtime) ==
  IF Contains(vars, runtime) THEN vars ELSE Append(vars, runtime)
var_id(vars, runtime) == CHOOSE i \in DOMAIN vars : vars[i] = runtime

resolved(scopes, name) ==
  LET known == {i \in DOMAIN scopes : name \in DOMAIN scopes[i]}
  IN  IF known = {} THEN Runtime(name)
      ELSE scopes[CHOOSE i \in known : \A j \in known : j <= i][name]

Bind(scope, name, runtime) ==
  [n \in DOMAIN scope \union {name} |-> IF n = name THEN runtime ELSE scope[n]]

(* A declaration gets a slot of its own when a scope other than the last   *)
(* has the name.                                                           *)
(* Mutant: no declaration gets one. *)
declare_var_shared(L, name) ==
  LET runtime == Runtime(name)
  IN  [L EXCEPT !.scopes[Len(L.scopes)] = Bind(@, name, runtime),
                !.vars = var(@, runtime)]
declare_var(L, name) ==
  LET outer == \E i \in 1 .. Len(L.scopes) - 1 : name \in DOMAIN L.scopes[i]
      runtime == IF outer THEN <<name, Len(L.vars)>> ELSE Runtime(name)
  IN  [L EXCEPT !.scopes[Len(L.scopes)] = Bind(@, name, runtime),
                !.vars = var(@, runtime)]

(* The parts of a t-string are not renamed.                                *)
RECURSIVE rename_expr(_, _)
rename_expr(e, scopes) ==
  IF e.k = "tstring" THEN e
  ELSE [e EXCEPT !.r = IF e.k \in {"var", "named"} THEN resolved(scopes, e.n) ELSE e.r,
                 !.args = [i \in DOMAIN e.args |-> rename_expr(e.args[i], scopes)]]

expr(L, e) == rename_expr(e, L.scopes)

-----------------------------------------------------------------------------
(* `Lower::stmt`, one operator to an arm.                                  *)
RECURSIVE block(_, _), scoped_block(_, _), lower_branches(_, _, _), lower_if(_, _),
          LoopBody(_, _, _), LeaveLoop(_, _, _), lower_while(_, _), lower_for(_, _),
          lower_for_ref(_, _), lower_ref(_, _), lower_break_continue(_, _), lower_var(_, _),
          lower_assign(_, _), lower_try(_, _), stmt(_, _)

StmtInstr(s) == [op |-> "stmt", s |-> s]

stmt(L, s) ==
  CASE s.k = "if"     -> lower_if(L, s)
    [] s.k = "while"  -> lower_while(L, s)
    [] s.k = "for"    -> IF s.reference THEN lower_for_ref(L, s) ELSE lower_for(L, s)
    [] s.k \in {"break", "continue"} -> lower_break_continue(L, s)
    [] s.k = "return" -> seal(L, [op |-> "return", e |-> expr(L, s.e)])
    [] s.k = "var"    -> lower_var(L, s)
    [] s.k = "ref"    -> lower_ref(L, s)
    [] s.k = "assign" -> lower_assign(L, s)
    [] s.k = "eval"   -> push(L, [op |-> "eval", e |-> expr(L, s.e)])
    [] s.k = "try"    -> lower_try(L, s)
    [] OTHER          -> push(L, StmtInstr(s))

scoped_block(L, body) ==
  LET inside == block([L EXCEPT !.scopes = Append(@, <<>>)], body)
  IN  [inside EXCEPT !.scopes = Front(@)]

lower_branches(L, branches, join) ==
  IF branches = <<>> THEN L
  ELSE LET then_b == next_block(L)
           tested == seal(new_blocks(L, 2),
                          Branch(expr(L, Head(branches).cond), then_b, then_b + 1))
           arm == seal(scoped_block(At(tested, then_b), Head(branches).body), Jump(join))
       IN  lower_branches(At(arm, then_b + 1), Tail(branches), join)

lower_if(L, s) ==
  LET join == next_block(L)
      tested == lower_branches(new_blocks(L, 1), s.branches, join)
  IN  At(seal(scoped_block(tested, s.orelse), Jump(join)), join)

(* The loops have one shape: header, body, exit, and a block for `else`.   *)
LoopBlocks(L, s) ==
  [header |-> next_block(L), body |-> next_block(L) + 1, exit |-> next_block(L) + 2,
   normal_exit |-> IF s.orelse = <<>> THEN next_block(L) + 2 ELSE next_block(L) + 3]
EnterLoop(L, s) ==
  At(seal(new_blocks(L, IF s.orelse = <<>> THEN 3 ELSE 4), Jump(next_block(L))), next_block(L))
LoopBody(L, b, s) ==
  LET inside == block([L EXCEPT !.loops = Append(@, LoopFrame(b.header, b.exit, FALSE))],
                      s.body)
  IN  [inside EXCEPT !.loops = Front(@)]
LeaveLoop(L, b, s) ==
  LET back == seal(L, Jump(b.header))
  IN  At(IF s.orelse = <<>> THEN back
         ELSE seal(scoped_block(At(back, b.normal_exit), s.orelse), Jump(b.exit)),
         b.exit)

lower_while(L, s) ==
  LET b == LoopBlocks(L, s)
      header == EnterLoop(L, s)
      tested == seal(header, Branch(expr(header, s.e), b.body, b.normal_exit))
  IN  LeaveLoop(LoopBody(At(tested, b.body), b, s), b, s)

(* The iterable is evaluated once, into a slot of its own; the header asks *)
(* whether there is a next element; the body starts by taking it.  The     *)
(* loop's variable is interned, not declared.                              *)
lower_for(L, s) ==
  LET iter == <<"$iter", Len(L.vars)>>
      bound == push([L EXCEPT !.vars = var(@, iter)],
                    [op |-> "bind", dest |-> Len(L.vars) + 1, e |-> expr(L, s.e)])
      ready == push(bound, [op |-> "getiter", iter |-> Len(L.vars) + 1])
      b == LoopBlocks(ready, s)
      has == <<"$hasnext", Len(ready.vars)>>
      header == EnterLoop([ready EXCEPT !.vars = var(@, has)], s)
      asked == push(header, [op |-> "hasnext", iter |-> Len(L.vars) + 1,
                             dest |-> Len(ready.vars) + 1])
      tested == seal(asked, Branch(Temporary(has), b.body, b.normal_exit))
      named == [tested EXCEPT !.vars = var(@, Runtime(s.n))]
      taken == push(At(named, b.body),
                    [op |-> "next", iter |-> Len(L.vars) + 1,
                     dest |-> var_id(named.vars, Runtime(s.n))])
  IN  LeaveLoop(LoopBody(taken, b, s), b, s)

lower_ref(L, s) ==
  LET value == expr(L, s.e)
      declared == declare_var(L, s.n)
      runtime == resolved(declared.scopes, s.n)
  IN  push(declared, StmtInstr([s EXCEPT !.e = value] @@ [r |-> runtime]))

(* `for ref x in xs`: an index is counted up at the end of the body, which *)
(* starts by declaring x a reference to xs[index].                         *)
(* Mutant: the index is not counted. *)
count_index_not(L, slot, index) == L
count_index(L, slot, index) ==
  push(L, [op |-> "bind", dest |-> slot, e |-> E("prim", "inc", "", <<index>>)])

lower_for_ref(L, s) ==
  LET idx == <<"$refindex", Len(L.vars)>>
      index == Temporary(idx)
      slot == Len(L.vars) + 1
      zero == push([L EXCEPT !.vars = var(@, idx)],
                   [op |-> "bind", dest |-> slot, e |-> E("int", "", 0, <<>>)])
      b == LoopBlocks(zero, s)
      header == EnterLoop(zero, s)
      length == E("prim", "len", "", <<E("var", s.e.n, "", <<>>)>>)
      tested == seal(header, Branch(E("prim", "lt", "", <<index, length>>),
                                    b.body, b.normal_exit))
      element == lower_ref(At(tested, b.body),
                           [k |-> "ref", n |-> s.n,
                            e |-> E("index", "", "", <<E("var", s.e.n, "", <<>>), index>>)])
  IN  LeaveLoop(count_index(LoopBody(element, b, s), slot, index), b, s)

lower_break_continue(L, s) ==
  IF L.loops = <<>> THEN push(L, StmtInstr(s))
  ELSE LET f == Last(L.loops)
           target == IF s.k = "break" THEN f.exit ELSE f.header
       IN  seal(L, IF f.escape THEN [op |-> "escape", to |-> target] ELSE Jump(target))

lower_var(L, s) ==
  LET declared == declare_var(L, s.n)
  IN  push(declared, [op |-> "bind", e |-> expr(L, s.e),
                      dest |-> var_id(declared.vars, resolved(declared.scopes, s.n))])

lower_assign(L, s) ==
  LET known == \E i \in DOMAIN L.scopes : s.n \in DOMAIN L.scopes[i]
      visible == IF known THEN L
                 ELSE [L EXCEPT !.scopes[Len(L.scopes)] = Bind(@, s.n, Runtime(s.n))]
      vars == var(L.vars, resolved(visible.scopes, s.n))
  IN  push([visible EXCEPT !.vars = vars],
           [op |-> "bind", e |-> expr(L, s.e),
            dest |-> var_id(vars, resolved(visible.scopes, s.n))])

(* The loops that a break or continue in the try may leave it for; they    *)
(* must be loops of the function.                                          *)
lower_try(L, s) ==
  IF L.is_function \/ \A i \in DOMAIN L.loops : L.loops[i].escape
  THEN push(L, [op |-> "try", s |-> s, targets |-> L.loops])
  ELSE push(L, StmtInstr(s))

block(L, body) ==
  IF body = <<>> THEN L
  ELSE Then(block(L, Front(body)), LAMBDA before : stmt(before, Last(body)))

-----------------------------------------------------------------------------
(* A function body: parameters and implicit names make up the root scope.  *)
(* At its end it returns None.                                             *)
build_fn(params, body) ==
  LET implicit == SetToSeq(collect_function_implicit_names(
                             body, explicit_local_names(body)) \ ToSet(params))
      vars == [i \in 1 .. Len(params \o implicit) |-> Runtime((params \o implicit)[i])]
      root == [n \in ToSet(params \o implicit) |-> Runtime(n)]
  IN  seal(block(NewLower(vars, root, <<>>, TRUE), body),
           [op |-> "return", e |-> E("none", "", "", <<>>)])

(* A region of a try: its only scope has every name of the function, and   *)
(* loops of the function can be escaped to.  At its end it falls off.      *)
build_seeded(vars, body, targets) ==
  LET names == {vars[i][1] : i \in {j \in DOMAIN vars : vars[j][2] = 0}}
      loops == [i \in DOMAIN targets |-> [targets[i] EXCEPT !.escape = TRUE]]
  IN  seal(block(NewLower(vars, [n \in names |-> Runtime(n)], loops, FALSE), body),
           [op |-> "falloff"])
=============================================================================
