------------------------------ MODULE Comptime ------------------------------
(***************************************************************************)
(* Compile-time elaboration (src/src/comptime.rs): the top level of a      *)
(* program is elaborated statement by statement, its constants are         *)
(* materialized, and its generic templates are replaced by the             *)
(* specializations that its calls request, job by job, all on one fuel.    *)
(*                                                                         *)
(* An `if` has one condition: an `elif` is an `if` in its `else`.  A brace  *)
(* is a brace literal or a comprehension, a text is a T-string or a call   *)
(* of a value.  Reflection, type packs and strings are left out.           *)
(***************************************************************************)
EXTENDS ProgramMeaning

CONSTANTS Programs,     \* the programs elaborated
          FUEL          \* the compile-time steps allowed

VARIABLES source,       \* the program
          phase,        \* "elaborate", "seed", "drain", "done" or "failed"
          at,           \* the next top-level statement
          env,          \* the names the elaborator has bound
          top_consts,   \* those that are constants of the module
          result,       \* the program so far
          fuel,         \* the fuel left
          done,         \* the specializations requested
          queue,        \* those of them not generated yet
          generated,    \* the others, by template
          error         \* why elaboration failed
vars == <<source, phase, at, env, top_consts, result, fuel, done, queue, generated, error>>

-----------------------------------------------------------------------------
(* The functions of the program.                                           *)
collect_fns(program) == Table({n \in ToSet(program) : n.k = "def"})

RECURSIVE stmt_has_comptime(_)
stmt_has_comptime(n) ==
    \/ n.k \in {"ctif", "ctfor"}
    \/ /\ n.k \notin {"def", "struct"}
       /\ \E i \in DOMAIN n.bs : \E m \in ToSet(n.bs[i]) :
             /\ ~ (n.k \in {"while", "for"} /\ i = 2)
             /\ stmt_has_comptime(m)
collect_specializable(program) ==
    Table({n \in ToSet(program) : /\ n.k = "def" /\ n.ts # <<>>
                                  /\ \E m \in ToSet(n.bs[1]) : stmt_has_comptime(m)})

-----------------------------------------------------------------------------
(* Evaluation.  An outcome: the value, the error ("" for none) and the fuel *)
(* left.                                                                   *)
Outcome(v, c) == [c EXCEPT !.val = v]
Fail(why, c) == [c EXCEPT !.err = why]
After(c, Op(_)) == Then(c, LAMBDA r : IF r.err = "" THEN Op(r) ELSE r)
burn(c) == IF c.fuel = 0 THEN Fail("quota", c) ELSE [c EXCEPT !.fuel = @ - 1]

div_euclid(a, b) == IF b > 0 THEN a \div b ELSE -(a \div (-b))
ct_op(op, a, b) ==
    CASE op = "//" /\ b # 0 -> Checked(div_euclid(a, b))
      [] op = "%" /\ b # 0 -> IntOf(a - b * div_euclid(a, b))
      [] OTHER -> int_op(op, a, b)
Arithmetic(v, c) == IF v = Wrong THEN Fail("arithmetic", c) ELSE Outcome(v, c)
as_int(v) == v[1] = "int"
eval_operation(n, vs, c) ==
    CASE n.k = "tuple" -> Outcome(<<"tuple", vs>>, c)
      [] n.k = "infix" -> IF as_int(vs[1]) /\ as_int(vs[2])
                          THEN Arithmetic(ct_op(n.v, vs[1][2], vs[2][2]), c) ELSE Fail("not an Int", c)
      [] n.k = "neg" -> IF as_int(vs[1]) THEN Outcome(IntOf(-vs[1][2]), c) ELSE Fail("not an Int", c)
      [] n.k = "not" -> IF vs[1][1] = "bool" THEN Outcome(BoolOf(~ vs[1][2]), c) ELSE Fail("not a Bool", c)
      [] n.k = "len" -> IF vs[1][1] = "tuple" THEN Outcome(IntOf(Len(vs[1][2])), c) ELSE Fail("range", c)
      [] n.k = "index" ->
            CASE vs[1][1] # "tuple" -> Fail("range", c)
              [] vs[1][1] = "tuple" /\ ~ as_int(vs[2]) -> Fail("not an Int", c)
              [] OTHER -> Arithmetic(IF vs[2][2] + 1 \in DOMAIN vs[1][2] THEN vs[1][2][vs[2][2] + 1] ELSE Wrong, c)
      [] n.k = "same" -> Outcome(BoolOf(vs[1] = vs[2]), c)
      [] n.k = "range" -> IF \A i \in DOMAIN vs : as_int(vs[i])
                          THEN Then(IntRange(vs), LAMBDA v : IF v = Wrong THEN Fail("range", c) ELSE Outcome(v, c))
                          ELSE Fail("not an Int", c)
      [] OTHER -> Fail("not comptime", c)

(* Functions that may run at compile time: no effect and no construct of   *)
(* the elaborator's in what the walk visits of them and of what they call. *)
Safe == {"lit", "type", "name", "tuple", "infix", "neg", "not", "and", "len", "index", "range", "call", "same",
         "var", "expr", "return", "if", "while", "for"}
RECURSIVE Visited(_)
Visited(n) ==
    {n} \cup UNION {Visited(m) : m \in ToSet(n.es) \cup ToSet(n.ps)}
        \cup UNION {UNION {Visited(m) : m \in ToSet(n.bs[i])} :
                    i \in DOMAIN n.bs \ (IF n.k \in {"while", "for"} THEN {2} ELSE {})}
Body(fns, x) == UNION {Visited(m) : m \in ToSet(fns[x].bs[1])}
RECURSIVE Helpers(_, _)
Helpers(fns, found) ==
    LET called == {m.x : m \in {m \in UNION {Body(fns, x) : x \in found \cap DOMAIN fns} : m.k = "call"}}
    IN IF called \subseteq found THEN found ELSE Helpers(fns, found \cup called)
vm_ctfe_safe_fn(fns, x) ==
    \A y \in Helpers(fns, {x}) : y \in DOMAIN fns /\ \A m \in Body(fns, y) : m.k \in Safe
RECURSIVE Fold_same(_, _)
Fold_same(n, scope) ==
    IF n.k = "same"
    THEN LET type(m) == IF m.x \in DOMAIN scope THEN scope[m.x] ELSE m.v
         IN Literal(BoolOf(type(n.es[1]) = type(n.es[2])))
    ELSE [n EXCEPT !.es = [i \in DOMAIN @ |-> Fold_same(@[i], scope)],
                   !.bs = [i \in DOMAIN @ |-> IF n.k \in {"while", "for"} /\ i = 2 THEN @[i]
                                              ELSE [j \in DOMAIN @[i] |-> Fold_same(@[i][j], scope)]]]

\* The machine runs a call: what is left of the fuel comes back.
(* Mutant: nothing comes back. *)
vm_ctfe_callDrops(fns, x, ps, args, c) ==
    LET Literals(vs) == [i \in DOMAIN vs |-> Literal(vs[i])]
    IN Then(Do(Call(x, Literals(ps), Literals(args)), Start(fns, FALSE, c.fuel)), LAMBDA r :
            IF r.how # "on" THEN Fail("machine", c) ELSE Outcome(r.val, [c EXCEPT !.fuel = 0]))
vm_ctfe_call(fns, x, ps, args, c) ==
    LET d == fns[x]
        locals == Named(Names(d.ps), args) @@ Named(Names(d.ts), ps)
        needed == [y \in Helpers(fns, {x}) |-> IF y = x THEN Fold_same(fns[y], locals) ELSE fns[y]]
        Literals(vs) == [i \in DOMAIN vs |-> Literal(vs[i])]
    IN Then(Do(Call(x, Literals(ps), Literals(args)), Start(needed, FALSE, c.fuel)), LAMBDA r :
            IF r.how # "on" THEN Fail(IF r.how = "spent" THEN "quota" ELSE "machine", c)
            ELSE IF r.val = None THEN Fail("not comptime", c)
            ELSE Outcome(r.val, [c EXCEPT !.fuel = r.fuel]))

RECURSIVE eval(_, _, _)
\* Arguments for compile-time parameters: each is evaluated, then its type looked at.
resolve_ct_args(ts, ps, scope, c) ==
    FoldLeft(LAMBDA acc, i :
                 After(acc, LAMBDA a : After(eval(ps[i], scope, a), LAMBDA r :
                       IF ct_value_has_type(r.val, ts[i].type)
                       THEN Outcome(Append(a.val, r.val), r) ELSE Fail("type", r))),
             Outcome(<<>>, c), [i \in DOMAIN ps |-> i])
ctfe_call(x, ps, args, scope, c) ==
    LET fns == collect_fns(source) IN
    IF x \notin DOMAIN fns THEN Fail("not comptime", c)
    ELSE IF Len(fns[x].ts) # Len(ps) \/ Len(fns[x].ps) # Len(args) THEN Fail("arity", c)
    ELSE After(burn(c), LAMBDA b :
         After(resolve_ct_args(fns[x].ts, ps, scope, b), LAMBDA r :
         IF vm_ctfe_safe_fn(fns, x) THEN vm_ctfe_call(fns, x, r.val, args, r) ELSE Fail("not comptime", r)))

eval_all(es, scope, c) ==
    Then(FoldLeft(LAMBDA acc, e :
                      Then(eval(e, scope, acc.c), LAMBDA r : [c |-> r, vs |-> Append(acc.vs, r.val)]),
                  [c |-> c, vs |-> <<>>], es), LAMBDA all : [all.c EXCEPT !.val = all.vs])
eval(e, scope, c) ==
    CASE c.err # "" -> c
      [] c.err = "" /\ e.k \in {"lit", "type"} -> Outcome(e.v, c)
      [] c.err = "" /\ e.k = "name" ->
            IF e.x \in DOMAIN scope THEN Outcome(scope[e.x], c) ELSE Fail("not comptime", c)
      [] c.err = "" /\ e.k = "and" ->
            After(eval(e.es[1], scope, c), LAMBDA r :
                  CASE r.val[1] # "bool" -> Fail("not a Bool", r)
                    [] r.val = BoolOf(FALSE) -> r
                    [] OTHER -> After(eval(e.es[2], scope, r), LAMBDA t :
                                      IF t.val[1] # "bool" THEN Fail("not a Bool", t) ELSE t))
      [] c.err = "" /\ e.k = "infix" ->     \* once to look for strings, and once more
            After(eval_all(e.es, scope, c), LAMBDA first :
            After(eval_all(e.es, scope, first), LAMBDA r : eval_operation(e, r.val, r)))
      [] c.err = "" /\ e.k = "call" ->
            After(eval_all(e.es, scope, c), LAMBDA args : ctfe_call(e.x, e.ps, args.val, scope, args))
      [] c.err = "" /\ e.k \in {"brace", "text"} -> Fail("not comptime", c)
      [] OTHER -> After(eval_all(e.es, scope, c), LAMBDA r : eval_operation(e, r.val, r))

-----------------------------------------------------------------------------
(* Substitution.  Types have no literal, and braces and texts are left as  *)
(* they are.                                                               *)
Materializes(v) == v[1] # "type"
RECURSIVE rewrite(_, _, _)
rewrite(n, subs, into_defs) ==
    CASE n.k = "name" -> IF n.x \in DOMAIN subs /\ Materializes(subs[n.x])
                         THEN Literal(subs[n.x]) ELSE n
      [] n.k \in {"brace", "text"} -> n
      [] n.k = "def" -> IF ~ into_defs THEN n
                        ELSE LET inner == Without(subs, ToSet(Names(n.ps))) IN
                             [n EXCEPT !.bs[1] = [i \in DOMAIN @ |-> rewrite(@[i], inner, TRUE)]]
      [] n.k = "struct" -> IF ~ into_defs THEN n
                           ELSE LET inner == Without(subs, {Name("self")}) IN
                                [n EXCEPT !.bs[1] = [i \in DOMAIN @ |-> rewrite(@[i], inner, TRUE)]]
      [] OTHER -> [n EXCEPT !.es = [i \in DOMAIN @ |-> rewrite(@[i], subs, into_defs)],
                            !.ps = [i \in DOMAIN @ |-> rewrite(@[i], subs, into_defs)],
                            !.bs = [i \in DOMAIN @ |-> [j \in DOMAIN @[i] |-> rewrite(@[i][j], subs, into_defs)]]]
(* Mutant: definitions are not descended into. *)
materialize_blockTop(b, consts) == [i \in DOMAIN b |-> rewrite(b[i], consts, FALSE)]
materialize_block(b, consts) == [i \in DOMAIN b |-> rewrite(b[i], consts, TRUE)]

-----------------------------------------------------------------------------
(* Elaboration of a statement: what it becomes is appended to out.         *)
Emit(n, c) == [c EXCEPT !.out = Append(@, n)]
\* `with` is its managers entered, and a `finally` that exits each.
Manager(n, i) == <<"$with", <<n.v, i>>>>
with_items(n, body) ==
    FoldRight(LAMBDA i, nested :
                  Then(Node("name", Manager(n, i), None, <<>>, <<>>), LAMBDA manager :
                  <<Node("var", Manager(n, i), None, <<n.es[i]>>, <<>>),
                    Node("var", Name(n.v[i]), None,
                         <<Node("method", Name("__enter__"), None, <<manager>>, <<>>)>>, <<>>),
                    Node("try", Name(""), None, <<>>,
                         <<nested, <<>>, <<>>,
                           <<Node("expr", Name(""), None,
                                  <<Node("method", Name("__exit__"), None, <<manager>>, <<>>)>>, <<>>)>>>>)>>),
              [i \in DOMAIN n.es |-> i], body)

RECURSIVE Elab(_, _, _)
block(b, c, in_fn) == FoldLeft(LAMBDA r, n : Elab(n, r, in_fn), c, b)
\* A block of its own: its statements are the value.
SubBlock(b, c, in_fn) ==
    Then(block(b, [c EXCEPT !.out = <<>>], in_fn), LAMBDA r : [r EXCEPT !.out = c.out, !.val = r.out])
SubBlocks(n, c, in_fn) ==
    Then(FoldLeft(LAMBDA acc, b :
                      Then(SubBlock(b, acc.c, in_fn), LAMBDA r : [c |-> r, bs |-> Append(acc.bs, r.val)]),
                  [c |-> c, bs |-> <<>>], n.bs), LAMBDA all : [all.c EXCEPT !.val = all.bs])
Elab(n, c, in_fn) ==
    CASE c.err # "" -> c
      [] c.err = "" /\ n.k = "comptime" ->
            After(eval(n.es[1], c.env, c), LAMBDA r :
                  Then([r EXCEPT !.env = (n.x :> r.val) @@ @,
                                 !.top_consts = IF in_fn THEN @ ELSE (n.x :> r.val) @@ @], LAMBDA t :
                       IF Materializes(r.val) THEN Emit([n EXCEPT !.es = <<Literal(r.val)>>], t) ELSE t))
      [] c.err = "" /\ n.k = "ctif" ->
            After(eval(n.es[1], c.env, c), LAMBDA r :
                  IF r.val[1] # "bool" THEN Fail("not a Bool", r)
                  ELSE block(n.bs[IF r.val[2] THEN 1 ELSE 2], r, in_fn))
      [] c.err = "" /\ n.k = "ctfor" ->
            After(eval(n.es[1], c.env, c), LAMBDA r :
                  IF r.val[1] # "tuple" THEN Fail("range", r)
                  ELSE FoldLeft(LAMBDA acc, v :
                                    After(acc, LAMBDA a : After(burn(a), LAMBDA b :
                                        block([i \in DOMAIN n.bs[1] |-> rewrite(n.bs[1][i], n.x :> v, FALSE)],
                                              b, in_fn))),
                                r, r.val[2]))
      [] c.err = "" /\ n.k = "with" ->
            After(SubBlock(n.bs[1], c, in_fn), LAMBDA r : [r EXCEPT !.out = @ \o with_items(n, r.val)])
      [] c.err = "" /\ n.k = "def" /\ n.x \in DOMAIN collect_specializable(source) -> Emit(n, c)
      [] c.err = "" /\ n.k = "def" /\ n.x \notin DOMAIN collect_specializable(source) ->
            After(SubBlocks(n, c, TRUE), LAMBDA r : Emit([n EXCEPT !.bs = r.val], r))
      [] OTHER -> After(SubBlocks(n, c, in_fn), LAMBDA r : Emit([n EXCEPT !.bs = r.val], r))

-----------------------------------------------------------------------------
(* Specialization.  A call of a template is turned to the specialization   *)
(* for its arguments, which is requested unless it was before.             *)
RECURSIVE evaluate(_, _)
\* A default has no calls, and sees the values of the parameters before it.
evaluate(e, params) ==
    LET vs == [i \in DOMAIN e.es |-> evaluate(e.es[i], params)] IN
    CASE e.k = "lit" -> e.v
      [] e.k = "name" /\ e.x \in DOMAIN params -> params[e.x]
      [] e.k = "neg" /\ as_int(vs[1]) -> Checked(-vs[1][2])
      [] e.k = "infix" /\ e.v \in {"+", "-", "*", "//", "%"} /\ as_int(vs[1]) /\ as_int(vs[2]) ->
            ct_op(e.v, vs[1][2], vs[2][2])
      [] OTHER -> Wrong
resolve_spec_args(d, ps, c) ==
    IF d.ts[1].pack
    THEN After(resolve_ct_args([i \in DOMAIN ps |-> d.ts[1]], ps, c.top_consts, c), LAMBDA r :
               Outcome(<< <<"tuple", r.val>> >>, r))
    ELSE IF \/ Len(ps) > Len(d.ts)
            \/ \E i \in Len(ps) + 1 .. Len(d.ts) : d.ts[i].default = <<>>
    THEN Fail("arity", c)
    ELSE After(resolve_ct_args(d.ts, ps, c.top_consts, c), LAMBDA r :
         FoldLeft(LAMBDA acc, t :
                      After(acc, LAMBDA a :
                      Then(Named(Names(d.ts), a.val), LAMBDA params :
                      Then(evaluate(t.default[1], Restrict(params, {x \in DOMAIN params : Materializes(params[x])})),
                           LAMBDA v : IF v = Wrong THEN Fail("not comptime", a) ELSE Outcome(Append(a.val, v), a)))),
                  r, SubSeq(d.ts, Len(ps) + 1, Len(d.ts))))
kept_type_args(d, ps) ==
    LET kept == {i \in DOMAIN ps : d.ts[i].type = "type"}
    IN IF d.ts[1].pack THEN <<>> ELSE [j \in 1 .. Cardinality(kept) |-> ps[SetToSortSeq(kept, <)[j]]]
mangle(orig, vals) == <<orig[1], vals>>
specialize_call(n, c) ==
    LET d == collect_specializable(source)[n.x] IN
    After(resolve_spec_args(d, n.ps, c), LAMBDA r :
          Then(mangle(n.x, r.val), LAMBDA mangled :
          [r EXCEPT !.val = [n EXCEPT !.x = mangled, !.ps = kept_type_args(d, n.ps)],
                    !.done = @ \cup {mangled},
                    !.queue = IF mangled \in r.done THEN @
                              ELSE Append(@, [orig |-> n.x, vals |-> r.val])]))

\* The calls in a node, but in the `else` of a loop and in a text.
RECURSIVE mono(_, _)
mono_all(ns, c) ==
    Then(FoldLeft(LAMBDA acc, n :
                      Then(mono(n, acc.c), LAMBDA r : [c |-> r, ns |-> Append(acc.ns, r.val)]),
                  [c |-> c, ns |-> <<>>], ns), LAMBDA all : [all.c EXCEPT !.val = all.ns])
(* Mutant: only the first block of a statement is looked at. *)
mono_blocksFirst(n, c) ==
    IF n.bs = <<>> THEN Outcome(n.bs, c)
    ELSE Then(mono_all(n.bs[1], c), LAMBDA r : Outcome(<<r.val>> \o Tail(n.bs), r))
mono_blocks(n, c) ==
    Then(FoldLeft(LAMBDA acc, i :
                      Then(IF n.k \in {"while", "for"} /\ i = 2 THEN Outcome(n.bs[i], acc.c)
                           ELSE mono_all(n.bs[i], acc.c), LAMBDA r :
                           [c |-> r, bs |-> Append(acc.bs, r.val)]),
                  [c |-> c, bs |-> <<>>], [i \in DOMAIN n.bs |-> i]),
         LAMBDA all : [all.c EXCEPT !.val = all.bs])
mono(n, c) ==
    IF n.k = "text" /\ c.err = "" THEN Outcome(n, c) ELSE
    After(mono_all(n.es, c), LAMBDA es :
    After(mono_blocks(n, es), LAMBDA bs :
          Then([n EXCEPT !.es = es.val, !.bs = bs.val], LAMBDA m :
               IF n.k = "call" /\ n.x \in DOMAIN collect_specializable(source)
               THEN specialize_call(m, bs) ELSE Outcome(m, bs))))

\* The parameters bound, the body elaborated and its values materialized;
\* the type parameters stay.
generate_spec(job, c) ==
    LET d == collect_specializable(source)[job.orig]
        params == Named(Names(d.ts), job.vals)
        subs == params @@ Without(c.top_consts, ToSet(Names(d.ps)))
        Kept(t) == t.type = "type"
    IN After(SubBlock(d.bs[1], [c EXCEPT !.env = params @@ c.top_consts], TRUE), LAMBDA r :
             [r EXCEPT !.env = c.env,
                       !.val = [d EXCEPT !.x = mangle(job.orig, job.vals),
                                         !.ts = IF d.ts[1].pack THEN <<>> ELSE SelectSeq(@, Kept),
                                         !.bs = << materialize_block(r.val, subs) >>]])

-----------------------------------------------------------------------------
Init ==
    /\ source \in Programs
    /\ phase = "elaborate" /\ at = 1
    /\ env = <<>> /\ top_consts = <<>> /\ result = <<>>
    /\ fuel = FUEL
    /\ done = {} /\ queue = <<>> /\ generated = <<>>
    /\ error = ""

\* The elaborator as it stands, and as a step leaves it.
Now == [env |-> env, top_consts |-> top_consts, out |-> <<>>, val |-> None, err |-> "",
        fuel |-> fuel, done |-> done, queue |-> queue]
Take(c) ==
    /\ fuel' = c.fuel /\ error' = c.err
    /\ env' = c.env /\ top_consts' = c.top_consts
    /\ done' = c.done /\ queue' = c.queue
    /\ UNCHANGED source

ElaborateStatement ==
    /\ phase = "elaborate" /\ at <= Len(source)
    /\ \E c \in {Elab(source[at], Now, FALSE)} :
          /\ Take(c)
          /\ result' = result \o c.out
          /\ phase' = IF c.err = "" THEN phase ELSE "failed"
    /\ at' = at + 1
    /\ UNCHANGED generated

Materialize ==
    /\ phase = "elaborate" /\ at > Len(source)
    /\ result' = materialize_block(result, top_consts)
    /\ phase' = IF collect_specializable(source) = <<>> THEN "done" ELSE "seed"
    /\ at' = 1
    /\ UNCHANGED <<source, env, top_consts, fuel, done, queue, generated, error>>

SeedStatement ==
    /\ phase = "seed" /\ at <= Len(result)
    /\ IF result[at].k = "def" /\ result[at].x \in DOMAIN collect_specializable(source)
       THEN UNCHANGED <<source, phase, env, top_consts, result, fuel, done, queue, error>>
       ELSE \E c \in {mono(result[at], Now)} :
               /\ Take(c)
               /\ result' = IF c.err = "" THEN [result EXCEPT ![at] = c.val] ELSE result
               /\ phase' = IF c.err = "" THEN phase ELSE "failed"
    /\ at' = at + 1
    /\ UNCHANGED generated

Generate ==
    /\ phase = "seed" /\ at > Len(result) /\ queue # <<>>
    /\ \E job \in {Head(queue)} :
       \E c \in {After(burn([Now EXCEPT !.queue = Tail(@)]), LAMBDA b :
                 After(generate_spec(job, b), LAMBDA g : mono(g.val, g)))} :
          /\ Take(c)
          /\ generated' = IF c.err # "" THEN generated
                          ELSE (job.orig :> Append(IF job.orig \in DOMAIN generated THEN generated[job.orig]
                                                   ELSE <<>>, c.val)) @@ generated
          /\ phase' = IF c.err = "" THEN phase ELSE "failed"
    /\ UNCHANGED <<at, result>>

\* The last one generated comes first.
(* Mutant: the first one does. *)
RebuildInOrder ==
    /\ phase = "seed" /\ at > Len(result) /\ queue = <<>>
    /\ result' = FlattenSeq([i \in DOMAIN result |->
                     CASE result[i].x \notin DOMAIN collect_specializable(source) -> <<result[i]>>
                       [] result[i].x \in DOMAIN generated -> generated[result[i].x]
                       [] OTHER -> <<>>])
    /\ phase' = "done"
    /\ UNCHANGED <<source, at, env, top_consts, fuel, done, queue, generated, error>>
Rebuild ==
    /\ phase = "seed" /\ at > Len(result) /\ queue = <<>>
    /\ result' = FlattenSeq([i \in DOMAIN result |->
                     CASE result[i].x \notin DOMAIN collect_specializable(source) -> <<result[i]>>
                       [] result[i].x \in DOMAIN generated -> Reverse(generated[result[i].x])
                       [] OTHER -> <<>>])
    /\ phase' = "done"
    /\ UNCHANGED <<source, at, env, top_consts, fuel, done, queue, generated, error>>

Next == ElaborateStatement \/ Materialize \/ SeedStatement \/ Generate \/ Rebuild
Spec == Init /\ [][Next]_vars
=============================================================================
