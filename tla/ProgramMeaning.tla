--------------------------- MODULE ProgramMeaning ---------------------------
(***************************************************************************)
(* Programs as trees of one shape, and what running them does: as written, *)
(* with the compile-time constructs read as run-time ones that see the     *)
(* compile-time names only (`staged`), or elaborated, by the machine.      *)
(*                                                                         *)
(* A node has a kind k, a name x, a value v, expressions es, blocks bs,    *)
(* compile-time arguments ps (of a definition: its parameters) and         *)
(* compile-time parameters ts.  A name is a source name with the values it *)
(* was specialised for.                                                    *)
(***************************************************************************)
EXTENDS Integers, Sequences, SequencesExt, FiniteSets, Functions, TLC, Sequencing

CONSTANTS MaxInt,       \* the greatest integer; the smallest is -MaxInt - 1
          MaxDeep       \* the nested calls and rounds of a run

Name(id) == <<id, <<>>>>
Node(k, x, v, es, bs) ==
    [k |-> k, x |-> x, v |-> v, es |-> es, bs |-> bs, ps |-> <<>>, ts |-> <<>>]
IntOf(n) == <<"int", n>>
BoolOf(b) == <<"bool", b>>
None == <<"none", 0>>
Literal(v) == Node("lit", Name(""), v, <<>>, <<>>)
InRange(n) == n \in -MaxInt - 1 .. MaxInt

Without(f, S) == Restrict(f, DOMAIN f \ S)

-----------------------------------------------------------------------------
(* Integer operators at run time.  Division rounds towards minus infinity. *)
floor_div(a, b) == IF b > 0 THEN a \div b ELSE (-a) \div (-b)
floor_mod(a, b) == a - b * floor_div(a, b)
Wrong == <<"wrong", 0>>
Checked(n) == IF InRange(n) THEN IntOf(n) ELSE Wrong
int_op(op, a, b) ==
    CASE op = "+" -> Checked(a + b)
      [] op = "-" -> Checked(a - b)
      [] op = "*" -> Checked(a * b)
      [] op \in {"//", "%"} /\ b = 0 -> Wrong
      [] op = "//" -> Checked(floor_div(a, b))
      [] op = "%" -> IntOf(floor_mod(a, b))
      [] op = "==" -> BoolOf(a = b)
      [] op = "<" -> BoolOf(a < b)

IntRange(vs) ==
    LET bounds == [i \in DOMAIN vs |-> vs[i][2]]
        start == IF Len(vs) = 1 THEN 0 ELSE bounds[1]
        stop == IF Len(vs) = 1 THEN bounds[1] ELSE bounds[2]
        step == IF Len(vs) = 3 THEN bounds[3] ELSE 1
        many == IF step > 0 THEN (stop - start + step - 1) \div step
                ELSE (start - stop - step - 1) \div (-step)
    IN IF step = 0 THEN Wrong
       ELSE <<"tuple", [i \in 1 .. (IF many < 0 THEN 0 ELSE many) |-> IntOf(start + (i - 1) * step)]>>

(* A state: fns, the functions; staged; consts, the compile-time constants *)
(* of the module; ct and env, the compile-time and the run-time names of   *)
(* the frame; how it goes on, "on", "return", "raise", "stuck" or "spent"; *)
(* val; out, the events so far; fuel and deep, the steps and the nested      *)
(* calls and rounds left.                                                  *)
Answer(s, v) == IF v = Wrong THEN [s EXCEPT !.how = "stuck"] ELSE [s EXCEPT !.val = v]
Look(s, x) ==
    CASE x \in DOMAIN s.env -> s.env[x]
      [] x \notin DOMAIN s.env /\ x \in DOMAIN s.ct -> s.ct[x]
      [] OTHER -> Wrong
Event(s, event) == [s EXCEPT !.out = Append(@, event)]
OnNext(s, Op(_)) == Then(s, LAMBDA r : IF r.how = "on" THEN Op(r) ELSE r)
Fits(k, vs) ==
    CASE k \in {"infix", "neg", "range"} -> \A i \in DOMAIN vs : vs[i][1] = "int"
      [] k = "not" -> vs[1][1] = "bool"
      [] k = "len" -> vs[1][1] = "tuple"
      [] k = "index" -> vs[1][1] = "tuple" /\ vs[2][1] = "int"
      [] OTHER -> TRUE
Operate(n, s, vs) ==
    IF ~ Fits(n.k, vs) THEN Answer(s, Wrong) ELSE
    CASE n.k \in {"tuple", "brace", "text"} -> Answer(s, <<"tuple", vs>>)
      [] n.k = "infix" -> Answer(s, int_op(n.v, vs[1][2], vs[2][2]))
      [] n.k = "neg" -> Answer(s, Checked(-vs[1][2]))
      [] n.k = "not" -> Answer(s, BoolOf(~ vs[1][2]))
      [] n.k = "len" -> Answer(s, IntOf(Len(vs[1][2])))
      [] n.k = "index" ->
            Answer(s, IF vs[2][2] + 1 \in DOMAIN vs[1][2] THEN vs[1][2][vs[2][2] + 1] ELSE Wrong)
      [] n.k = "range" -> Answer(s, IntRange(vs))
      [] n.k = "same" -> IF s.staged THEN Answer(s, BoolOf(vs[1] = vs[2])) ELSE Answer(s, Wrong)
      [] n.k = "method" -> [Event(s, <<n.x[1], vs[1]>>) EXCEPT !.val = vs[1]]
      [] n.k = "print" -> Event(s, <<"print", vs[1]>>)
Bind(s, x, v) == [s EXCEPT !.env = (x :> v) @@ @]
BindCt(s, x, v) == [s EXCEPT !.ct = (x :> v) @@ @]

\* What the parameters of a definition are bound to: a pack takes all.
Packed(d, vs) == IF d.ts # <<>> /\ d.ts[1].pack THEN << <<"tuple", vs>> >> ELSE vs
Named(names, vs) == [x \in {names[i] : i \in DOMAIN vs} |-> vs[CHOOSE i \in DOMAIN vs : names[i] = x]]

ct_value_has_type(v, type) ==
    CASE type = "Int" -> v[1] = "int" [] type = "Bool" -> v[1] = "bool" [] type = "type" -> v[1] = "type"

Names(nodes) == [i \in DOMAIN nodes |-> nodes[i].x]

\* A call and a statement take a step each, an operation none.
Cost(n) == IF n.k \in {"lit", "type", "name", "tuple", "infix", "neg", "not", "and", "len", "index",
                       "range", "same", "method", "brace", "text"} THEN 0 ELSE 1

RECURSIVE Do(_, _)
Each(ns, s, Op(_, _)) ==
    FoldLeft(LAMBDA acc, n : Then(Op(n, acc.s), LAMBDA r : [s |-> r, vs |-> Append(acc.vs, r.val)]),
             [s |-> s, vs |-> <<>>], ns)
DoBlock(b, s) == FoldLeft(LAMBDA r, n : Do(n, r), s, b)
\* A compile-time expression sees compile-time names, has a value and no effect.
DoStaged(n, s) ==
    IF ~ s.staged THEN Then(Do(n, [s EXCEPT !.ct = s.consts]), LAMBDA r : [r EXCEPT !.ct = s.ct])
    ELSE Then(Do(n, [s EXCEPT !.env = <<>>]), LAMBDA r :
              IF r.how = "raise" \/ r.out # s.out \/ r.val = None
              THEN Answer(s, Wrong) ELSE [r EXCEPT !.env = s.env])

\* A call: a frame of its own, where a staged one sees the module's constants.
Default(d, t, s, vs) ==
    IF t.default = <<>> THEN [s |-> Answer(s, Wrong), vs |-> vs]
    ELSE Then(Do(t.default[1], [s EXCEPT !.ct = Named(Names(d.ts), vs)]), LAMBDA r :
              [s |-> [r EXCEPT !.ct = s.ct], vs |-> Append(vs, r.val)])
Defaults(d, s, vs) ==
    FoldLeft(LAMBDA acc, t : Default(d, t, acc.s, acc.vs), [s |-> s, vs |-> vs],
             SubSeq(d.ts, Len(vs) + 1, Len(d.ts)))
Apply(d, s, ps, args) ==
    IF \/ Len(args) # Len(d.ps) \/ Len(ps) # Len(d.ts)
       \/ \E i \in DOMAIN ps : ~ d.ts[i].pack /\ ~ ct_value_has_type(ps[i], d.ts[i].type) THEN Answer(s, Wrong)
    ELSE LET params == Named(Names(d.ts), ps)
             locals == Named(Names(d.ps), args)
         IN Then(DoBlock(d.bs[1],
                         [s EXCEPT !.deep = @ - 1,
                                   !.env = IF s.staged THEN locals ELSE locals @@ params,
                                   !.ct = IF s.staged THEN params @@ s.consts ELSE <<>>]), LAMBDA r :
              [r EXCEPT !.deep = s.deep, !.env = s.env, !.ct = s.ct,
                        !.how = IF @ = "return" THEN "on" ELSE @,
                        !.val = IF r.how = "on" THEN None ELSE @])
DoCall(n, s) ==
    IF n.x \notin DOMAIN s.fns THEN Answer(s, Wrong)
    ELSE Then(Each(n.ps, s, DoStaged), LAMBDA p :
         Then(Each(n.es, p.s, Do), LAMBDA a :
         Then(Defaults(s.fns[n.x], a.s, Packed(s.fns[n.x], p.vs)), LAMBDA q :
              OnNext(q.s, LAMBDA r : Apply(s.fns[n.x], r, q.vs, a.vs)))))

DoBranch(n, s, Op(_, _)) ==
    OnNext(Op(n.es[1], s), LAMBDA r :
           IF r.val[1] # "bool" THEN Answer(r, Wrong) ELSE DoBlock(n.bs[IF r.val[2] THEN 1 ELSE 2], r))
Continued(s) == IF s.how = "continue" THEN [s EXCEPT !.how = "on"] ELSE s
Broken(s) == IF s.how = "break" THEN [s EXCEPT !.how = "on"] ELSE s
Rounds(n, s, Op(_, _, _)) ==
    IF s.val[1] # "tuple" THEN Answer(s, Wrong)
    ELSE FoldLeft(LAMBDA r, v : IF r.how = "on" THEN Continued(DoBlock(n.bs[1], Op(r, n.x, v))) ELSE r,
                  s, s.val[2])
DoTry(n, s) ==
    LET tried == DoBlock(n.bs[1], s)
        after == CASE tried.how = "raise" /\ n.bs[2] # <<>> ->
                        DoBlock(n.bs[2], [tried EXCEPT !.how = "on"])
                   [] tried.how = "on" -> DoBlock(n.bs[3], tried)
                   [] OTHER -> tried
    IN IF after.how \in {"stuck", "spent"} THEN after
       ELSE Then(DoBlock(n.bs[4], [after EXCEPT !.how = "on"]), LAMBDA r :
                 IF r.how = "on" THEN [r EXCEPT !.how = after.how, !.val = after.val] ELSE r)
\* `with`: the managers, then the body, and the exits however it ended.
DoWith(n, s) ==
    IF n.es = <<>> THEN DoBlock(n.bs[1], s)
    ELSE OnNext(Do(n.es[1], s), LAMBDA r :
         Then(Do([n EXCEPT !.es = Tail(@), !.v = Tail(@)],
                 Bind(Event(r, <<"__enter__", r.val>>), Name(n.v[1]), r.val)), LAMBDA t :
              IF t.how \in {"stuck", "spent"} THEN t ELSE Event(t, <<"__exit__", r.val>>)))

Do(n, s) ==
    IF s.how # "on" THEN s
    ELSE IF s.fuel < Cost(n) \/ s.deep = 0 THEN [s EXCEPT !.how = "spent"]
    ELSE Then([s EXCEPT !.fuel = @ - Cost(n)], LAMBDA t :
      CASE n.k \in {"lit", "type"} -> Answer(t, n.v)
        [] n.k = "name" -> Answer(t, Look(t, n.x))
        [] n.k = "and" ->
              OnNext(Do(n.es[1], t), LAMBDA r : IF r.val = BoolOf(TRUE) THEN Do(n.es[2], r) ELSE r)
        [] n.k = "call" -> DoCall(n, t)
        [] n.k = "comptime" ->
              OnNext(DoStaged(n.es[1], t), LAMBDA r :
                     IF r.staged THEN BindCt(r, n.x, r.val) ELSE Bind(r, n.x, r.val))
        [] n.k = "var" -> OnNext(Do(n.es[1], t), LAMBDA r : Bind(r, n.x, r.val))
        [] n.k = "expr" -> Do(n.es[1], t)
        [] n.k = "return" -> OnNext(Do(n.es[1], t), LAMBDA r : [r EXCEPT !.how = "return"])
        [] n.k \in {"raise", "break", "continue"} -> [t EXCEPT !.how = n.k]
        [] n.k = "if" -> DoBranch(n, t, Do)
        [] n.k = "ctif" -> IF t.staged THEN DoBranch(n, t, DoStaged) ELSE Answer(t, Wrong)
        [] n.k = "while" ->
              OnNext(Do(n.es[1], t), LAMBDA r :
                     IF r.val # BoolOf(TRUE) THEN DoBlock(n.bs[2], r)
                     ELSE Then(Continued(DoBlock(n.bs[1], r)), LAMBDA u :
                               [Broken(Do(n, [u EXCEPT !.deep = @ - 1])) EXCEPT !.deep = t.deep]))
        [] n.k = "for" ->
              OnNext(Do(n.es[1], t), LAMBDA r :
                     Then(Rounds(n, r, Bind), LAMBDA u : Broken(DoBlock(n.bs[2], u))))
        [] n.k = "ctfor" ->
              IF ~ t.staged THEN Answer(t, Wrong)
              ELSE OnNext(DoStaged(n.es[1], t), LAMBDA r : Rounds(n, r, BindCt))
        [] n.k = "try" -> DoTry(n, t)
        [] n.k = "with" -> DoWith(n, t)
        [] n.k = "def" -> [t EXCEPT !.fns = (n.x :> n) @@ @]
        [] n.k = "struct" -> DoBlock(n.bs[1], t)
        [] OTHER -> Then(Each(n.es, t, Do), LAMBDA a :
                         OnNext(a.s, LAMBDA r : Operate(n, r, a.vs))))

-----------------------------------------------------------------------------
(* Running a program: its top level, then main.                            *)
Definitions(program) ==
    UNION {CASE n.k = "def" -> {n} [] n.k = "struct" -> ToSet(n.bs[1]) [] OTHER -> {} : n \in ToSet(program)}
Table(defs) == [x \in {d.x : d \in defs} |-> CHOOSE d \in defs : d.x = x]
Start(fns, staged, steps) ==
    [fns |-> fns, staged |-> staged, consts |-> <<>>, ct |-> <<>>, env |-> <<>>,
     how |-> "on", val |-> None, out |-> <<>>, fuel |-> steps, deep |-> MaxDeep]
Call(x, ps, es) == [Node("call", x, None, es, <<>>) EXCEPT !.ps = ps]
Run(program, staged, steps) ==
    OnNext(DoBlock(program, Start(Table(Definitions(program)), staged, steps)), LAMBDA s :
           Do(Call(Name("main"), <<>>, <<>>),
              [s EXCEPT !.consts = IF staged THEN s.ct ELSE s.env, !.ct = <<>>, !.env = <<>>]))
=============================================================================
