----------------------------- MODULE MCComptime -----------------------------
(* Small programs for the elaborator, and what their elaboration must mean. *)
EXTENDS Comptime

CONSTANTS Kinds         \* the kinds of programs checked

I(n) == Literal(IntOf(n))
B(b) == Literal(BoolOf(b))
T(type) == Node("type", Name(""), <<"type", type>>, <<>>, <<>>)
V(id) == Node("name", Name(id), None, <<>>, <<>>)
Expr(k, es) == Node(k, Name(""), None, es, <<>>)
Op(op, a, b) == Node("infix", Name(""), op, <<a, b>>, <<>>)
Tup(es) == Expr("tuple", es)
Brace(es) == Expr("brace", es)
Text(es) == Expr("text", es)
Upto(e) == Expr("range", <<e>>)
F(id, ps, es) == Call(Name(id), ps, es)

Stmt(k, id, es, bs) == Node(k, Name(id), None, es, bs)
Const(id, e) == Stmt("comptime", id, <<e>>, <<>>)
Var(id, e) == Stmt("var", id, <<e>>, <<>>)
Show(e) == Stmt("print", "", <<e>>, <<>>)
Return(e) == Stmt("return", "", <<e>>, <<>>)
Raise == Stmt("raise", "", <<>>, <<>>)
CtIf(c, b, d) == Stmt("ctif", "", <<c>>, <<b, d>>)
If(c, b, d) == Stmt("if", "", <<c>>, <<b, d>>)
CtFor(id, e, b) == Stmt("ctfor", id, <<e>>, <<b>>)
For(id, e, b) == Stmt("for", id, <<e>>, <<b, <<>>>>)
While(c, b) == Stmt("while", "", <<c>>, <<b, <<>>>>)
Try(b, h, e, f) == Stmt("try", "", <<>>, <<b, h, e, f>>)
With(ids, es, b) == Node("with", Name(""), ids, es, <<b>>)
Def(id, ts, params, b) ==
    [Node("def", Name(id), None, <<>>, <<b>>) EXCEPT !.ps = [i \in DOMAIN params |-> V(params[i])],
                                                     !.ts = ts]
Param(id, type) == [x |-> Name(id), type |-> type, default |-> <<>>, pack |-> FALSE]
Main(b) == Def("main", <<>>, <<>>, b)

-----------------------------------------------------------------------------
(* Constants of the module and of a function, a parameter that shadows one, *)
(* a declaration that is selected.                                         *)
Formulas(base) ==
    {Op("+", base, I(1)), Op("-", I(1), base), Op("//", I(3), base), Op("%", base, I(2)),
     Op("*", base, base), Expr("neg", <<base>>), Tup(<<base, I(1)>>), I(1),
     Expr("index", <<Tup(<<I(0), base>>), base>>), Expr("len", <<Tup(<<base, base>>)>>),
     Op("<", base, I(2)), F("twice", <<>>, <<base>>)}
Twice == Def("twice", <<>>, <<"a">>, <<Return(Op("+", V("a"), V("a")))>>)
Constants ==
    {<<Twice, Const("N", I(n)), Const("M", e),
       Def("shadow", <<>>, <<"N">>, <<Show(V("N")), Show(V("M"))>>),
       CtIf(Op("==", V("N"), I(1)), <<Def("choice", <<>>, <<>>, <<Return(I(7))>>)>>,
                                    <<Def("choice", <<>>, <<>>, <<Return(V("M"))>>)>>),
       Main(<<Show(shown), Const("L", Op("+", V("N"), I(1))),
              CtIf(Op("<", V("L"), I(3)), <<Show(V("L"))>>, <<Show(V("M"))>>),
              CtIf(Expr("and", <<Op("<", I(0), V("N")), Op("==", V("M"), I(1))>>), <<Show(I(8))>>, <<>>),
              Stmt("expr", "", <<F("shadow", <<>>, <<I(5)>>)>>, <<>>),
              Show(F("choice", <<>>, <<>>))>>)>>
        : n \in 0 .. 2, e \in Formulas(V("N")), shown \in {V("N"), Brace(<<V("N")>>), Text(<<V("M")>>)}}

(* Unrolling: nested, in run-time control, around calls.                   *)
Lists == {Upto(I(0)), Upto(I(3)), Expr("range", <<I(1), I(3)>>), Expr("range", <<I(3), I(0), I(-2)>>),
          Expr("range", <<I(0), I(2), I(0)>>), Tup(<<I(2), B(TRUE)>>), I(2), Upto(V("x")), Upto(V("K"))}
InLoop ==
    {<<Show(Op("*", V("i"), V("i")))>>,
     <<CtIf(Op("==", Op("%", V("i"), I(2)), I(0)), <<Show(V("i"))>>, <<Show(I(9))>>)>>,
     <<CtFor("j", Upto(V("i")), <<Show(Op("+", V("i"), V("j")))>>)>>,
     <<For("k", Upto(V("i")), <<Show(V("k")), Const("P", I(1))>>)>>,
     <<Const("Q", V("i")), Show(V("Q")), Show(Text(<<V("Q")>>))>>,
     <<Show(Brace(<<V("x"), V("i")>>))>>,
     <<If(Op("<", V("x"), V("i")), <<Show(V("i")), Return(I(0))>>, <<Var("x", I(0))>>)>>,
     <<Show(F("twice", <<>>, <<V("i")>>))>>,
     <<Show(F("sumto", <<V("i")>>, <<>>))>>}
SumTo ==
    Def("sumto", <<Param("n", "Int")>>, <<>>,
        <<CtIf(Op("==", V("n"), I(0)), <<Return(I(0))>>,
               <<Return(Op("+", V("n"), F("sumto", <<Op("-", V("n"), I(1))>>, <<>>)))>>)>>)
Loops ==
    {<<Twice, SumTo, Const("K", I(2)), Main(<<Var("x", I(1)), CtFor("i", list, b), Show(V("x"))>>)>>
        : list \in Lists, b \in InLoop}

(* Calls at compile time.                                                  *)
Helpers_ ==
    <<Twice,
      Def("fact", <<>>, <<"n">>, <<If(Op("<", V("n"), I(1)), <<Return(I(1))>>, <<>>),
                                   Return(Op("*", V("n"), F("fact", <<>>, <<Op("-", V("n"), I(1))>>)))>>),
      Def("total", <<>>, <<"n">>, <<Var("t", I(0)),
                                    For("i", Upto(V("n")), <<Var("t", Op("+", V("t"), V("i")))>>), Return(V("t"))>>),
      Def("spin", <<>>, <<"n">>, <<While(Op("<", I(0), V("n")), <<Var("n", Op("+", I(0), V("n")))>>), Return(V("n"))>>),
      Def("loud", <<>>, <<"n">>, <<Show(V("n")), Return(V("n"))>>),
      Def("louder", <<>>, <<"n">>, <<Return(F("loud", <<>>, <<V("n")>>))>>),
      Def("silent", <<>>, <<"n">>, <<Var("m", V("n"))>>),
      Def("even", <<>>, <<"n">>, <<If(Op("<", V("n"), I(1)), <<Return(B(TRUE))>>, <<>>),
                                   Return(Expr("not", <<F("even", <<>>, <<Op("-", V("n"), I(1))>>)>>))>>),
      Def("scale", <<Param("k", "Int"), Param("T", "type")>>, <<"n">>,
          <<If(Expr("same", <<V("T"), T("Int")>>), <<Return(Op("*", V("k"), V("n")))>>, <<>>), Return(V("n"))>>)>>
Called ==
    {F(f, <<>>, <<e>>) : f \in {"fact", "total", "spin", "loud", "louder", "silent", "even", "twice"},
                         e \in {I(0), I(2), Op("-", V("N"), I(3)), F("twice", <<>>, <<V("N")>>)}}
    \cup {F("scale", <<k, t>>, <<V("N")>>) : k \in {I(0), V("N"), B(TRUE)}, t \in {T("Int"), T("Bool")}}
    \cup {F("fact", <<I(1)>>, <<I(1)>>), F("fact", <<>>, <<>>), F("lost", <<>>, <<>>)}
Calls ==
    {Helpers_ \o <<Const("N", I(2)), Const("R", e), Main(<<Show(V("R")), Show(V("N"))>>)>> : e \in Called}

(* Generic templates, called from wherever an expression stands.           *)
Templates ==
    <<SumTo,
      Def("pick", <<Param("T", "type"), Param("n", "Int")>>, <<"a">>,
          <<CtIf(Expr("same", <<V("T"), T("Int")>>), <<Return(Op("+", V("a"), V("n")))>>, <<Return(V("N"))>>)>>),
      Def("pair", <<Param("n", "Int"), [Param("m", "Int") EXCEPT !.default = <<Op("+", V("n"), I(1))>>]>>, <<"N">>,
          <<CtFor("i", Expr("range", <<V("n"), V("m")>>), <<Show(V("i"))>>), Return(Op("+", V("N"), V("m")))>>),
      Def("each", <<[Param("ns", "Int") EXCEPT !.pack = TRUE]>>, <<>>,
          <<CtFor("i", V("ns"), <<Show(F("sumto", <<V("i")>>, <<>>))>>), Return(Expr("len", <<V("ns")>>))>>),
      Def("odd", <<Param("n", "Int")>>, <<>>,
          <<CtIf(Op("<", V("n"), I(1)), <<Return(B(FALSE))>>,
                 <<Return(Expr("not", <<F("odd", <<Op("-", V("n"), I(1))>>, <<>>)>>))>>)>>),
      Def("up", <<Param("n", "Int")>>, <<>>,
          <<CtIf(Op("==", V("n"), I(-1)), <<Return(I(0))>>,
                 <<Return(F("up", <<Op("%", Op("+", V("n"), I(1)), I(MaxInt))>>, <<>>))>>)>>),
      Def("grow", <<Param("n", "Int")>>, <<>>,
          <<CtIf(Op("==", V("n"), I(-1)), <<Return(I(0))>>,
                 <<Return(F("grow", <<Op("+", V("n"), I(1))>>, <<>>))>>)>>),
      Def("note", <<Param("n", "Int")>>, <<"a">>,
          <<CtIf(Op("<", V("n"), I(1)), <<Return(Text(<<V("a")>>))>>, <<Return(Brace(<<V("a"), V("n")>>))>>)>>),
      Def("plain", <<Param("n", "Int")>>, <<"a">>, <<Return(Op("+", V("n"), V("a")))>>)>>
Requests ==
    {F("sumto", <<I(2)>>, <<>>), F("sumto", <<V("N")>>, <<>>), F("sumto", <<B(TRUE)>>, <<>>),
     F("sumto", <<>>, <<>>), F("sumto", <<F("twice", <<>>, <<V("N")>>)>>, <<>>),
     F("pick", <<T("Int"), I(1)>>, <<F("sumto", <<I(1)>>, <<>>)>>), F("pick", <<T("Bool"), I(1)>>, <<I(0)>>),
     F("pair", <<I(0)>>, <<I(3)>>), F("pair", <<V("N"), I(3)>>, <<F("pair", <<V("N")>>, <<I(0)>>)>>),
     F("each", <<I(2), I(1), I(2)>>, <<>>), F("each", <<>>, <<>>), F("odd", <<I(2)>>, <<>>),
     F("grow", <<I(0)>>, <<>>), F("note", <<I(0)>>, <<V("N")>>), F("note", <<V("N")>>, <<I(0)>>), F("plain", <<V("N")>>, <<I(1)>>)}
Places(e) ==
    {<<Show(e)>>, <<Var("y", e), Show(V("y"))>>, <<If(Op("==", e, I(3)), <<Show(e)>>, <<Show(I(0))>>)>>,
     <<Try(<<Show(e), Raise>>, <<Show(e)>>, <<>>, <<Show(e)>>)>>,
     <<Try(<<Show(I(1))>>, <<>>, <<Show(e)>>, <<Show(I(2))>>)>>,
     <<With(<<"a", "b">>, <<e, I(1)>>, <<Show(V("b")), Show(e), Return(I(0))>>)>>,
     <<With(<<"a">>, <<I(1)>>, <<With(<<"b", "c">>, <<e, I(2)>>, <<Raise>>)>>)>>,
     <<Var("y", I(0)), While(Op("<", V("y"), I(2)), <<Show(e), Var("y", Op("+", V("y"), I(1)))>>)>>,
     <<For("k", Upto(I(2)), <<Show(Tup(<<e, V("k")>>))>>)>>,
     <<CtIf(Op("==", V("N"), I(2)), <<Show(e)>>, <<Show(F("grow", <<I(0)>>, <<>>))>>)>>,
     <<Show(Brace(<<I(1), e>>))>>, <<Show(I(1)), Show(Text(<<e>>))>>,
     <<Show(F("S.get", <<>>, <<e>>))>>}
Generics ==
    {<<Twice, Const("N", I(2))>> \o Templates
        \o <<Stmt("struct", "S", <<>>, <<<<Def("S.get", <<>>, <<"a">>, <<Show(e), Return(V("a"))>>)>>>>),
             Main(b)>> : e \in {F("sumto", <<I(1)>>, <<>>), F("pair", <<I(0)>>, <<I(1)>>)}, b \in UNION {Places(r) : r \in Requests}}

MCPrograms ==
    (IF "constants" \in Kinds THEN Constants ELSE {})
    \cup (IF "loops" \in Kinds THEN Loops ELSE {})
    \cup (IF "calls" \in Kinds THEN Calls ELSE {})
    \cup (IF "generics" \in Kinds THEN Generics ELSE {})

-----------------------------------------------------------------------------
RECURSIVE Nodes(_)
Nodes(n) == {n} \cup UNION {Nodes(m) : m \in ToSet(n.es) \cup UNION {ToSet(n.bs[i]) : i \in DOMAIN n.bs}}
AllNodes(program) == UNION {Nodes(n) : n \in ToSet(program)}
OfKind(nodes, k) == {n \in nodes : n.k = k}
CallsIn(nodes) == {n.x : n \in OfKind(nodes, "call")}

\* The checker takes names in the order they are defined in, "a function body
\* may not forward-reference a sibling `def` declared later"
\* (src/src/checker.rs:13): what stands before what it calls.
Calling(i) == IF result[i].k \in {"def", "struct"} THEN CallsIn(Nodes(result[i])) ELSE {}
Misordered == {<<i, j>> \in (DOMAIN result) \X (DOMAIN result) :
                  i < j /\ result[j].k = "def" /\ result[j].x \in Calling(i)}

\* "a callee is defined before its caller (the checker binds names
\* sequentially, without forward references)" (monomorphize,
\* src/src/comptime.rs:2124): it is, unless it is a specialization that another
\* definition calls as well.
CalleesComeFirstUnlessShared ==
    phase = "done" =>
        \A p \in Misordered :
            /\ result[p[2]].x[2] # <<>>
            /\ \E k \in DOMAIN result \ {p[1], p[2]} : result[p[2]].x \in Calling(k)

\* The compile-time names and the templates that braces and texts still use.
LeftOver ==
    Then(AllNodes(result), LAMBDA nodes :
    Then(UNION {Nodes(n) : n \in OfKind(nodes, "brace") \cup OfKind(nodes, "text")}, LAMBDA inside :
         LET templates == collect_specializable(source)
         IN \/ {n.x : n \in OfKind(inside, "name")}
                  \cap UNION ({DOMAIN top_consts, {n.x : n \in OfKind(AllNodes(source), "ctfor")}}
                                \cup {ToSet(Names(templates[x].ts)) : x \in DOMAIN templates}) # {}
            \/ CallsIn(inside) \cap DOMAIN templates # {}))

RunFuel == 300
\* Elaboration keeps the meaning: what the elaborated program prints, and how
\* it ends, is what the program does when its compile-time constructs are
\* taken as they are written, if the checker can take its definitions in their
\* order, and unless a compile-time name or a template is left over in a brace
\* or text, where the elaborated program stops and does nothing else first
\* (elaborate, src/src/comptime.rs:143).
Outcome_(s) == <<s.how, s.out>>
MeaningIsKeptUnlessLeftOver ==
    phase = "done" /\ Misordered = {} =>
        Then(Run(source, TRUE, RunFuel), LAMBDA s : Then(Run(result, FALSE, RunFuel), LAMBDA r :
             \/ Outcome_(r) = Outcome_(s)
             \/ LeftOver /\ r.how = "stuck" /\ IsPrefix(r.out, s.out)))

\* A program is only rejected when one of its compile-time expressions has no
\* value, or takes more steps than there are: what the machine leaves of the
\* fuel comes back (src/src/comptime.rs:1385).
RejectionsAreJustified ==
    phase = "failed" =>
        Run(source, TRUE, RunFuel).how \in (IF error = "quota" THEN {"spent"} ELSE {"stuck", "spent"})

RECURSIVE Reached(_)
Reached(n) ==
    {n} \cup UNION {IF m.k = "text" THEN {} ELSE Reached(m) :
                    m \in ToSet(n.es) \cup UNION {ToSet(n.bs[i]) : i \in DOMAIN n.bs}}
Positions(x) == {i \in DOMAIN result : result[i].k = "def" /\ result[i].x = x}
\* An elaborated program has no compile-time construct and no template left,
\* but for calls in texts; every specialization it calls is defined in it
\* exactly once, and every one that was requested is defined
\* (mono_expr, src/src/comptime.rs:2379).
SpecializationsClosedOutsideTexts ==
    phase = "done" =>
      Then(UNION {Reached(n) : n \in ToSet(result)}, LAMBDA nodes :
        /\ \A n \in nodes : n.k \notin {"ctif", "ctfor", "with"}
        /\ \A x \in DOMAIN collect_specializable(source) : Positions(x) = {} /\ x \notin CallsIn(nodes)
        /\ \A x \in CallsIn(nodes) \cup done : x[2] # <<>> => Cardinality(Positions(x)) = 1 /\ x \in done)
=============================================================================
