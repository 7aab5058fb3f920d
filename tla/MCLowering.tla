------------------------------ MODULE MCLowering ------------------------------
(***************************************************************************)
(* Small bodies for LoweredMachine: each family nests the constructs whose *)
(* lowerings meet.  Labels tell the leaves of a body apart.                *)
(***************************************************************************)
EXTENDS LoweredMachine, MirVerifier

Test(l) == E("test", "", l, <<>>)
Call(l, es) == E("call", "", l, es)
Var(n) == E("var", n, "", <<>>)
Op(kind, es) == E(kind, "", "", es)
Compare(l, es) == E("compare", "", l, es)
Prim(n, es) == E("prim", n, "", es)
Named(n, e) == E("named", n, "", <<e>>)
For(n, e) == E("cfor", n, "", <<e>>)
When(e) == E("cif", "", "", <<e>>)

Eval1(e) == [k |-> "eval", e |-> e]
Show(l, n) == Eval1(Call(l, <<Var(n)>>))
Declares(k, n, e) == [k |-> k, n |-> n, e |-> e]
If(cond, b, orelse) == [k |-> "if", branches |-> <<[cond |-> cond, body |-> b]>>, orelse |-> orelse]
While(cond, b, orelse) == [k |-> "while", e |-> cond, body |-> b, orelse |-> orelse]
ForIn(n, e, b, orelse) ==
  [k |-> "for", n |-> n, reference |-> FALSE, e |-> e, body |-> b, orelse |-> orelse]
ForRef(n, source, b, orelse) ==
  [k |-> "for", n |-> n, reference |-> TRUE, e |-> Var(source), body |-> b, orelse |-> orelse]
Try(b, hname, handler, orelse, final) ==
  [k |-> "try", body |-> b, hname |-> hname, handler |-> handler, orelse |-> orelse,
   final |-> final]
Break == [k |-> "break"]
Continue == [k |-> "continue"]
Return(e) == [k |-> "return", e |-> e]
Raise(e) == [k |-> "raise", e |-> e]

VarX(l) == Declares("var", "x", Call(l, <<>>))
AssignX(e) == Declares("assign", "x", e)
AugX(l) == Declares("aug", "x", Call(l, <<>>))

(* Expressions, as the operand of a call between two others and as a       *)
(* condition.                                                              *)
Conditions ==
  {Test("a"), Op("and", <<Test("a"), Test("b")>>), Op("or", <<Test("a"), Test("b")>>),
   Op("and", <<Op("or", <<Test("a"), Test("b")>>), Test("c")>>),
   Op("or", <<Test("a"), Op("and", <<Test("b"), Test("c")>>)>>),
   Compare("a", <<Var("x"), Call("b", <<>>), Var("x")>>),
   Op("if", <<Test("a"), Test("b"), Op("and", <<Test("c"), Test("d")>>)>>)}
Values ==
  Conditions \union
  {Op("if", <<Test("a"), Call("b", <<>>), Var("x")>>),
   Named("y", Call("a", <<Var("x")>>)),
   E("tstring", "", "", <<Var("x"), Call("a", <<>>)>>),
   Op("comprehension", <<For("i", Call("a", <<>>)), Call("b", <<Var("i"), Var("x")>>)>>),
   Op("comprehension", <<For("x", Call("a", <<>>)), For("x", Call("b", <<Var("x")>>)),
                         Var("x")>>),
   Op("comprehension", <<For("i", Call("a", <<>>)), When(Test("b")), Var("i")>>)}
Expressions ==
  {<<VarX("v"), Eval1(Call("r", <<Var("x"), e, Var("x")>>)), Show("s", "x")>> : e \in Values}
  \union {<<VarX("v"), s>> : s \in
            {If(c, <<Show("s", "x")>>, <<AssignX(Call("t", <<>>)), Show("u", "x")>>)
               : c \in Conditions}
            \union {While(c, <<Show("s", "x")>>, <<>>) : c \in Conditions}
            \union {Return(v) : v \in Values} \union {Raise(v) : v \in Values}}

(* What may stand in a loop, and the loops around it.                      *)
Leaving == {Break, Continue, Return(Var("x")), Raise(Var("x")), AssignX(Call("m", <<>>))}
Inner(s) == {<<s>>, <<If(Test("g"), <<s>>, <<>>), Show("h", "x")>>, <<s, Show("h", "x")>>}
Tries(s) ==
  {<<Try(<<s, Show("h", "x")>>, "", <<>>, <<>>, <<Show("f", "x")>>)>>,
   <<Try(<<Eval1(Call("p", <<>>)), s>>, "err", <<Show("q", "err")>>, <<Show("o", "x")>>, <<>>)>>,
   <<Try(<<Eval1(Call("p", <<>>))>>, "", <<s>>, <<Show("o", "x")>>, <<Show("f", "x")>>)>>,
   <<Try(<<Eval1(Call("p", <<>>))>>, "", <<AugX("q")>>, <<s>>, <<Show("f", "x")>>)>>,
   <<Try(<<Raise(Var("x"))>>, "", <<>>, <<>>, <<s>>)>>,
   <<Try(<<While(Test("w"), <<Try(<<s>>, "", <<Show("q", "x")>>, <<>>, <<>>)>>, <<>>)>>, "",
         <<Show("h", "x")>>, <<>>, <<>>)>>,
   <<Try(<<While(Test("w"), <<Try(<<While(Test("y"), <<s>>, <<>>)>>, "",
                                  <<Show("q", "x")>>, <<>>, <<>>)>>, <<>>)>>, "",
         <<>>, <<>>, <<Show("f", "x")>>)>>,
   <<Try(<<While(Test("w"), <<Try(<<While(Test("y"), <<>>, <<s>>)>>, "",
                                  <<Show("q", "x")>>, <<>>, <<>>)>>, <<>>)>>, "",
         <<>>, <<>>, <<Show("f", "x")>>)>>}
Loops(inside) ==
  {<<VarX("v"), While(Test("t"), inside, <<Show("e", "x")>>), Show("z", "x")>>,
   <<VarX("v"), ForIn("i", Call("t", <<>>), inside, <<>>), Show("z", "x")>>,
   <<VarX("v"), While(Test("t"), <<ForIn("i", Call("u", <<>>), inside, <<Break>>)>>,
                      <<Show("e", "x")>>), Show("z", "x")>>}
ControlFlow == UNION {Loops(inside) : inside \in UNION {Inner(s) \union Tries(s) : s \in Leaving}}

(* Names: a declaration in an arm, references, and what follows.           *)
NamesPrograms ==
  {<<VarX("v"), If(Test("a"), <<d>> \o u, u), Show("z", "x")>> :
     d \in {VarX("w"), Declares("var", "y", Var("x")), AssignX(Call("w", <<>>))},
     u \in {<<Show("s", "x")>>, <<AssignX(Call("s", <<Var("x")>>)), Show("r", "x")>>,
            <<While(Test("b"), <<AssignX(Call("s", <<Var("x")>>))>>, <<>>), Show("r", "x")>>}}
  \union
  {<<VarX("v"), Declares("var", "y", Call("w", <<>>)), Declares("ref", "r", Var("x")), s,
     Show("z", "x"), Show("k", "y"), Show("l", "r")>> :
     s \in {Declares("assign", "r", Call("a", <<>>)), Declares("aug", "r", Call("a", <<>>)),
            AssignX(Call("a", <<Var("r")>>)),
            If(Test("a"), <<Declares("ref", "q", Var("y")), Declares("aug", "q", Var("r"))>>,
               <<Declares("assign", "r", Var("y"))>>),
            Try(<<Declares("assign", "r", Call("a", <<>>)), Raise(Var("r"))>>, "e",
                <<Declares("assign", "r", Var("e"))>>, <<>>, <<>>)}}
  \union
  {<<Declares("var", "x", Prim("list", <<Call("a", <<>>), Call("b", <<>>)>>)),
     ForRef("i", "x", inside, orelse), Show("z", "x")>> :
     inside \in {<<>>, <<Show("s", "i")>>, <<Declares("assign", "i", Call("s", <<Var("i")>>))>>,
                 <<If(Test("s"), <<Break>>, <<>>), Declares("aug", "i", Call("d", <<>>))>>},
     orelse \in {<<>>, <<Show("e", "x")>>}}
  \union
  {<<Declares("var", "p", Prim("list", <<Call("a", <<>>), Call("b", <<>>)>>)),
     [k |-> "unpack", targets |-> <<"x", "y">>, e |-> Var("p")], Show("s", "x"), Show("z", "y")>>}

(* Tries whose regions raise, call or do neither, in one another's body or  *)
(* handler: nothing outside of them can raise.                              *)
Quiet == AssignX(Prim("list", <<>>))
Regions == {<<Quiet>>, <<Raise(Var("x"))>>, <<If(Test("g"), <<Eval1(Call("h", <<>>))>>, <<>>)>>}
ProtectedTries ==
  {Try(b, "", h, o, f) : b \in Regions, h \in Regions \union {<<>>},
                         o \in {<<>>, <<Raise(Var("x"))>>}, f \in {<<>>, <<Raise(Var("x"))>>}}
ProtectionPrograms ==
  LET Holding(t) == {<<t>>, <<Try(<<t>>, "", <<Quiet>>, <<>>, <<>>)>>,
                     <<Try(<<Raise(Var("x"))>>, "", <<t>>, <<>>, <<>>)>>}
  IN  {<<Declares("var", "x", Prim("list", <<>>))>> \o b : b \in UNION {Holding(t) : t \in ProtectedTries}}

(* The verifier agrees with the machine.  What mir/verify.rs demands before *)
(* the machine runs a function holds of everything that the lowering makes  *)
(* of a body within the documented limit (a `break` from a try region in a  *)
(* try region has no block to go to); and a function that ends by raising   *)
(* is one that the verifier, told that it may not raise, rejects: the       *)
(* protection it reckons region by region is no weaker than the handlers.   *)
Start == stack = <<Region(<<>>)>> /\ top.ip = 1 /\ top.block = 1 /\ regs = <<>>
Findings(raises) == verify(Function(lower_cfg(build_fn(<<>>, body)), raises))
VerifierAgrees ==
  /\ Start /\ ~LeavesTryInTry(body, FALSE, FALSE) => Findings(TRUE) = {}
  /\ Done /\ flow.t = "raise" =>
       "unprotected raise in nonraising function" \in Findings(FALSE)

MCPrograms == Expressions \union ControlFlow \union NamesPrograms \union ProtectionPrograms
MCMaxPicks == 7
=============================================================================
