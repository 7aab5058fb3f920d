----------------------------- MODULE MCFrontend -----------------------------
(* The front end over three kinds of small texts: programs printed from     *)
(* their trees, lines that only differ in layout, and lines of which some   *)
(* do not parse.                                                            *)
EXTENDS Frontend, Unparse

VARIABLE wanted              \* what the text is made from
mcvars == <<vars, wanted>>

MCIdentifiers == {"x", "y", "f", "T", "self", "ref", "imm", "read", "mut", "out", "deinit",
                  "where", "unified", "abi", "thin", "capturing", "assert", "Int", "Bool",
                  "Self", "Origin", "reflect"}
MCCapitalised == {"T", "Int", "Bool", "Self", "Origin"}

-----------------------------------------------------------------------------
(* Programs of expressions: two forms around a name.                        *)

x == <<"Id", "x">>
y == <<"Id", "y">>
TypeT == <<"Applied", <<"Id", "T">>, <<>>>>
IntT == <<"Scalar", "Int">>

Around(e) ==
    {<<"Neg", e>>, <<"Not", e>>, <<"Named", x, e>>, <<"Member", e, "f">>,
     <<"Transfer", e>>, <<"MethodCall", e, "f", <<y>>>>, <<"MethodCall", y, "f", <<e, <<"Kw", x, e>>>>>>,
     <<"Call", e, <<>>, <<>>>>, <<"Call", y, <<>>, <<<<"Spread", e>>, e>>>>,
     <<"Call", y, <<<<"Value", e>>, <<"Type", IntT>>>>, <<e>>>>,
     <<"Index", e, y>>, <<"Index", y, e>>, <<"SliceOf", y, <<"Slice", <<e>>, <<>>, <<<<e>>>>>>>>,
     <<"MultiIndex", y, <<<<"Value", e>>, <<"Slice", <<>>, <<e>>, <<>>>>>>>>,
     <<"IfExpr", e, y, y>>, <<"IfExpr", y, e, y>>, <<"IfExpr", y, y, e>>,
     <<"Compare", e, <<<<"Compared", "<", y>>, <<"Compared", "not in", e>>>>>>,
     <<"TupleLit", <<e>>>>, <<"TupleLit", <<e, y>>>>, <<"ListLit", <<y, e>>>>,
     <<"BraceLit", <<<<"Pair", e, e>>>>>>, <<"BraceLit", <<<<"Element", e>>, <<"Element", y>>>>>>,
     <<"ListOf", e, <<<<"ForClause", "plain", "x", e>>, <<"IfClause", e>>>>>>,
     <<"BraceOf", <<"Pair", e, y>>, <<<<"ForClause", "ref", "x", e>>>>>>}
    \cup {<<"Infix", e, op, y>> : op \in {"or", "and", "<", "+", "*", "**"}}
    \cup {<<"Infix", y, op, e>> : op \in {"or", "and", "not in", "-", "//", "**"}}

Forms == Around(x) \cup {<<"Lit", "1">>, <<"Str", <<"str", "doc">>>>, <<"TString", <<"tstr">>>>}
Expressions == UNION {{e} \cup Around(e) : e \in Forms}

-----------------------------------------------------------------------------
(* Programs of statements: each form of the grammar.                        *)

Do(e) == <<"Expr", e>>
pass == <<"Pass">>
P(kind, conv, origin, type, default) == <<"Param", kind, conv, origin, "x", type, default>>
Plain == P("Regular", "none", <<>>, TypeT, <<>>)
Types == {
    TypeT, IntT, <<"SelfType">>, <<"SelfParam", "x">>, <<"Assoc", TypeT, "f">>,
    <<"Pack", "x">>,
    <<"Applied", <<"Id", "T">>, <<<<"Type", IntT>>, <<"NamedArg", <<"Value", y>>, <<"Value", x>>>>>>>>,
    <<"Ref", <<>>, TypeT>>, <<"Ref", <<x, y>>, TypeT>>,
    <<"Func", <<TypeT, IntT>>, {"thin"}, IntT>>, <<"Func", <<>>, {}, IntT>>}
Parameters == {
    <<Plain, <<"Marker", "/">>, P("Regular", "mut", <<>>, IntT, <<x>>)>>,
    <<Plain, <<"Marker", "*">>, P("Regular", "ref", <<x>>, TypeT, <<>>)>>,
    <<P("Variadic", "none", <<>>, IntT, <<>>), P("KwVariadic", "none", <<>>, TypeT, <<>>)>>,
    <<P("Regular", "var", <<>>, TypeT, <<>>)>>}
TypeParameters == {
    <<<<"TypeParam", "single", "x", "Int", <<>>, <<>>, <<y>>>>>>,
    <<<<"TypeParam", "single", "x", "T", <<>>, <<"y", "f">>, <<>>>>, <<"InferOnly">>,
      <<"TypeParam", "variadic", "y", "T", <<<<"Type", IntT>>>>, <<>>, <<>>>>>>,
    <<<<"TypeParam", "single", "x", "Origin", <<"Mutability", <<"Lit", "True">>>>, <<>>, <<>>>>>>}
CaptureLists == {<<>>, <<<<>>>>, <<<<<<"Moves", "x">>, <<"Mutates", "y">>, <<"Reads", "f">>>>>>,
                 <<<<<<"ReadsAll">>>>>>}
Def(d, tps, ps, cs, raises, ret, where, body) == <<"Def", d, "f", tps, ps, cs, raises, ret, where, body>>
Block1 == <<Do(x)>>
Block2 == <<Do(x), <<"Return", <<y>>>>>>

Simple == {
    pass, <<"Break">>, <<"Continue">>, <<"Return", <<>>>>, <<"Raise", <<"Str", <<"str">>>>>>,
    <<"Return", <<<<"TupleLit", <<x, y>>>>>>>>,
    <<"Assign", x, <<"TupleLit", <<x, y>>>>>>, <<"Assign", <<"Index", x, y>>, y>>,
    <<"Assign", <<"SliceOf", x, <<"Slice", <<>>, <<>>, <<>>>>>>, y>>,
    <<"AugAssign", <<"Member", x, "f">>, "+=", y>>,
    <<"Unpack", <<x, <<"Member", y, "f">>>>, <<"TupleLit", <<y, x>>>>>>,
    <<"RefDecl", "x", <<"Member", y, "f">>>>,
    <<"VarDecl", x, <<IntT>>, <<"Uninitialized">>>>, <<"VarDecl", x, <<TypeT>>, y>>,
    <<"VarDecl", x, <<>>, <<"TupleLit", <<x, y>>>>>>,
    <<"Comptime", "x", y>>, <<"Assert", <<x, <<"Str", <<"str">>>>>>>>,
    <<"Import", <<"x", "y">>, <<"f">>>>, <<"Import", <<"x">>, <<>>>>,
    <<"FromImport", 0, <<"x", "y">>, <<<<"ImportName", "f", <<>>>>, <<"ImportName", "x", <<"y">>>>>>>>,
    <<"FromImport", 3, <<>>, <<<<"ImportName", "f", <<>>>>>>>>,
    <<"FromImport", 1, <<"x">>, <<<<"Wildcard", "*">>>>>>}
Compound(body) == {
    <<"If", <<<<"Branch", x, body>>>>, <<>>>>,
    <<"If", <<<<"Branch", x, body>>, <<"Branch", y, Block1>>>>, <<body>>>>,
    <<"While", <<"Branch", x, body>>, <<Block1>>>>, <<"While", <<"Branch", x, body>>, <<>>>>,
    <<"For", "plain", "x", y, body, <<>>>>, <<"For", "ref", "x", y, body, <<Block1>>>>,
    <<"ComptimeFor", "plain", "x", y, body>>,
    <<"With", <<<<"Item", x, <<>>>>, <<"Item", y, <<"f">>>>>>, body>>,
    <<"Try", body, <<<<"x">>, Block1>>, <<Block1>>, <<body>>>>,
    <<"Try", Block1, <<>>, <<>>, <<body>>>>, <<"Try", body, <<<<>>, body>>, <<>>, <<>>>>,
    Def(<<>>, <<>>, <<>>, <<>>, <<>>, <<>>, <<>>, body)}
Nested == UNION {Compound(<<s>>) : s \in Compound(Block1)}
Definitions ==
    {Def(<<>>, <<>>, ps, cs, <<>>, <<>>, <<>>, Block1) : ps \in Parameters, cs \in CaptureLists}
    \cup {Def(<<<<"Decorator", <<"x", "f">>, <<y>>>>>>, tps, <<Plain>>, <<>>, <<"raises">>, <<t>>, <<y>>,
              Block2) : tps \in TypeParameters, t \in Types}
Member1(self) ==
    <<"Method", <<>>, "f", <<>>, self, <<Plain>>, <<"raises", TypeT>>, <<IntT>>, <<x>>, Block2>>
Requires(self, body) ==
    <<"Requirement", "f", <<>>, self, <<Plain>>, <<"raises">>, <<TypeT>>, <<x>>, body>>
Selves == {<<"self">>, <<"mut", <<>>>>, <<"ref", <<y>>>>}
Members ==
    {<<"Field", "x", TypeT>>, <<"Associated", "T", y>>,
     <<"Method", <<<<"Decorator", <<"x">>, <<>>>>>>, "f", <<>>, <<>>, <<>>, <<>>, <<>>, <<>>, Block1>>}
    \cup {Member1(self) : self \in Selves}
Requirements ==
    {<<"AssociatedType", "T", <<TypeT, IntT>>>>}
    \cup {Requires(self, body) : self \in Selves, body \in {<<>>, <<Block2>>}}
Declarations ==
    {<<"Struct", <<>>, "T", <<>>, <<>>, <<m, n>>>> : m, n \in Members}
    \cup {<<"Trait", "T", <<"x", "y">>, <<m, n>>>> : m, n \in Requirements}
    \cup {<<"Struct", <<<<"Decorator", <<"x">>, <<y>>>>>>, "T", tps,
            <<<<"Conforms", "x", <<y>>>>, <<"Callable", <<"Func", <<IntT>>, {}, IntT>>>>>>, <<<<"Field", "y", IntT>>>>>> :
            tps \in TypeParameters}

Programs ==
    {<<<<"Assign", x, e>>>> : e \in Expressions}
    \cup {<<s, pass>> : s \in Simple \cup Definitions \cup Compound(<<pass>>)}

-----------------------------------------------------------------------------
(* The layouts of a program: as printed; its lines joined at every space;   *)
(* lines broken and commented inside brackets; comments, blank lines and    *)
(* spaces between statements and at their end.                              *)

RECURSIVE Depth(_)
Depth(text) == IF text = <<>> THEN 0
               ELSE Depth(Front(text)) + (IF Last(text) \in Openers THEN 1
                                          ELSE IF Last(text) \in Closers THEN -1 ELSE 0)
Relaid(text, New(_)) == FlattenSeq([i \in DOMAIN text |-> New(i)])
Joined_(text) ==
    Relaid(text, LAMBDA i :
        IF text[i] = "sp" /\ \E k \in 1 .. i - 1 : /\ text[k] \notin {"sp", "nl"}
                                                   /\ \A n \in k .. i : text[n] # "nl"
        THEN <<"sp", "\\">> \o (IF i % 2 = 0 THEN <<"cr", "nl">> ELSE <<"nl", "tab">>) ELSE <<text[i]>>)
Broken_(text) ==
    Relaid(text, LAMBDA i : IF text[i] \in Openers \cup {","} /\ Depth(SubSeq(text, 1, i)) > 0
                            THEN <<text[i], "sp", "#", "(", "nl", "nl", "sp">> ELSE <<text[i]>>)
Commented(text) ==
    <<"sp", "nl">> \o Relaid(text, LAMBDA i : IF text[i] = "nl" THEN <<"cr", "#", "x", "nl", "sp", "sp", "#", "nl">>
                                              ELSE <<text[i]>>)

Layouts(text) == {text, Joined_(text), Broken_(text), Commented(text), Front(text)}
Printed ==
    {<<p, Layouts(Block(p))>> : p \in Programs}
    \cup {<<<<s>>, {Block(<<s>>)}>> : s \in Nested \cup Declarations}

InitPrinted ==
    \E printed \in Printed :
        /\ wanted = [kind |-> "program", made |-> printed[1]]
        /\ \E text \in printed[2] : InitWith(text)

-----------------------------------------------------------------------------
(* Lines that differ in layout: their indentation and what they hold.       *)

Contents == [code |-> <<"x">>, blank |-> <<>>, comment |-> <<"#", "sp", "(">>, open |-> <<"(", "x">>,
             close |-> <<")">>, joined |-> <<"x", "\\">>, string |-> <<"str">>]
PhysicalLines ==
    {<<1, "blank">>, <<0, "comment">>, <<2, "comment">>, <<0, "open">>, <<1, "open">>, <<1, "close">>,
     <<0, "joined">>, <<1, "joined">>} \cup ({0, 1, 2} \X {"code", "string"})
TextOf(line) == [i \in 1 .. line[1] |-> "sp"] \o Line(Contents[line[2]])

\* The brackets open before a line.
OpenBefore(lines, i) ==
    Cardinality({k \in 1 .. i - 1 : lines[k][2] = "open"}) - Cardinality({k \in 1 .. i - 1 : lines[k][2] = "close"})
Balanced(lines) == \A i \in 1 .. Len(lines) + 1 : OpenBefore(lines, i) >= 0

\* The last line may lack its end.
Arranged ==
    {<<lines, FlattenSeq([i \in DOMAIN lines |-> TextOf(lines[i])])>> :
        lines \in {l \in PhysicalLines \X PhysicalLines \X PhysicalLines
                         \X {<<0, "code">>, <<1, "code">>, <<2, "close">>} : Balanced(l)}}

InitLines ==
    \E arranged \in Arranged :
        /\ wanted = [kind |-> "lines", made |-> arranged[1]]
        /\ InitWith(arranged[2]) \/ InitWith(Front(arranged[2]))

-----------------------------------------------------------------------------
(* Lines of which some do not parse: a text, the errors there are in it and *)
(* the expressions a report is to keep (the parse of an `if` looks past its *)
(* end for an `else`, and a lexical error there takes it along). The token  *)
(* at fault is not the line's end, which the recovery would take for a      *)
(* boundary already passed.                                                 *)

DoX == Do(x)
Mistaken == {
    <<<<"x", "nl">>, 0, <<DoX>>>>,
    <<<<"x", ";", "y", ";", "nl">>, 0, <<DoX, Do(y)>>>>,
    <<<<"if", "x", ":", "nl", "sp", "y", "nl">>, 0, <<>>>>,
    <<<<"x", "sp", "y", "=", "nl">>, 1, <<>>>>,
    <<<<"x", "sp", "y", ";", "y", "nl">>, 1, <<Do(y)>>>>,
    <<<<")", "nl">>, 1, <<>>>>,
    <<<<"}", "nl">>, 1, <<>>>>,
    <<<<"x", "=", ")", "nl">>, 1, <<>>>>,
    <<<<"x", "=", "tbad", "tstr", "nl">>, 1, <<>>>>,
    <<<<";", "x", "nl">>, 1, <<>>>>,
    <<<<"x", "=", "1e", "x", "nl">>, 1, <<>>>>,
    <<<<"quote", "x", "nl">>, 1, <<>>>>,
    <<<<"x", "(", "]", ")", "nl">>, 1, <<>>>>,
    <<<<"except", ":", "nl", "sp", "x", "nl">>, 1, <<DoX>>>>,
    <<<<"if", "x", ":", "nl", "sp", "x", "=", "=", "nl", "sp", "y", "nl">>, 1, <<Do(y)>>>>,
    <<<<"if", "x", ":", "nl", "sp", "sp", "y", "nl", "sp", ")", "nl">>, 2, <<>>>>}

InitMistakes ==
    \E a, b, c \in Mistaken :
        /\ wanted = [kind |-> "mistakes", made |-> <<a, b, c>>]
        /\ InitWith(a[1] \o b[1] \o c[1])

\* A character that starts no token, between statements or where one has begun
\* (an `if` looks past its block for an `else`); and a last line of blanks alone
\* in a block.
Between == {<<>>, <<"x", "nl">>, <<"x", ";", "sp">>, <<"x", "sp", "y", "nl">>}
Begun == {<<"x", "=">>, <<"x", "sp">>, <<"y", "nl", "x", "(">>, <<"x", ")">>,
          <<"if", "x", ":", "nl", "sp">>, <<"if", "x", ":", "nl", "sp", "x", "nl">>}
Unlexed == {<<"$", "nl">>, <<"!", "x", "nl">>, <<"\\", "x", "nl">>, <<"\\", "cr">>}
InitStops ==
    \E stops \in {<<before \o rest, "sticks">> : before \in Begun, rest \in Unlexed}
                \cup {<<before \o rest, "ends">> : before \in Between, rest \in Unlexed}
                \cup {<<<<"if", "x", ":", "nl", "sp", "x", "nl", "sp">>, "panics">>} :
        /\ wanted = [kind |-> "stops", made |-> stops[2]]
        /\ InitWith(stops[1])

Init == InitPrinted \/ InitLines \/ InitMistakes \/ InitStops

Of(kind) == wanted.kind = kind

\* Lines of one kind of statement have no need of the report.
MCNext == Next /\ (Of("lines") => stage = "lex") /\ UNCHANGED wanted
Spec == Init /\ [][MCNext]_mcvars /\ WF_mcvars(MCNext)

-----------------------------------------------------------------------------
(* Properties.                                                              *)

\* Trees are compared as they print: two that differ need not have one shape.
SameTrees(t, u) == ToString(t) = ToString(u)

\* A transfer that the parser does not give the power of a call, as documented:
\* it reads one at the power of a sum, so that `x * y^` transfers the product,
\* and one after a group not at all, since a group has the span of what it
\* holds, which the sigil has to touch. Forms nest two deep here.
LooseTransfer(e) ==
    \/ e[1] = "Transfer" /\ LevelOf(e[2]) < 12
    \/ e[1] = "Neg" /\ e[2][1] = "Transfer"
    \/ e[1] = "Infix" /\ OpLevel(e[3]) >= 8 /\ e[4][1] = "Transfer"
Misread(p) == p[1][1] = "Assign" /\ LooseTransfer(p[1][3])

\* A printed program is parsed, and to the trees it was printed from, in every
\* layout: precedence and association, what brackets mean after a name, where
\* a target, a type, a capture or a suite ends. The programs that are not are
\* those with such a transfer, and all of those.
ReadsBackUnlessTransferred ==
    Of("program") /\ stage = "done" =>
        ((strict.ok /\ SameTrees(strict.out, wanted.made)) <=> ~ Misread(wanted.made))

\* Of lines that contain mistakes each mistake is reported, once, and none in
\* the lines that have none, whose statements are kept.
Expected(Field(_)) == FoldLeft(LAMBDA all, m : all \o Field(m), <<>>, wanted.made)
EveryMistakeIsReported ==
    Of("mistakes") =>
        /\ SameTrees(SelectSeq(program, LAMBDA s : s[1] = "Expr"), Expected(LAMBDA m : m[3]))
        /\ Len(errors) = Len(Expected(LAMBDA m : [k \in 1 .. m[2] |-> k]))

\* A report without errors is one of a program that compiles, with the same
\* statements; a report that has some is of one that does not.
ReportAgrees ==
    /\ (errors = <<>>) = strict.ok
    /\ strict.ok => SameTrees(program, strict.out)

\* What the report of parse_program_diagnostics says, when it is done and was
\* not cut short, is what the text deserves.
ReportIsFaithful ==
    stage = "done" /\ ~ truncated => EveryMistakeIsReported /\ ReportAgrees

\* The report is made, unless the lexer panics or recovery stands still, for
\* ever at one character: it goes on to the next item after an error, but a
\* character that starts no token is never consumed, so that where a statement
\* has begun there is no next item. Between statements the same error fills the
\* report instead.
Ended ==
    CASE Of("lines") -> TRUE
      [] Of("stops") /\ wanted.made = "panics" -> panicked
      [] Of("stops") /\ wanted.made = "sticks" -> stage = "sync" /\ Stuck
      [] OTHER -> stage = "done"
ReportEndsUnlessStuckInside == <>[]Ended

-----------------------------------------------------------------------------
(* The offside rule, read off the lines.                                    *)

\* A line that begins a statement: outside brackets, not blank, not joined to
\* the line before, and not a string deeper than the one it would continue.
Indent_(i) == wanted.made[i][1]
Holds_(i) == wanted.made[i][2]
Outside(i) == OpenBefore(wanted.made, i) = 0
RECURSIVE Begins(_)
Level(i) == Indent_(Max({k \in 1 .. i : Begins(k)}))
Begins(i) ==
    /\ Outside(i)
    /\ Holds_(i) \notin {"blank", "comment"}
    /\ i > 1 => Holds_(i - 1) # "joined"
    /\ Holds_(i) = "string" /\ i > 1 /\ Holds_(i - 1) = "string" =>
         ~ Outside(i - 1) \/ Indent_(i) <= Level(i - 1)
Starts == {i \in DOMAIN wanted.made : Begins(i)}

\* A line stands in a block of the lines before it, or opens one.
Placed(i) ==
    LET before == {k \in Starts : k < i} IN
    \/ Indent_(i) = 0
    \/ before = {}
    \/ Indent_(i) >= Indent_(Max(before))
    \/ \E k \in before : /\ Indent_(k) = Indent_(i)
                         /\ \A n \in before : n > k => Indent_(n) >= Indent_(k)

\* The blocks that the first k items have opened and not closed, and the items
\* that begin a statement.
Opened(k) == Cardinality({i \in 1 .. k : items[i].tok = "Indent"})
             - Cardinality({i \in 1 .. k : items[i].tok = "Dedent"})
Heads == {i \in DOMAIN items : /\ items[i].tok \notin Layout \cup {Error}
                               /\ i > 1 => items[i - 1].tok \in Layout \cup {Error}}
InOrder(positions) == SetToSortSeq(positions, LAMBDA a, b : a < b)

\* Where each line stands in a block: no lexical error, as many statements as
\* lines that begin one, all blocks closed, and two lines in one block when
\* and only when they are as deep and no line between them is less deep.
OffsideRule ==
    Of("lines") /\ Lexed /\ (\A i \in Starts : Placed(i)) =>
        LET starts == InOrder(Starts)
            heads == InOrder(Heads)
            OneBlock(m, n) == \A k \in heads[m] .. heads[n] : Opened(k) >= Opened(heads[m])
            AsDeep(m, n) == \A k \in m .. n : Indent_(starts[k]) >= Indent_(starts[m])
        IN
        /\ Error \notin {items[i].tok : i \in DOMAIN items}
        /\ Len(heads) = Len(starts)
        /\ Opened(Len(items)) = 0
        /\ \A m, n \in DOMAIN starts : m < n =>
             (OneBlock(m, n) /\ Opened(heads[n]) = Opened(heads[m]))
             = (AsDeep(m, n) /\ Indent_(starts[n]) = Indent_(starts[m]))
=============================================================================
