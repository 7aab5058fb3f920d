------------------------------- MODULE Unparse -------------------------------
(* The surface syntax of the trees: the text that docs/frontend.md and the  *)
(* comments of src/ast.rs give each form, with brackets only where the      *)
(* documented precedence asks for them, by which a postfix transfer binds   *)
(* as a call does. The parser is to read it back.                           *)
EXTENDS Integers, Sequences, SequencesExt

\* The level of a form and the levels of its operands, loosest first.
Levels == [Named |-> 2, IfExpr |-> 3, Not |-> 6, Compare |-> 7, Neg |-> 10]
OpLevel(op) ==
    CASE op = "or" -> 4 [] op = "and" -> 5
      [] op \in {"==", "<", "in", "not in"} -> 7
      [] op \in {"+", "-", "^", "<<"} -> 8
      [] op \in {"*", "//", "@"} -> 9
      [] op = "**" -> 11
LevelOf(e) ==
    IF e[1] = "Infix" THEN OpLevel(e[3])
    ELSE IF e[1] \in DOMAIN Levels THEN Levels[e[1]] ELSE 12

sp == <<"sp">>
\* The texts one after the other, apart by a separator.
Joined(texts, separator) ==
    FoldLeft(LAMBDA whole, t : IF whole = <<>> THEN t ELSE whole \o separator \o t, <<>>, texts)
Op(op) == sp \o (IF op = "not in" THEN <<"not", "sp", "in">> ELSE <<op>>) \o sp

\* A name before brackets is a type among bracketed arguments: `xs[(ys[i])]`.
Guarded(text) ==
    IF Len(text) > 1 /\ text[2] = "[" /\ text[1] # "(" THEN <<"(">> \o text \o <<")">> ELSE text

\* One operator for every tree: the tags of expressions, types, arguments and
\* statements differ.
RECURSIVE Text(_)

\* An operand of at least that level.
Operand(e, level) == IF LevelOf(e) >= level THEN Text(e) ELSE <<"(">> \o Text(e) \o <<")">>
\* A member or brackets before the arguments would be theirs.
Callee(e) ==
    Operand(e, IF e[1] \in {"Member", "Index", "SliceOf", "MultiIndex", "TypeApply"} THEN 13 ELSE 12)
Listed_(es) == Joined([i \in DOMAIN es |-> Text(es[i])], <<",", "sp">>)
Args(as) == <<"(">> \o Joined([i \in DOMAIN as |-> Text(as[i])], <<",", "sp">>) \o <<")">>
Brackets(ps) ==
    IF ps = <<>> THEN <<>>
    ELSE <<"[">> \o Joined([i \in DOMAIN ps |-> Text(ps[i])], <<",", "sp">>) \o <<"]">>
Optional(before, es) == IF es = <<>> THEN <<>> ELSE before \o Text(es[1])
Clauses(cs) == Joined([i \in DOMAIN cs |-> Text(cs[i])], sp)

Typed(ts) == Joined([i \in DOMAIN ts |-> Text(ts[i])], <<",", "sp">>)
-----------------------------------------------------------------------------
(* Statements, one line each, blocks deeper by one space.                   *)

\* A block is deeper by one space.
Deeper(text) ==
    FlattenSeq([i \in DOMAIN text |->
        (IF i = 1 \/ text[i - 1] = "nl" THEN sp ELSE <<>>) \o <<text[i]>>])
Line(text) == text \o <<"nl">>
OptType(before, ts) == IF ts = <<>> THEN <<>> ELSE before \o Text(ts[1])
Alias(names) == IF names = <<>> THEN <<>> ELSE <<"sp", "as", "sp", names[1]>>
Names(path) == Joined([i \in DOMAIN path |-> <<path[i]>>], <<".">>)

TypeParam(p) ==
    IF p[1] = "InferOnly" THEN <<"//">>
    ELSE (IF p[2] = "variadic" THEN <<"*">> ELSE <<>>) \o <<p[3], ":", "sp", p[4]>>
         \o (IF p[5] = <<>> THEN <<>>
             ELSE IF p[4] = "Origin" THEN <<"[", "mut", "=">> \o Text(p[5][2]) \o <<"]">>
             ELSE Brackets(p[5]))
         \o FlattenSeq([i \in DOMAIN p[6] |-> <<"sp", "&", "sp", p[6][i]>>])
         \o Optional(<<"sp", "=", "sp">>, p[7])
TypeParams(ps) ==
    IF ps = <<>> THEN <<>>
    ELSE <<"[">> \o Joined([i \in DOMAIN ps |-> TypeParam(ps[i])], <<",", "sp">>) \o <<"]">>

\* A parameter, or a marker where it stands.
FnParam(p) ==
    IF p[1] = "Marker" THEN <<p[2]>>
    ELSE (IF p[3] = "none" THEN <<>>
          ELSE <<p[3]>> \o (IF p[4] = <<>> THEN <<>> ELSE <<"[">> \o Listed_(p[4]) \o <<"]">>) \o sp)
         \o (CASE p[2] = "Regular" -> <<>> [] p[2] = "Variadic" -> <<"*">> [] OTHER -> <<"**">>)
         \o <<p[5], ":", "sp">> \o Text(p[6]) \o Optional(<<"sp", "=", "sp">>, p[7])
FnParams(ps) == Joined([i \in DOMAIN ps |-> FnParam(ps[i])], <<",", "sp">>)
Effect(raises) == IF raises = <<>> THEN <<>>
                  ELSE <<"sp", "raises">> \o (IF Len(raises) = 1 THEN <<>> ELSE sp \o Text(raises[2]))
Capture(c) ==
    CASE c[1] = "Moves" -> <<c[2], "^">> [] c[1] = "Mutates" -> <<"mut", "sp", c[2]>>
      [] c[1] = "Reads" -> <<c[2]>> [] c[1] = "ReadsAll" -> <<"read">>
Captures(cs) ==
    IF cs = <<>> THEN <<>>
    ELSE <<"sp", "unified", "{">> \o Joined([i \in DOMAIN cs[1] |-> Capture(cs[1][i])], <<",", "sp">>)
         \o <<"}">>
Receiver(self, params) ==
    (CASE Len(self) = 1 -> <<"self">> [] Len(self) = 0 -> <<>>
       [] OTHER -> <<self[1]>> \o (IF self[2] = <<>> THEN <<>> ELSE <<"[">> \o Listed_(self[2]) \o <<"]">>)
                   \o <<"sp", "self">>)
    \o (IF self # <<>> /\ params # <<>> THEN <<",", "sp">> ELSE <<>>) \o FnParams(params)
Tail_(raises, ret, where) ==
    Effect(raises) \o OptType(<<"sp", "->", "sp">>, ret) \o Optional(<<"sp", "where", "sp">>, where)

Block(stmts) == FlattenSeq([i \in DOMAIN stmts |-> Text(stmts[i])])
Suite_(header, body) == Line(header \o <<":">>) \o Deeper(Block(body))
OptSuite(header, bodies) == IF bodies = <<>> THEN <<>> ELSE Suite_(header, bodies[1])
Branches(word, branches) ==
    FlattenSeq([i \in DOMAIN branches |->
        Suite_(<<IF i = 1 THEN word ELSE "elif", "sp">> \o Text(branches[i][2]), branches[i][3])])
Decorators(ds) ==
    FlattenSeq([i \in DOMAIN ds |->
        Line(<<"@">> \o Names(ds[i][2]) \o IF ds[i][3] = <<>> THEN <<>> ELSE Args(ds[i][3]))])
Binding_(b) == IF b = "plain" THEN <<>> ELSE <<b, "sp">>

\* The text of a tree.
Text(t) ==
    CASE t[1] \in {"Lit", "Id"} -> <<t[2]>>
      [] t[1] \in {"Str", "TString"} -> Joined([i \in DOMAIN t[2] |-> <<t[2][i]>>], sp)
      [] t[1] = "Neg" -> <<"-">> \o Operand(t[2], 10)
      [] t[1] = "Not" -> <<"not", "sp">> \o Operand(t[2], 6)
      [] t[1] = "Infix" ->
            LET l == OpLevel(t[3]) IN
            Operand(t[2], IF l \in {7, 11} THEN l + 1 ELSE l) \o Op(t[3])
            \o Operand(t[4], IF l = 11 THEN 10 ELSE l + 1)
      [] t[1] = "Compare" ->
            Operand(t[2], 8) \o FlattenSeq([i \in DOMAIN t[3] |->
                                  Op(t[3][i][2]) \o Operand(t[3][i][3], 8)])
      [] t[1] = "IfExpr" -> Operand(t[2], 4) \o Op("if") \o Operand(t[3], 4) \o Op("else") \o Text(t[4])
      [] t[1] = "Named" -> Text(t[2]) \o Op(":=") \o Text(t[3])
      [] t[1] = "Transfer" -> Operand(t[2], 12) \o <<"^">>
      [] t[1] = "Member" -> Operand(t[2], 12) \o <<".", t[3]>>
      [] t[1] = "MethodCall" -> Operand(t[2], 12) \o <<".", t[3]>> \o Args(t[4])
      [] t[1] = "Call" -> Callee(t[2]) \o Brackets(t[3]) \o Args(t[4])
      [] t[1] = "Index" -> Operand(t[2], 12) \o <<"[">> \o Guarded(Text(t[3])) \o <<"]">>
      [] t[1] = "SliceOf" -> Operand(t[2], 12) \o <<"[">> \o Text(t[3]) \o <<"]">>
      [] t[1] \in {"MultiIndex", "TypeApply"} -> Operand(t[2], 12) \o Brackets(t[3])
      [] t[1] = "TupleLit" ->
            <<"(">> \o Listed_(t[2]) \o (IF Len(t[2]) = 1 THEN <<",">> ELSE <<>>) \o <<")">>
      [] t[1] = "ListLit" -> <<"[">> \o Listed_(t[2]) \o <<"]">>
      [] t[1] = "BraceLit" -> <<"{">> \o Listed_(t[2]) \o <<"}">>
      [] t[1] = "Element" -> Text(t[2])
      [] t[1] = "Pair" -> Text(t[2]) \o <<":", "sp">> \o Text(t[3])
      [] t[1] = "ListOf" -> <<"[">> \o Text(t[2]) \o sp \o Clauses(t[3]) \o <<"]">>
      [] t[1] = "BraceOf" -> <<"{">> \o Text(t[2]) \o sp \o Clauses(t[3]) \o <<"}">>
      [] t[1] = "TypeValue" -> Text(t[2])

      [] t[1] = "ForClause" ->
            <<"for", "sp">> \o (IF t[2] = "plain" THEN <<>> ELSE <<t[2], "sp">>)
            \o <<t[3], "sp", "in", "sp">> \o Operand(t[4], 4)
      [] t[1] = "IfClause" -> <<"if", "sp">> \o Operand(t[2], 4)

      [] t[1] = "Kw" -> Text(t[2]) \o <<"=">> \o Text(t[3])
      [] t[1] = "Forward" -> <<"**">> \o Text(t[2])
      [] t[1] = "Spread" -> <<"*">> \o Text(t[2])

      [] t[1] = "Value" -> Guarded(Text(t[2]))
      [] t[1] = "Type" -> Text(t[2])
      [] t[1] = "NamedArg" -> Text(t[2]) \o <<"=">> \o Text(t[3])
      [] t[1] = "Slice" ->
            (IF t[2] = <<>> THEN <<>> ELSE Guarded(Text(t[2][1]))) \o <<":">> \o Optional(<<>>, t[3])
            \o (IF t[4] = <<>> THEN <<>> ELSE Optional(<<":">>, t[4][1]) \o
                IF t[4][1] = <<>> THEN <<":">> ELSE <<>>)

      [] t[1] = "Scalar" -> <<t[2]>>
      [] t[1] = "SelfType" -> <<"Self">>
      [] t[1] = "SelfParam" -> <<"Self", ".", t[2]>>
      [] t[1] = "Pack" -> <<"*", t[2]>>
      [] t[1] = "Applied" -> Text(t[2]) \o Brackets(t[3])
      [] t[1] = "Assoc" -> Text(t[2]) \o <<".", t[3]>>
      [] t[1] = "Ref" ->
            <<"ref">> \o (IF t[2] = <<>> THEN <<>> ELSE <<"[">> \o Listed_(t[2]) \o <<"]">>)
            \o sp \o Text(t[3])
      [] t[1] = "Func" ->
            <<"def", "(">> \o Typed(t[2]) \o <<")">>
            \o (IF "thin" \in t[3] THEN <<"sp", "thin">> ELSE <<>>) \o <<"->">> \o Text(t[4])

      [] t[1] = "Expr" -> Line(Text(t[2]))
      [] t[1] = "Assign" -> Line(Text(t[2]) \o Op("=") \o Text(t[3]))
      [] t[1] = "AugAssign" -> Line(Text(t[2]) \o Op(t[3]) \o Text(t[4]))
      [] t[1] = "Unpack" -> Line(Listed_(t[2]) \o Op("=") \o Text(t[3]))
      [] t[1] = "VarDecl" ->
            Line(<<"var", "sp">> \o Text(t[2]) \o OptType(<<":", "sp">>, t[3])
                    \o (IF t[4][1] = "Uninitialized" THEN <<>> ELSE Op("=") \o Text(t[4])))
      [] t[1] = "RefDecl" -> Line(<<"ref", "sp", t[2]>> \o Op("=") \o Text(t[3]))
      [] t[1] \in {"Pass", "Break", "Continue"} ->
            Line(<<CASE t[1] = "Pass" -> "pass" [] t[1] = "Break" -> "break" [] OTHER -> "continue">>)
      [] t[1] = "Return" -> Line(<<"return">> \o Optional(sp, t[2]))
      [] t[1] = "Raise" -> Line(<<"raise", "sp">> \o Text(t[2]))
      [] t[1] = "Import" -> Line(<<"import", "sp">> \o Names(t[2]) \o Alias(t[3]))
      [] t[1] = "FromImport" ->
            Line(<<"from", "sp">>
                    \o (IF t[2] = 3 THEN <<"...">> ELSE [i \in 1 .. t[2] |-> "."]) \o Names(t[3])
                    \o <<"sp", "import", "sp">>
                    \o IF t[4][1][1] = "Wildcard" THEN <<"*">>
                       ELSE Joined([i \in DOMAIN t[4] |-> <<t[4][i][2]>> \o Alias(t[4][i][3])],
                                   <<",", "sp">>))
      [] t[1] = "If" -> Branches("if", t[2]) \o OptSuite(<<"else">>, t[3])
      [] t[1] = "While" ->
            Suite_(<<"while", "sp">> \o Text(t[2][2]), t[2][3]) \o OptSuite(<<"else">>, t[3])
      [] t[1] = "For" ->
            Suite_(<<"for", "sp">> \o Binding_(t[2]) \o <<t[3], "sp", "in", "sp">> \o Text(t[4]), t[5])
            \o OptSuite(<<"else">>, t[6])
      [] t[1] = "ComptimeFor" ->
            Suite_(<<"comptime", "sp", "for", "sp", t[3], "sp", "in", "sp">> \o Text(t[4]), t[5])
      [] t[1] = "Comptime" -> Line(<<"comptime", "sp", t[2]>> \o Op("=") \o Text(t[3]))
      [] t[1] = "Assert" -> Line(<<"comptime", "sp", "assert">> \o Args(t[2]))
      [] t[1] = "With" ->
            Suite_(<<"with", "sp">> \o Joined([i \in DOMAIN t[2] |->
                        Text(t[2][i][2]) \o Alias(t[2][i][3])], <<",", "sp">>), t[3])
      [] t[1] = "Try" ->
            Suite_(<<"try">>, t[2])
            \o (IF t[3] = <<>> THEN <<>>
                ELSE Suite_(<<"except">> \o (IF t[3][1] = <<>> THEN <<>> ELSE <<"sp", t[3][1][1]>>),
                            t[3][2]))
            \o OptSuite(<<"else">>, t[4]) \o OptSuite(<<"finally">>, t[5])
      [] t[1] = "Def" ->
            Decorators(t[2])
            \o Suite_(<<"def", "sp", t[3]>> \o TypeParams(t[4]) \o <<"(">> \o FnParams(t[5]) \o <<")">>
                         \o Captures(t[6]) \o Tail_(t[7], t[8], t[9]), t[10])
      [] t[1] = "Struct" ->
            Decorators(t[2])
            \o Suite_(<<"struct", "sp", t[3]>> \o TypeParams(t[4])
                 \o (IF t[5] = <<>> THEN <<>>
                     ELSE <<"(">> \o Joined([i \in DOMAIN t[5] |->
                            IF t[5][i][1] = "Callable" THEN Text(t[5][i][2])
                            ELSE <<t[5][i][2]>> \o Optional(<<"sp", "where", "sp">>, t[5][i][3])],
                            <<",", "sp">>) \o <<")">>), t[6])
      [] t[1] = "Trait" ->
            Suite_(<<"trait", "sp", t[2]>>
                 \o (IF t[3] = <<>> THEN <<>>
                     ELSE <<"(">> \o Joined([i \in DOMAIN t[3] |-> <<t[3][i]>>], <<",", "sp">>) \o <<")">>),
                 t[4])
      [] t[1] = "Field" -> Line(<<"var", "sp", t[2], ":", "sp">> \o Text(t[3]))
      [] t[1] = "Associated" -> Line(<<"comptime", "sp", t[2]>> \o Op("=") \o Text(t[3]))
      [] t[1] = "AssociatedType" ->
            Line(<<"comptime", "sp", t[2], ":", "sp">>
                    \o Joined([i \in DOMAIN t[3] |-> Text(t[3][i])], <<"sp", "&", "sp">>))
      [] t[1] = "Method" ->
            Decorators(t[2])
            \o Suite_(<<"def", "sp", t[3]>> \o TypeParams(t[4]) \o <<"(">> \o Receiver(t[5], t[6])
                         \o <<")">> \o Tail_(t[7], t[8], t[9]), t[10])
      [] t[1] = "Requirement" ->
            LET header == <<"def", "sp", t[2]>> \o TypeParams(t[3]) \o <<"(">> \o Receiver(t[4], t[5])
                          \o <<")">> \o Tail_(t[6], t[7], t[8]) IN
            IF t[9] = <<>> THEN Line(header \o <<":", "sp", "...">>)
            ELSE Suite_(header, t[9][1])
=============================================================================
