------------------------------- MODULE Parser -------------------------------
(* The parser of src/parser.rs. Its functions are grammar rules: sequences  *)
(* of parts that consume tokens and push trees on a stack, decided by one   *)
(* token of lookahead, so that a rule reads as the syntax it accepts and    *)
(* names the places where the code looks further or checks what it parsed.  *)
(* A tree is <<tag, child, ...>>; a child is a tree, a name or a list, and  *)
(* an optional child is a list of at most one.                              *)
EXTENDS Lexer, Sequencing, TLC

CONSTANTS Identifiers,      \* the words that are no keywords
          Capitalised       \* those that do not begin with a small letter

Scalars == {"Int", "UInt", "Bool", "String", "Float64"}
Literals == {"1", "1.5", "True"}
convention_word == {"imm", "read", "mut", "out", "ref", "deinit"}
aug_assign_op == {"+=", "-=", "*=", "/=", "//=", "%=", "**="}
Comparisons == {"==", "!=", "<", ">", "<=", ">=", "in", "not"}

\* The binding powers, loosest first.
Precedence == <<"Lowest", "Walrus", "Conditional", "Or", "And", "Not", "Comparison",
                "Sum", "Product", "Unary", "Power", "Call">>
Power(p) == CHOOSE i \in DOMAIN Precedence : Precedence[i] = p

-----------------------------------------------------------------------------
(* The parts of a rule.                                                     *)

Expect(t) == [do |-> "expect", tok |-> t]
Take == [do |-> "take"]
Name == [do |-> "name"]
Word == [do |-> "word"]                       \* take the token and push it
Expr(min) == [do |-> "expr", min |-> min]
Rule(r) == [do |-> "rule", rule |-> r]
Push(v) == [do |-> "push", tree |-> v]
Make(tag, n) == [do |-> "make", tag |-> tag, n |-> n]
Apply(f) == [do |-> "apply", f |-> f]
Check(p) == [do |-> "check", holds |-> p]
Reject == [do |-> "reject"]
End == [do |-> "end"]
Parse(s) == [do |-> s]                        \* "inline", "grouped"
\* A case of a switch: the lookahead, a condition beyond it, and what follows.
CaseIf(on, also, parts) == [on |-> on, also |-> also, parts |-> parts]
Case(on, parts) == CaseIf(on, "anything", parts)
Switch(cases, otherwise) == [do |-> "switch", cases |-> cases, otherwise |-> otherwise]
If(on, then, otherwise) == Switch(<<Case(on, then)>>, otherwise)
While(on, parts) == [do |-> "while", on |-> on, until |-> {}, parts |-> parts]
Until(stops, parts) == [do |-> "while", on |-> {}, until |-> stops \cup {"none"}, parts |-> parts]
\* The values the parts push, as one list; Extend adds them to the list on top;
\* Discard drops them.
Collect(parts) == [do |-> "collect", parts |-> parts]
Extend(parts) == [do |-> "extend", parts |-> parts]
Discard(parts) == [do |-> "discard", parts |-> parts]
\* An expression that spans what the parts consume.
Node(parts) == [do |-> "node", parts |-> parts]
SkipTo(stops) == Until(stops, <<Take>>)
Opt(on, parts) == If(on, <<Collect(parts)>>, <<Push(<<>>)>>)
\* The rest of a comma-separated list; a comma may trail before a stop.
Commas(parts, stops) == While({","}, <<Take, If(stops, <<>>, parts)>>)
Never == Check("never")
EndOfDisplay == {"Newline", ";", "Eof", "none"}

-----------------------------------------------------------------------------
(* The parser's state: the next item, whether the last statement ended with *)
(* a semicolon, the trees of the rule at work, the span of the last         *)
(* expression and whether brackets only group it.                           *)

ParserNew == [at |-> 1, semi |-> FALSE, ok |-> TRUE, out |-> <<>>,
              start |-> 1, stop |-> 1, grouped |-> FALSE]

peek_token(s) ==
    IF s.at <= Len(items) THEN items[s.at].tok
    ELSE IF items # <<>> /\ Last(items).tok = Error THEN Error ELSE "none"

\* The token after the next one.
Second(s) == peek_token([s EXCEPT !.at = @ + 1])

next_token(s) ==
    LET t == peek_token(s) IN
    [s EXCEPT !.at = Min({@, Len(items)}) + 1, !.ok = @ /\ t \notin {Error, "none"}]

peek_start(s) ==
    IF peek_token(s) \in {Error, "none"} THEN s.stop ELSE items[s.at].from
Consumed(s) == IF s.at = 1 THEN 1 ELSE items[s.at - 1].to

Failed(s) == [s EXCEPT !.ok = FALSE]
Pushed(s, v) == [s EXCEPT !.out = Append(@, v)]
Top(s) == Last(s.out)
Tag(tree) == Head(tree)

peek_precedence(t) ==
    CASE t = ":=" -> "Walrus"
      [] t = "if" -> "Conditional"
      [] t = "or" -> "Or"
      [] t = "and" -> "And"
      [] t \in Comparisons -> "Comparison"
      [] t \in {"+", "-", "<<", ">>", "&", "|", "^"} -> "Sum"
      [] t \in {"*", "/", "//", "%", "@"} -> "Product"
      [] t = "**" -> "Power"
      [] t \in {"(", "[", "."} -> "Call"
      [] OTHER -> "Lowest"

(* Mutant: `**` associates to the left.                                     *)
infix_precedence_left(t) == peek_precedence(t)

\* The power at which a binary operator reads its right operand: its own, so
\* that equals associate to the left, but `**` reads one level looser.
infix_precedence(t) == IF t = "**" THEN "Unary" ELSE peek_precedence(t)

-----------------------------------------------------------------------------
(* Expressions.                                                             *)

\* An atom, a prefix operator, a bracketed display. Brackets that only group
\* leave the span of what they hold.
parse_prefix == Switch(<<
    Case(Literals \cup {"None"}, <<Word, Make("Lit", 1)>>),
    Case({"str", "doc"}, <<Collect(<<Word, While({"str", "doc"}, <<Word>>)>>), Make("Str", 1)>>),
    Case({"tstr", "tbad"}, <<Collect(<<Word, While({"tstr", "tbad"}, <<Word>>)>>),
                             Check("interpolations"), Make("TString", 1)>>),
    Case(Identifiers \cup {"..."}, <<Word, Make("Id", 1)>>),
    Case({"def"}, <<Take, Rule("function_type_tail"), Make("TypeValue", 1)>>),
    Case({"-"}, <<Take, Expr("Unary"), Make("Neg", 1)>>),
    Case({"not"}, <<Take, Expr("Not"), Make("Not", 1)>>),
    Case({"("}, <<Take, Rule("after_paren")>>),
    Case({"["}, <<Take, Rule("after_bracket")>>),
    Case({"{"}, <<Take, Rule("after_brace")>>)>>, <<Reject>>)

Elements(stops) == Commas(<<Expr("Lowest")>>, stops)

\* The arms of parse_prefix for the three brackets.
after_paren == <<
    If({")"}, <<Take, Push(<<>>), Make("TupleLit", 1)>>,
       <<Expr("Lowest"),
         If({","}, <<Apply("enlist"), Extend(<<Elements({")"})>>), Expect(")"), Make("TupleLit", 1)>>,
                   <<Expect(")"), Parse("grouped")>>)>>)>>

after_bracket == <<
    If({"]"}, <<Take, Push(<<>>), Make("ListLit", 1)>>,
       <<Expr("Lowest"),
         If({"for"}, <<Rule("comprehension_clauses"), Expect("]"), Make("ListOf", 2)>>,
                     <<Apply("enlist"), Extend(<<Elements({"]"})>>), Expect("]"),
                       Make("ListLit", 1)>>)>>)>>

Entry == <<Expr("Lowest"),
           If({":"}, <<Take, Expr("Lowest"), Make("Pair", 2)>>, <<Make("Element", 1)>>)>>

after_brace == <<
    If({"}"}, <<Take, Push(<<>>), Make("BraceLit", 1)>>,
       Entry \o
       <<If({"for"}, <<Rule("comprehension_clauses"), Expect("}"), Make("BraceOf", 2)>>,
                     <<Apply("enlist"), Extend(<<Commas(Entry \o <<Check("unmixed")>>, {"}"})>>),
                       Expect("}"), Make("BraceLit", 1)>>)>>)>>

Binding == Switch(<<Case({"ref", "var"}, <<Word>>)>>, <<Push("plain")>>)

parse_comprehension_clauses == <<Collect(<<While({"for", "if"}, <<Switch(<<
    Case({"for"}, <<Take, Binding, Name, Expect("in"), Expr("Conditional"), Make("ForClause", 3)>>)>>,
    <<Take, Expr("Conditional"), Make("IfClause", 1)>>)>>)>>)>>

\* One operator of a chain; `not` can only begin `not in`.
parse_comparison_op ==
    Switch(<<Case({"not"}, <<Take, Expect("in"), Push("not in")>>)>>, <<Word>>)
parse_comparison == <<parse_comparison_op, Expr("Comparison"), Make("Compared", 2)>>

\* A continuation of the expression on top of the stack.
parse_infix == Switch(<<
    CaseIf({"^"}, "touching", <<Take, Make("Transfer", 1)>>),
    Case({"."}, <<Take, Name,
                  If({"("}, <<Take, Rule("call_args"), Expect(")"), Make("MethodCall", 3)>>,
                            <<Make("Member", 2)>>)>>),
    Case({"["}, <<Rule("bracket_suffix")>>),
    Case({"("}, <<Push(<<>>), Take, Rule("call_args"), Expect(")"), Make("Call", 3)>>),
    Case({":="}, <<Take, Check("name"), Expr("Lowest"), Make("Named", 2)>>),
    Case({"if"}, <<Take, Expr("Conditional"), Expect("else"), Expr("Lowest"), Make("IfExpr", 3)>>),
    Case(Comparisons, <<Collect(<<While(Comparisons, parse_comparison)>>), Apply("compare")>>),
    Case({"or"}, <<Word, Expr("Or"), Make("Infix", 3)>>),
    Case({"and"}, <<Word, Expr("And"), Make("Infix", 3)>>),
    Case({"**"}, <<Word, Expr(infix_precedence("**")), Make("Infix", 3)>>),
    Case({"*", "/", "//", "%", "@"}, <<Word, Expr(infix_precedence("*")), Make("Infix", 3)>>)>>,
    <<Word, Expr(infix_precedence("+")), Make("Infix", 3)>>)

\* What follows the first colon of a slice: the upper bound and the step, each
\* a list of at most one; an omitted step after its colon is a list of none.
parse_slice_components == <<
    Expect(":"),
    If({":", ",", "]"}, <<Push(<<>>)>>, <<Collect(<<Expr("Lowest")>>)>>),
    Opt({":"}, <<Take, Collect(<<If({",", "]"}, <<>>, <<Expr("Lowest")>>)>>)>>),
    Make("Slice", 3)>>

Keyword == If({"="}, <<Check("keyword"), Take, Expr("Lowest"), Make("Value", 1),
                       Make("NamedArg", 2)>>, <<>>)

bracket_item == <<If({":"}, <<Push(<<>>)>> \o parse_slice_components,
    <<Rule("param_arg"), Keyword,
      If({":"}, <<Check("value"), Apply("unwrap")>> \o parse_slice_components, <<>>)>>)>>

\* `[`: a subscript, a slice, or the compile-time arguments of a call.
parse_bracket_suffix == <<
    Expect("["),
    If({"]"}, <<Take, Push(<<"Lit", "None">>), Make("Index", 2)>>,
       <<Collect(bracket_item \o <<Commas(bracket_item, {"]"})>>),
         Expect("]"),
         If({"("}, <<Check("no slice"), Take, Rule("call_args"), Expect(")"), Make("Call", 3)>>,
                   <<Apply("subscript")>>)>>)>>

\* The meaning of brackets after `obj` that no call follows.
AllValues(list) == \A i \in DOMAIN list : Tag(list[i]) = "Value"
Slices(list) == \E i \in DOMAIN list : Tag(list[i]) = "Slice"
subscript(obj, list) ==
    IF Slices(list)
    THEN IF Len(list) = 1 THEN <<"SliceOf", obj, list[1]>>
         ELSE IF \A i \in DOMAIN list : Tag(list[i]) \in {"Slice", "Value"}
              THEN <<"MultiIndex", obj, list>> ELSE <<"failed">>
    ELSE IF Tag(obj) = "Id" /\ obj[2] = "reflect" THEN <<"TypeApply", obj, list>>
    ELSE IF Len(list) = 1 /\ AllValues(list) THEN <<"Index", obj, list[1][2]>>
    ELSE IF Tag(obj) # "Id" THEN <<"failed">>
    ELSE IF Len(list) > 1 /\ AllValues(list) /\ obj[2] \notin Capitalised
         THEN <<"MultiIndex", obj, list>>
    ELSE <<"TypeApply", obj, list>>

parse_param_args == <<
    Expect("["),
    Collect(<<Rule("param_arg"), Keyword, Commas(<<Rule("param_arg"), Keyword>>, {"]"})>>),
    Expect("]")>>

\* A type or a value: a name before brackets is taken for a type, without a
\* look at what follows the brackets.
peek_starts_type == Scalars \cup {"None", "def", "*", "Self", "ref"}
parse_param_arg == <<Switch(<<
    Case(peek_starts_type, <<
        Node(<<Rule("type")>>),
        Switch(<<CaseIf({"("}, "scalar", <<Apply("atom"), Parse("climb"), Make("Value", 1)>>)>>,
               <<Make("Type", 1)>>)>>),
    Case(Identifiers \ peek_starts_type, <<
        Node(<<Name, Make("Id", 1)>>),
        If({"["}, <<Rule("param_args"),
                    If({"("}, <<Take, Rule("call_args"), Expect(")"), Make("Call", 3),
                                Make("Value", 1)>>,
                              <<Make("Applied", 2), Make("Type", 1)>>)>>,
                  <<Parse("climb"), Make("Value", 1)>>)>>)>>,
    <<Expr("Lowest"), Make("Value", 1)>>)>>

argument == <<Switch(<<
    Case({"**"}, <<Take, Expr("Lowest"), Check("transferred"), Make("Forward", 1),
                   If({","}, <<Take, If({")"}, <<>>, <<Never>>)>>, <<>>)>>)>>, <<
    Switch(<<Case({"*"}, <<Take, Expr("Lowest"), Make("Spread", 1)>>)>>, <<Expr("Lowest")>>),
    Switch(<<CaseIf({"=", ":"}, "name", <<Take, Expr("Lowest"), Make("Kw", 2)>>)>>,
           <<Check("positional first")>>)>>)>>
parse_call_args ==
    <<If({")"}, <<Push(<<>>)>>, <<Collect(argument \o <<Commas(argument, {")"})>>)>>)>>

-----------------------------------------------------------------------------
(* Types.                                                                   *)

Applied == <<Name, Make("Id", 1), If({"["}, <<Rule("param_args")>>, <<Push(<<>>)>>),
             Make("Applied", 2)>>

\* `ref` is a word of its own unless a type or an origin follows it.
parse_type == <<Switch(<<
    Case({"*"}, <<Take, Name, Make("Pack", 1)>>),
    Case({"def"}, <<Take, Rule("function_type_tail")>>),
    Case(Scalars \cup {"None"}, <<Word, Make("Scalar", 1)>>),
    Case({"Self"}, <<Take, If({"."}, <<Take, Name, Make("SelfParam", 1)>>,
                                     <<Push(<<"SelfType">>)>>)>>),
    CaseIf({"ref"}, "before a type", <<Take, Rule("origin_specifier"), Rule("type"), Make("Ref", 2)>>),
    Case(Identifiers, Applied)>>, <<Reject>>),
    While({"."}, <<Take, Name, Make("Assoc", 2)>>)>>

\* An annotation whose text no tree keeps: up to its closing bracket.
Skipped(word, open, close) ==
    Case({word}, <<Take, Expect(open), SkipTo({close}), Expect(close)>>)

\* `/` and `//` may stand between the parameters; the effects come in any order.
Marked == <<While({"/", "//"}, <<Take, If({","}, <<Take>>, <<>>)>>), Rule("type")>>
effect == Switch(<<
    Case({"thin"}, <<Word>>),
    Case({"raises"}, <<Take, Collect(<<If({"->"}, <<>>, <<Rule("type")>>)>>), Make("raises", 1)>>),
    Skipped("abi", "(", ")")>>, <<Take, Expect("["), SkipTo({"]"}), Expect("]")>>)

parse_function_type_tail == <<
    If({"["}, <<Discard(<<Rule("type_params")>>)>>, <<>>),
    Expect("("),
    If({")"}, <<Push(<<>>)>>,
       <<Collect(Marked \o <<Commas(Marked, {})>>)>>),
    Expect(")"),
    Collect(<<While({"thin", "raises", "abi", "capturing"}, <<effect>>)>>),
    Apply("set"),
    Expect("->"),
    Rule("type"),
    Make("Func", 3)>>

\* `word[origin, ...]`.
parse_optional_origin_specifier ==
    <<Opt({"["}, <<Take, Expr("Lowest"), Elements({}), Expect("]")>>)>>

\* A compile-time parameter: `//` makes those after it infer-only, a bare `*`
\* is passed over.
type_param == <<Switch(<<
    Case({"//"}, <<Take, Push(<<"InferOnly">>), If({","}, <<Take>>, <<>>),
                   If({"]"}, <<>>, <<Rule("type_param")>>)>>),
    Case({"*"}, <<Take, If({","}, <<Take, Rule("type_param")>>,
                           <<Push("variadic"), Rule("type_param_rest")>>)>>)>>,
    <<Push("single"), Rule("type_param_rest")>>)>>

type_param_rest == <<
    Name, Expect(":"),
    If({"def"}, <<Discard(<<Rule("type")>>), Push("function type")>>, <<Name>>),
    Switch(<<CaseIf({"["}, "Origin", <<Take, Expect("mut"), Expect("="), Expr("Lowest"),
                                       Expect("]"), Make("Mutability", 1)>>),
             Case({"["}, <<Rule("param_args")>>)>>, <<Push(<<>>)>>),
    Collect(<<While({"&"}, <<Take, Name>>)>>),
    If({"where"}, <<Reject>>, <<>>),
    Opt({"="}, <<Take, Expr("Lowest")>>),
    Make("TypeParam", 6)>>

parse_type_params == <<Opt({"["}, <<
    Take, Rule("type_param"), Commas(<<Rule("type_param")>>, {"]"}), Expect("]")>>)>>

-----------------------------------------------------------------------------
(* Declarations.                                                            *)

Suite == <<Expect(":"), Rule("suite")>>
Where == Opt({"where"}, <<Take, Expr("Lowest")>>)
Returns == Opt({"->"}, <<Take, Rule("type")>>)
Braces == If({"{"}, <<Take, SkipTo({"}"}), Expect("}")>>, <<>>)

\* `raises`, with the type of the error unless the header goes on.
parse_raises_effect ==
    Opt({"raises"}, <<Take, Push("raises"), If({"->", ":"}, <<>>, <<Rule("type")>>)>>)

finish_param == <<Expect(":"), Rule("type"), Opt({"="}, <<Take, Expr("Lowest")>>),
                  Make("Param", 6)>>

\* A convention is one only before the name: `read:` names the parameter.
parse_convention_and_name == <<Switch(<<
    CaseIf(Identifiers, "named", <<Push("none"), Push(<<>>), Name>>),
    Case({"ref"}, <<Word, Rule("origin_specifier"), Name>>),
    Case(convention_word \cup {"var"}, <<Word, Push(<<>>), Name>>),
    Case(Identifiers, <<Take, Never>>)>>, <<Reject>>)>>

\* A parameter, or the marker `/` or `*` where it stands.
parameter == <<Switch(<<
    Case({"/"}, <<Word, Make("Marker", 1)>>),
    Case({"**"}, <<Take, Push("KwVariadic"), Push("none"), Push(<<>>), Name>> \o finish_param),
    Case({"*"}, <<Take, If(Identifiers,
            <<Push("Variadic"), Push("none"), Push(<<>>), Name>> \o finish_param, <<Push("*"), Make("Marker", 1)>>)>>),
    Case({"var"}, <<Take, If({"*"}, <<Take, Push("Variadic")>>, <<Push("Regular")>>),
                    Push("var"), Push(<<>>), Name>> \o finish_param)>>,
    <<Push("Regular")>> \o parse_convention_and_name \o finish_param)>>
parse_params ==
    <<If({")"}, <<Push(<<>>)>>, <<Collect(parameter \o <<Commas(parameter, {")"})>>)>>)>>

\* One name of a capture list: moved, mutable or read; `read` alone is the default.
MovedOr(kind) == If({"^"}, <<Take, Make("Moves", 1)>>, <<Make(kind, 1)>>)
capture == <<
    Switch(<<
        Case({"mut"}, <<Take, Switch(<<CaseIf({"imm", "read"}, "before a name", <<Take>>)>>, <<>>),
                        Name, MovedOr("Mutates"), Check("distinct")>>),
        CaseIf({"imm", "read"}, "before a name", <<Take, Name, MovedOr("Reads"), Check("distinct")>>),
        CaseIf({"imm", "read"}, "not moved", <<Take, Push(<<"ReadsAll">>)>>)>>,
        <<Name, MovedOr("Reads"), Check("distinct")>>),
    If({","}, <<Take>>, <<If({"}"}, <<>>, <<Reject>>)>>)>>
parse_unified_captures ==
    Opt({"unified"}, <<Take, Expect("{"), Collect(<<While(Identifiers, capture)>>), Expect("}")>>)

\* After the decorators: a list on the stack.
parse_def == <<
    Expect("def"), Name, Rule("type_params"), Expect("("), Rule("params"), Expect(")"),
    parse_unified_captures, parse_raises_effect,
    Switch(<<Skipped("abi", "(", ")")>>, <<>>), Returns, Braces, Where>>
    \o Suite \o <<Make("Def", 9)>>

\* The receiver: `self`, with a convention that `ref` may refine; a struct's
\* method may do without.
ConventionSelf == <<
    Case({"ref"}, <<Word, Rule("origin_specifier"), Expect("self")>>),
    Case(convention_word \cup {"var"}, <<Word, Push(<<>>), Expect("self")>>)>>
AfterSelf == If({","}, <<Take, Rule("params")>>, <<Push(<<>>)>>)
Signature == <<Expect(")"), parse_raises_effect, Returns>>

parse_method == <<
    Expect("def"), Name, Rule("type_params"), Expect("("),
    Switch(<<Case({"self"} \cup convention_word \cup {"var"},
                  <<Collect(<<Switch(ConventionSelf, <<Word>>)>>), AfterSelf>>)>>,
           <<Push(<<>>), Rule("params")>>)>>
    \o Signature \o <<Where>> \o Suite \o <<Make("Method", 9)>>

parse_trait_method == <<
    Expect("def"), Name, Rule("type_params"), Expect("("),
    Collect(<<Switch(ConventionSelf, <<Push("self"), Expect("self")>>)>>), AfterSelf>>
    \o Signature \o <<Braces, Where, Expect(":"), Rule("trait_method_body"), Make("Requirement", 8)>>

\* `...`, on the line or alone in the block, is a requirement without a body.
parse_trait_method_body == <<Switch(<<
    Case({"..."}, <<Take, End, Push(<<>>)>>),
    Case({"Newline"}, <<Take, Expect("Indent"),
        If({"..."}, <<Take, End, Expect("Dedent"), Push(<<>>)>>, <<Collect(<<Rule("block_body")>>)>>)>>)>>,
    <<Collect(<<Collect(<<Rule("statement")>>)>>)>>)>>

parse_decorators == <<Collect(<<While({"@"}, <<
    Take, Collect(<<Name, While({"."}, <<Take, Name>>)>>),
    If({"("}, <<Take, Rule("call_args"), Expect(")")>>, <<Push(<<>>)>>),
    End, Make("Decorator", 2)>>)>>)>>

parse_conformance == Opt({"("}, <<Take, Name, Commas(<<Name>>, {")"}), Expect(")")>>)
Conformance == <<Switch(<<
    Case({"def"}, <<Check("one callable"), Rule("type"), Make("Callable", 1)>>)>>,
    <<Name, Where, Make("Conforms", 2)>>)>>
parse_struct_conformance ==
    Opt({"("}, <<Take>> \o Conformance \o <<Commas(Conformance, {")"}), Expect(")")>>)

\* The lines of a declaration's body that are no members.
Filler == <<Case({"Newline"}, <<Take>>), Case({"doc"}, <<Take, End>>)>>
Body(members) == <<
    Expect(":"), End, Expect("Indent"),
    Collect(<<Until({"Dedent"}, <<Switch(Filler \o members, <<Never>>)>>)>>),
    If({"Dedent"}, <<Take>>, <<>>)>>

parse_struct_comptime == <<Take, Name, Expect("="), Expr("Lowest"), End, Make("Associated", 2)>>
struct_field == <<Take, Name, Expect(":"), Rule("type"),
                  If({"="}, <<Take, Discard(<<Expr("Lowest")>>)>>, <<>>), End, Make("Field", 2)>>
parse_struct == <<
    Expect("struct"), Name, Rule("type_params"), parse_struct_conformance>>
    \o Body(<<
        Case({"var"}, struct_field),
        Case({"pass"}, <<Take, End>>),
        Case({"comptime"}, parse_struct_comptime),
        Case({"def"}, <<Push(<<>>), Rule("method")>>),
        Case({"@"}, <<Rule("decorators"), If({"def"}, <<Rule("method")>>, <<Never>>)>>)>>)
    \o <<Make("Struct", 5)>>

parse_trait_comptime == <<
    Take, Name, Expect(":"), Collect(<<Rule("type"), While({"&"}, <<Take, Rule("type")>>)>>),
    End, Make("AssociatedType", 2)>>
parse_trait == <<Expect("trait"), Name, parse_conformance>>
    \o Body(<<Case({"def"}, <<Rule("trait_method")>>), Case({"comptime"}, parse_trait_comptime)>>)
    \o <<Make("Trait", 3)>>

-----------------------------------------------------------------------------
(* Statements.                                                              *)

\* An expression where a comma makes a tuple.
parse_tuple_display == <<
    Expr("Lowest"),
    If({","}, <<Apply("enlist"), Extend(<<Elements(EndOfDisplay)>>), Make("TupleLit", 1)>>, <<>>)>>

\* An expression, and what it is the target of.
parse_expr_or_assign == <<
    Expr("Lowest"),
    Switch(<<
        Case({","}, <<Apply("enlist"), Extend(<<Elements(EndOfDisplay \cup {"="})>>),
            If({"="}, <<Check("targets"), Take>> \o parse_tuple_display \o <<End, Make("Unpack", 2)>>,
                      <<Make("TupleLit", 1), End, Make("Expr", 1)>>)>>),
        Case({"="}, <<Take>> \o parse_tuple_display \o <<Check("target"), End, Make("Assign", 2)>>),
        Case(aug_assign_op, <<Word, Check("updatable"), Expr("Lowest"), End, Make("AugAssign", 3)>>)>>,
        <<End, Make("Expr", 1)>>)>>

Variable == <<Name, Make("Id", 1)>>
parse_var_decl == <<
    Expect("var")>> \o Variable \o <<
    If({","}, <<Apply("enlist"), Extend(<<While({","}, <<Take>> \o Variable)>>), Expect("=")>>
              \o parse_tuple_display \o <<End, Make("Unpack", 2)>>,
        <<Opt({":"}, <<Take, Rule("type")>>),
          If({"="}, <<Take>> \o parse_tuple_display, <<Push(<<"Uninitialized">>)>>),
          End, Make("VarDecl", 3)>>)>>

parse_ref_decl == <<Expect("ref"), Name, Expect("="), Expr("Lowest"), End, Make("RefDecl", 2)>>

Branch == <<Expr("Lowest")>> \o Suite \o <<Make("Branch", 2)>>
parse_loop_else == Opt({"else"}, <<Take>> \o Suite)
parse_if_rest == <<Expect("if"), Collect(Branch \o <<While({"elif"}, <<Take>> \o Branch)>>),
                   parse_loop_else>>
parse_while == <<Expect("while")>> \o Branch \o <<parse_loop_else, Make("While", 2)>>
parse_for_rest == <<Expect("for"), Binding, Name, Expect("in"), Expr("Lowest")>> \o Suite
parse_for == parse_for_rest \o <<parse_loop_else, Make("For", 5)>>

Item_ == <<Expr("Lowest"), Opt({"as"}, <<Take, Name>>), Make("Item", 2)>>
parse_with == <<Expect("with"), Collect(Item_ \o <<Commas(Item_, {})>>)>> \o Suite \o <<Make("With", 2)>>

parse_try ==
    <<Expect("try")>> \o Suite \o <<
    Opt({"except"}, <<Take, Collect(<<If(Identifiers, <<Name>>, <<>>)>>)>> \o Suite),
    Opt({"else"}, <<Take>> \o Suite),
    Opt({"finally"}, <<Take>> \o Suite),
    Check("handled"), Make("Try", 4)>>

\* `comptime`: a conditional, a loop, an assertion or a constant, whose
\* parameters and annotation no tree keeps.
parse_comptime == <<Take, Switch(<<
    Case({"if"}, parse_if_rest \o <<Make("ComptimeIf", 2)>>),
    Case({"for"}, parse_for_rest \o <<Check("plain"), Make("ComptimeFor", 4)>>),
    Case({"assert"}, <<
        Take,
        If({"("}, <<Take, Rule("call_args"), Expect(")"), Apply("positional")>>,
                  <<Collect(<<Expr("Lowest")>>)>>),
        Extend(<<If({","}, <<Take, Expr("Lowest")>>, <<>>)>>), End, Make("Assert", 1)>>)>>,
    <<Name, Discard(<<If({"["}, <<Rule("type_params")>>, <<>>),
                      If({":"}, <<Take, Rule("type")>>, <<>>)>>),
      Expect("="), Expr("Lowest"), End, Make("Comptime", 2)>>)>>

parse_return == <<
    Expect("return"),
    If({"Newline", "Eof", "none"}, <<Push(<<>>)>>, <<Collect(parse_tuple_display)>>),
    End, Make("Return", 1)>>
parse_raise == <<Expect("raise"), Expr("Lowest"), End, Make("Raise", 1)>>

Dotted == <<Name, While({"."}, <<Take, Name>>)>>
parse_import_alias == Opt({"as"}, <<Take, Name>>)
parse_import == <<Expect("import"), Collect(Dotted), parse_import_alias, End, Make("Import", 2)>>

Imported == <<Name, parse_import_alias, Make("ImportName", 2)>>
ImportNames(names) == Collect(<<If({"*"}, <<Word, Make("Wildcard", 1)>>, names)>>)
parse_from_import == <<
    Expect("from"), Collect(<<While({".", "..."}, <<Word>>)>>), Apply("level"),
    Collect(<<If(Identifiers, Dotted, <<>>)>>), Check("somewhere"), Expect("import"),
    If({"("}, <<Take, ImportNames(<<If({")"}, <<>>, Imported \o <<Commas(Imported, {")"})>>)>>),
                Expect(")")>>,
              <<ImportNames(Imported \o <<Commas(Imported, {})>>)>>),
    End, Make("FromImport", 3)>>

parse_block_body == <<
    Collect(<<Until({"Dedent"}, <<If({"Newline"}, <<Take>>, <<Rule("statement")>>)>>)>>),
    If({"Dedent"}, <<Take>>, <<>>)>>

\* A suite: a block, or statements on the line of its colon.
parse_suite == <<If({"Newline"}, <<Take, Expect("Indent"), Rule("block_body")>>,
                                 <<Collect(<<Parse("inline")>>)>>)>>

\* One statement, by its first token. `...` and a docstring are passed over.
parse_statement == <<Switch(<<
    Case({"var"}, parse_var_decl),
    Case({"ref"}, parse_ref_decl),
    Case({"def"}, <<Push(<<>>), Rule("def")>>),
    Case({"struct"}, <<Push(<<>>), Rule("struct")>>),
    Case({"@"}, <<Rule("decorators"),
                  Switch(<<Case({"def"}, <<Rule("def")>>), Case({"struct"}, <<Rule("struct")>>)>>,
                         <<Never>>)>>),
    Case({"trait"}, <<Rule("trait")>>),
    Case({"comptime"}, <<Rule("comptime")>>),
    Case({"if"}, parse_if_rest \o <<Make("If", 2)>>),
    Case({"while"}, parse_while),
    Case({"for"}, parse_for),
    Case({"with"}, parse_with),
    Case({"try"}, parse_try),
    Case({"return"}, parse_return),
    Case({"raise"}, parse_raise),
    Case({"import"}, parse_import),
    Case({"from"}, parse_from_import),
    Case({"pass", "...", "doc"}, <<Take, End, Push(<<"Pass">>)>>),
    Case({"break"}, <<Take, End, Push(<<"Break">>)>>),
    Case({"continue"}, <<Take, End, Push(<<"Continue">>)>>)>>,
    parse_expr_or_assign)>>

Rules == [
    statement |-> parse_statement, suite |-> parse_suite, block_body |-> parse_block_body,
    def |-> parse_def, struct |-> parse_struct, trait |-> parse_trait, comptime |-> parse_comptime,
    method |-> parse_method, trait_method |-> parse_trait_method,
    trait_method_body |-> parse_trait_method_body, decorators |-> parse_decorators,
    params |-> parse_params, type_params |-> parse_type_params, type_param |-> type_param,
    type_param_rest |-> type_param_rest, type |-> parse_type,
    function_type_tail |-> parse_function_type_tail,
    origin_specifier |-> parse_optional_origin_specifier,
    param_arg |-> parse_param_arg, param_args |-> parse_param_args,
    call_args |-> parse_call_args, bracket_suffix |-> parse_bracket_suffix,
    comprehension_clauses |-> parse_comprehension_clauses,
    after_paren |-> after_paren, after_bracket |-> after_bracket, after_brace |-> after_brace]

-----------------------------------------------------------------------------
(* The parser at work on a rule.                                            *)

\* What a case asks beyond its token.
Also(s, condition) ==
    CASE condition = "anything" -> TRUE
      [] condition = "touching" -> items[s.at].from = s.stop
      [] condition = "name" -> Tag(Top(s)) = "Id"
      [] condition = "scalar" -> Tag(Top(s)) = "Scalar" /\ Top(s)[2] # "None"
      [] condition = "before a type" -> Second(s) \in Identifiers \cup {"[", "def", "None"}
      [] condition = "before a name" -> Second(s) \in Identifiers
      [] condition = "named" -> Second(s) = ":"
      [] condition = "Origin" -> Top(s) = "Origin"
      [] condition = "not moved" -> Second(s) # "^"

\* What the code checks of what it has parsed; out[Len(out) - i] is the tree i
\* below the top.
Below(s, i) == s.out[Len(s.out) - i]
Earlier(s) == 1 .. Len(s.out) - 1
Allows(s, check) ==
    CASE check = "never" -> FALSE
      [] check = "name" -> Tag(Top(s)) = "Id"
      [] check = "value" -> Tag(Top(s)) = "Value"
      [] check = "keyword" -> Tag(Top(s)) = "Value" /\ Tag(Top(s)[2]) = "Id"
      [] check = "no slice" -> ~ Slices(Top(s))
      [] check = "transferred" -> Tag(Top(s)) = "Transfer"
      \* The text in braces is parsed on its own, when the literals are read.
      [] check = "interpolations" -> \A i \in DOMAIN Top(s) : Top(s)[i] # "tbad"
      [] check = "positional first" -> \A i \in Earlier(s) : Tag(s.out[i]) \notin {"Kw", "Forward"}
      [] check = "unmixed" -> Tag(s.out[1]) = Tag(Top(s))
      [] check = "targets" ->
            \A i \in DOMAIN Top(s) : Tag(Top(s)[i]) \in {"Id", "Member", "Index"}
      [] check = "target" ->
            Tag(Below(s, 1)) \in {"Id", "Member", "Index", "SliceOf", "MultiIndex", "TypeApply"}
      [] check = "updatable" -> Tag(Below(s, 1)) \in {"Id", "Member", "Index", "TypeApply"}
      [] check = "distinct" ->
            \A i \in Earlier(s) : Tag(s.out[i]) # "ReadsAll" => s.out[i][2] # Top(s)[2]
      [] check = "one callable" -> \A i \in DOMAIN s.out : Tag(s.out[i]) # "Callable"
      [] check = "plain" -> Below(s, 3) = "plain"
      [] check = "handled" -> Below(s, 2) # <<>> \/ Top(s) # <<>>
      [] check = "somewhere" -> Below(s, 1) > 0 \/ Top(s) # <<>>

Replaced(s, n, tree) == [s EXCEPT !.out = Append(SubSeq(@, 1, Len(@) - n), tree)]

Applying(s, f) ==
    CASE f = "enlist" -> Replaced(s, 1, <<Top(s)>>)
      [] f = "unwrap" -> Replaced(s, 1, <<Top(s)[2]>>)
      [] f = "atom" -> Replaced(s, 1, <<"Id", Top(s)[2]>>)
      [] f = "set" -> Replaced(s, 1, ToSet(Top(s)))
      [] f = "positional" ->
            Replaced(s, 1, SelectSeq(Top(s), LAMBDA a : Tag(a) \notin {"Kw", "Forward"}))
      [] f = "level" ->
            Replaced(s, 1, FoldLeft(LAMBDA n, d : n + (IF d = "." THEN 1 ELSE 3), 0, Top(s)))
      [] f = "compare" ->                  \* a single comparison is no chain
            IF Len(Top(s)) = 1
            THEN Replaced(s, 2, <<"Infix", Below(s, 1), Top(s)[1][2], Top(s)[1][3]>>)
            ELSE Replaced(s, 2, <<"Compare", Below(s, 1), Top(s)>>)
      [] f = "subscript" ->
            Then(subscript(Below(s, 1), Top(s)),
                 LAMBDA t : IF Tag(t) = "failed" THEN Failed(s) ELSE Replaced(s, 2, t))

expect_stmt_end(s) ==
    LET t == peek_token(s) IN
    [next_token(s) EXCEPT !.semi = IF t \in {";", "Newline", "Eof"} THEN t = ";" ELSE @,
                          !.ok = @ /\ t \in {";", "Newline", "Eof"}]

RECURSIVE Run(_, _), Part(_, _), Loop(_, _), Climb(_, _), Inline(_)

\* The parts in their order, as far as they succeed.
Run(s, parts) ==
    IF parts = <<>> \/ ~ s.ok THEN s
    ELSE Then(Part(s, Head(parts)), LAMBDA t : Run(t, Tail(parts)))

\* On a stack of their own, whose values become one list.
Listed(s, first, parts) ==
    Then(Run([s EXCEPT !.out = first], parts), LAMBDA t : [t EXCEPT !.out = Append(s.out, t.out)])

Part(s, p) ==
    LET t == peek_token(s) IN
    CASE p.do = "expect" -> [next_token(s) EXCEPT !.ok = @ /\ t = p.tok]
      [] p.do = "take" -> next_token(s)
      [] p.do = "reject" -> Failed(next_token(s))
      [] p.do = "word" -> Pushed(next_token(s), t)
      [] p.do = "name" -> Pushed([next_token(s) EXCEPT !.ok = @ /\ t \in Identifiers], t)
      [] p.do = "end" -> expect_stmt_end(s)
      [] p.do = "push" -> Pushed(s, p.tree)
      [] p.do = "make" ->
            Replaced(s, p.n, <<p.tag>> \o SubSeq(s.out, Len(s.out) - p.n + 1, Len(s.out)))
      [] p.do = "apply" -> Applying(s, p.f)
      [] p.do = "check" -> IF Allows(s, p.holds) THEN s ELSE Failed(s)
      [] p.do = "rule" -> Run(s, Rules[p.rule])
      [] p.do = "switch" ->
            IF t = Error THEN Failed(s)
            ELSE Then({i \in DOMAIN p.cases : t \in p.cases[i].on /\ Also(s, p.cases[i].also)},
                      LAMBDA chosen : Run(s, IF chosen = {} THEN p.otherwise
                                             ELSE p.cases[Min(chosen)].parts))
      [] p.do = "while" -> Loop(s, p)
      [] p.do = "collect" -> Listed(s, <<>>, p.parts)
      [] p.do = "extend" -> Listed([s EXCEPT !.out = Front(@)], Top(s), p.parts)
      [] p.do = "discard" -> Then(Run(s, p.parts), LAMBDA n : [n EXCEPT !.out = s.out])
      [] p.do = "node" ->
            Then(Run(s, p.parts), LAMBDA n :
                 IF n.grouped THEN [n EXCEPT !.grouped = FALSE]
                 ELSE [n EXCEPT !.start = peek_start(s), !.stop = Consumed(n)])
      [] p.do = "grouped" -> [s EXCEPT !.grouped = TRUE]
      [] p.do = "expr" -> Then(Part(s, Node(<<parse_prefix>>)), LAMBDA l : Climb(l, p.min))
      [] p.do = "climb" -> Climb(s, "Lowest")
      [] p.do = "inline" -> Inline(s)

Loop(s, p) ==
    LET t == peek_token(s) IN
    IF ~ s.ok THEN s
    ELSE IF t = Error THEN Failed(s)
    ELSE IF t \in p.on \/ (p.until # {} /\ t \notin p.until)
    THEN Then(Run(s, p.parts), LAMBDA n : Loop(n, p))
    ELSE s

\* parse_expression_from: the operand on top takes every continuation that
\* binds tighter than `min`. It spans from its first token to its last.
Climb(s, min) ==
    LET t == peek_token(s) IN
    IF ~ s.ok THEN s
    ELSE IF t = Error THEN Failed(s)
    ELSE IF Power(min) < Power(peek_precedence(t))
    THEN Then(Part(s, parse_infix), LAMBDA n :
              Climb([n EXCEPT !.start = s.start, !.stop = Consumed(n)], min))
    ELSE s

\* Statements on the line of a colon, as long as one ends with a semicolon.
Inline(s) ==
    Then(Run(s, parse_statement), LAMBDA n :
         IF ~ n.ok \/ ~ n.semi THEN n
         ELSE IF peek_token(n) = "Newline" THEN [next_token(n) EXCEPT !.semi = FALSE]
         ELSE IF peek_token(n) \in {"Eof", "none"} THEN [n EXCEPT !.semi = FALSE]
         ELSE IF peek_token(n) = Error THEN Failed(n)
         ELSE Inline(n))

\* The strict parse of a whole program: its statements are the trees.
parse_program ==
    Run(ParserNew, <<Until({"Eof"}, <<If({"Newline"}, <<Take>>, parse_statement)>>)>>)
=============================================================================
