-------------------------- MODULE MCExplicitDestroy --------------------------
(* The check of explicit destruction against the executions of the          *)
(* functions it accepts and rejects.                                        *)
EXTENDS ExplicitDestroy, TLC

CONSTANTS Kinds          \* the kinds of functions checked

\* An Item is destroyed by destroy, a Pair of two Items by close. Both also
\* hold an ordinary field.
MCTypes == "Item" :> <<>> @@ "Pair" :> [a |-> "Item", b |-> "Item"]
MCDestructors == "Item" :> {"destroy"} @@ "Pair" :> {"close"}
ItemPaths == {<<>>, <<"n">>}
PathsOf == "Item" :> ItemPaths
        @@ "Pair" :> {<<>>, <<"n">>} \cup {<<f>> \o p : f \in {"a", "b"}, p \in ItemPaths}
        @@ "ordinary" :> {<<>>}

-----------------------------------------------------------------------------
(* An execution: the values held, by frame and by variable, as the set of   *)
(* the subobjects that are still there; how it goes on; and what it has     *)
(* done to linear values on its way.                                        *)

Under(path, held) == {p \in held : StartsWith(p, path)}
Whole(type, path, held) ==
    Under(path, held) = Under(path, PathsOf[type])
\* What is owed: the greatest linear subobjects that are whole.
Owed(value) ==
    LET whole == {p \in value.held :
                    /\ Linear(type_at_path(value.type, p))
                    /\ Whole(value.type, p, value.held)}
    IN {p \in whole : \A q \in whole : StartsWith(p, q) => q = p}

New(type) == [type |-> type, held |-> PathsOf[type]]
Frames(o, name) == {i \in DOMAIN o.frames : name \in DOMAIN o.frames[i]}
FrameOf(o, name) == Max(Frames(o, name))
Value(o, name) == o.frames[FrameOf(o, name)][name]
Note(o, tag) == [o EXCEPT !.tags = @ \cup {tag}]
NoteIf(condition, tag, o) == IF condition THEN Note(o, tag) ELSE o
Ill(o) == [o EXCEPT !.how = "ill"]
Hold(o, name, held) == [o EXCEPT !.frames[FrameOf(o, name)][name].held = held]
Enter(o) == [o EXCEPT !.frames = Append(@, <<>>)]
Bound(o, name, type) ==
    [o EXCEPT !.frames[Len(o.frames)] = (name :> New(type)) @@ @]
\* The values of a frame end with it.
Leave(o) ==
    IF o.how = "ill" THEN o
    ELSE NoteIf(\E name \in DOMAIN Last(o.frames) : Owed(Last(o.frames)[name]) # {},
                IF o.how = "raise" /\ "interrupted" \in o.tags THEN "interrupted" ELSE "abandoned",
                [o EXCEPT !.frames = Front(@)])

\* A place is moved from: it was whole, or another analysis rejects it.
Take(o, place) ==
    IF Frames(o, place[2]) = {} THEN o
    ELSE LET value == Value(o, place[2]) IN
         IF ~ Linear(value.type) THEN o
         ELSE IF place[4] THEN Note(o, "indexed")
         ELSE IF ~ Whole(value.type, place[3], value.held) THEN Ill(o)
         ELSE Hold(o, place[2], value.held \ Under(place[3], value.held))
\* A place is given a value: what it is a part of is there.
Give(o, place) ==
    IF Frames(o, place[2]) = {} \/ place[4] THEN o
    ELSE LET value == Value(o, place[2]) IN
         IF ~ Linear(value.type) THEN o
         ELSE IF \E d \in 0 .. Len(place[3]) - 1 : SubSeq(place[3], 1, d) \notin value.held
         THEN Ill(o)
         ELSE LET held == value.held \cup Under(place[3], PathsOf[value.type]) IN
              NoteIf(\E p \in Owed(value) : StartsWith(p, place[3]),
                     IF place[3] = <<>> THEN "overwritten" ELSE "replaced",
              NoteIf(~ Linear(type_at_path(value.type, place[3])) /\
                     \E p \in Owed([value EXCEPT !.held = held]) : p # <<>> /\ StartsWith(place[3], p),
                     "rebuilt", Note(Hold(o, place[2], held), "given")))

\* The normal ones of the outcomes hold the same, or carry the difference.
Meet(outcomes) ==
    LET normal == {o \in outcomes : o.how = "on"} IN
    IF Cardinality({o.frames : o \in normal}) <= 1 THEN outcomes
    ELSE (outcomes \ normal) \cup {Note(o, "differs") : o \in normal}
Each(outcomes, Op(_)) == UNION {IF o.how = "on" THEN Op(o) ELSE {o} : o \in outcomes}
InTurn(list, outcomes, Op(_, _)) ==
    FoldLeft(LAMBDA os, x : Each(os, LAMBDA o : Op(x, o)), outcomes, list)

RECURSIVE Eval(_, _)
Eval(expr, o) ==
    CASE expr[1] = "transfer" -> {Take(o, expr[2])}
      [] expr[1] = "method" ->
            Each(InTurn(expr[4], {o}, LAMBDA e, n : Eval(e, n)), LAMBDA n : Eval(expr[2], n))
      [] expr[1] = "parts" -> InTurn(expr[2], {o}, LAMBDA e, n : Eval(e, n))
      [] expr[1] = "if" ->
            Each(Eval(expr[2], o), LAMBDA n : Meet(Eval(expr[3], n) \cup Eval(expr[4], n)))
      [] expr[1] = "comprehension" ->     \* of one generator: none, one or two rounds
            Each(Eval(expr[2][1][2], o), LAMBDA n :
                FoldLeft(LAMBDA os, round :
                    os \cup {IF x.how = "on" THEN Leave(x) ELSE x :
                             x \in Each(os, LAMBDA h :
                                Eval(expr[3], Bound(Enter(h), expr[2][1][3], expr[2][1][4])))},
                    {n}, <<1, 2>>))
      [] OTHER -> {o}

RECURSIVE Exec(_, _)
ExecBlock(stmts, o) == {Leave(x) : x \in InTurn(stmts, {Enter(o)}, Exec)}
ExecOptional(block, outcomes) ==
    IF block = <<>> THEN outcomes ELSE Each(outcomes, LAMBDA o : ExecBlock(block[1], o))
\* Rounds of a loop: Head before each, Round in each. A `break` leaves it, a
\* header that leaves it meets the `else`.
ExecLoop(outcomes, Head_(_), Round(_), orelse) ==
    LET Headed(os) == Each(os, Head_)
        Continued(os) == {[o EXCEPT !.how = "on"] : o \in {x \in os : x.how \in {"on", "continue"}}}
        rounds == FoldLeft(LAMBDA acc, round :
                      Then(Each({o \in acc.heads : o.how = "on"}, Round), LAMBDA after :
                      Then(Headed(Continued(after)), LAMBDA heads :
                           [heads |-> heads, all |-> acc.all \cup heads,
                            left |-> acc.left \cup (after \ {x \in after : x.how \in {"on", "continue"}})])),
                      Then(Headed(outcomes), LAMBDA h : [heads |-> h, all |-> h, left |-> {}]), <<1, 2>>)
    IN ExecOptional(orelse, Meet(rounds.all))
       \cup {IF o.how = "break" THEN [o EXCEPT !.how = "on"] ELSE o : o \in rounds.left}

ExecTry(stmt, o) ==
    LET tried == ExecBlock(stmt[2], o)
        raised == {x \in tried : x.how = "raise"}
        handled == IF stmt[3] = <<>> THEN raised
                   ELSE Each({[x EXCEPT !.how = "on", !.tags = (@ \ {"interrupted"}) \cup {"handled"}] :
                              x \in raised},
                             LAMBDA x : ExecBlock(stmt[3][1], x))
        both == Meet(ExecOptional(stmt[4], tried \ raised) \cup handled)
    IN IF stmt[5] = <<>> THEN both
       ELSE UNION {IF x.how = "ill" THEN {x}
                   ELSE {IF y.how = "on" THEN [y EXCEPT !.how = x.how] ELSE y :
                         y \in ExecBlock(stmt[5][1], [x EXCEPT !.how = "on"])} : x \in both}

Exec(stmt, o) ==
    CASE stmt[1] = "var" -> Each(Eval(stmt[4], o), LAMBDA n : {Bound(n, stmt[2], stmt[3])})
      [] stmt[1] = "assign" ->
            Each(Eval(stmt[3], o), LAMBDA n : {Give(n, <<"place", stmt[2], <<>>, FALSE>>)})
      [] stmt[1] = "expr" -> Eval(stmt[2], o)
      [] stmt[1] \in {"return", "raise"} ->
            Each(InTurn(stmt[2], {o}, LAMBDA e, n : Eval(e, n)), LAMBDA n : {[n EXCEPT !.how = stmt[1]]})
      [] stmt[1] = "if" ->
            Meet(Then(FoldLeft(LAMBDA acc, branch :
                    Then(Each(acc.open, LAMBDA n : Eval(branch[1], n)), LAMBDA met :
                         [open |-> met,
                          done |-> acc.done \cup Each(met, LAMBDA n : ExecBlock(branch[2], n))]),
                    [open |-> {o}, done |-> {}], stmt[2]), LAMBDA all :
                 all.done \cup ExecOptional(stmt[3], all.open)))
      [] stmt[1] = "while" ->
            Meet(ExecLoop({o}, LAMBDA n : Eval(stmt[2], n), LAMBDA n : ExecBlock(stmt[3], n), stmt[4]))
      [] stmt[1] = "for" ->
            Meet(ExecLoop(Eval(stmt[4], o), LAMBDA n : {n},
                          LAMBDA n : {Leave(x) : x \in InTurn(stmt[5], {Bound(Enter(n), stmt[2], stmt[3])}, Exec)},
                          stmt[6]))
      [] stmt[1] = "try" -> ExecTry(stmt, o)
      [] stmt[1] = "set" -> Each(Eval(stmt[3], o), LAMBDA n : {Give(n, stmt[2])})
      [] stmt[1] \in {"break", "continue"} -> {[Note(o, "jumped") EXCEPT !.how = stmt[1]]}
      [] stmt[1] = "call" -> {o, [Note(o, "interrupted") EXCEPT !.how = "raise"]}
      [] OTHER -> {o}

-----------------------------------------------------------------------------
(* The functions: p is a Pair they own, r an Item they borrow.              *)

Params == <<[name |-> "p", type |-> "Pair", convention |-> "var"],
            [name |-> "r", type |-> "Item", convention |-> "read"]>>
At(x, path) == <<"place", x, path, FALSE>>
Transfer(x, path) == <<"transfer", At(x, path)>>
Opaque == <<"opaque">>
Consuming(x, path) == <<"parts", <<Transfer(x, path)>>>>
Consume(x, path) == <<"expr", Consuming(x, path)>>
Destroying(x, path, name) == <<"method", Transfer(x, path), name, <<>>>>
Destroy(x, path) == <<"expr", Destroying(x, path, "destroy")>>
Close == <<"expr", Destroying("p", <<>>, "close")>>
Set(x, path) == <<"set", At(x, path), Opaque>>
Var(x) == <<"var", x, "Item", Opaque>>
Return == <<"return", <<>>>>
Raise == <<"raise", <<>>>>
Call == <<"call">>
A == <<"a">>
B == <<"b">>
N == <<"n">>
AN == <<"a", "n">>

If(then, orelse) == <<"if", <<<<Opaque, then>>>>, orelse>>
Optional(S) == {<<>>} \cup {<<x>> : x \in S}
BodiesOf(S, most) == UNION {[1 .. k -> S] : k \in 0 .. most}

PairAtoms == {Consume("p", path) : path \in {<<>>, A, B, N, AN}}
       \cup {Close, Destroy("p", A), Destroy("p", B), <<"assign", "p", Opaque>>}
       \cup {Set("p", path) : path \in {A, B, N, AN}}
Rebuilding == {Consume("p", A), Destroy("p", B), Set("p", A), Set("p", B), Close}

Bodies(kind) ==
    CASE kind = "straight" ->
            BodiesOf(PairAtoms, 3) \cup [1 .. 4 -> Rebuilding] \cup [1 .. 5 -> Rebuilding]
      [] kind = "branches" ->
            {pre \o <<If(then, orelse)>> \o post :
                pre \in Optional({Consume("p", A), Consume("p", N)}),
                then \in BodiesOf({Close, Destroy("p", B), Set("p", A), Return}, 2),
                orelse \in Optional(BodiesOf({Close, Destroy("p", B), Return}, 2)),
                post \in Optional({Close, Destroy("p", B)})}
            \cup {<<first, If(<<If(<<x>>, <<<<y>>>>), z>>, <<>>), last>> :
                        first, x, y, z, last \in {Close, Return, Opaque}}
      [] kind = "scopes" ->
            {<<If(then, orelse)>> \o post :
                then \in {stmts \in BodiesOf({Var("x"), Var("p"), Destroy("x", <<>>),
                                               Destroy("p", <<>>), Consume("x", N), Return}, 3) :
                            \A i, j \in DOMAIN stmts :      \* a scope has a name once
                                (stmts[i] = stmts[j] /\ stmts[i][1] = "var") => i = j},
                orelse \in Optional({<<>>, <<Return>>, <<Close>>, <<Close, Return>>}),
                post \in Optional({Close})}
      [] kind = "loops" ->
            {<<head>> \o post :
                post \in Optional({Close}),
                head \in {<<"while", Opaque, inner, orelse>> :
                              inner \in BodiesOf({Consume("p", A), Set("p", A), Close, Return,
                                                  <<"break">>, <<"continue">>}, 3),
                              orelse \in Optional({<<Close>>, <<Close, Return>>, <<Return>>})}
                      \cup {<<"for", "x", "Item", Opaque, inner, orelse>> :
                              inner \in BodiesOf({Consume("x", <<>>), Close, Destroy("x", <<>>),
                                                  <<"break">>, Return}, 3),
                              orelse \in Optional({<<Close>>, <<Close, Return>>})}}
      [] kind = "tries" ->
            {<<<<"try", tried, handler, orelse, final>>>> \o post :
                tried \in BodiesOf({Call, Close, Return, Raise, Consume("p", A), Set("p", A), Var("x")}, 2),
                handler \in Optional({<<>>, <<Close>>, <<Close, Return>>, <<Set("p", A)>>}),
                orelse \in Optional({<<Close>>, <<Return>>}),
                final \in Optional({<<>>, <<Close>>, <<Return>>}),
                post \in Optional({Close, Destroy("p", B)})}
      [] kind = "expressions" ->
            {pre \o <<<<"expr", expr>>>> \o post :
                pre \in Optional({Consume("p", A)}),
                expr \in {<<"if", Opaque, t, e>> :
                              t, e \in {Opaque, Consuming("p", A), Destroying("p", B, "destroy"),
                                        <<"parts", <<Transfer("p", A), Transfer("p", B)>>>>}}
                      \cup {<<"comprehension", <<<<"for", c, "x", "Item">>>> \o guard, v>> :
                              c \in {Opaque, Consuming("p", A)},
                              guard \in Optional({<<"if", Opaque>>}),
                              v \in {Opaque, Consuming("x", <<>>), Destroying("x", <<>>, "destroy"),
                                     Consuming("x", N), Consuming("p", B)}}
                      \cup {<<"method", x, name, <<y>>>> :
                              x \in {Opaque, Transfer("p", <<>>), Transfer("p", B)},
                              name \in {"close", "destroy"},
                              y \in {Opaque, Transfer("p", A), <<"transfer", <<"place", "p", A, TRUE>>>>}},
                post \in Optional({Close, Destroy("p", B), Set("p", A)})}

-----------------------------------------------------------------------------
(* The executions advance with the check.                                   *)

VARIABLE reached         \* the outcomes of the statements checked so far

Begin ==
    [how |-> "on", tags |-> {},
     frames |-> <<"p" :> New("Pair") @@ "r" :> [type |-> "Item", held |-> {}]>>]
Gone(o) == IF o.how \in {"on", "ill"} \/ o.frames = <<>> THEN o ELSE Leave(o)

MCInit ==
    \E kind \in Kinds : \E stmts \in Bodies(kind) : InitWith(Params, stmts) /\ reached = {Begin}
MCNext ==
    \/ CheckStatement /\ reached' = {Gone(o) : o \in Each(reached, LAMBDA o : Exec(body[checked'], o))}
    \/ CheckEnd /\ reached' = {IF o.how = "on" THEN Leave(o) ELSE o : o \in reached}
MCSpec == MCInit /\ [][MCNext]_<<vars, reached>>

-----------------------------------------------------------------------------
(* A function that uses what it has moved from is the business of the       *)
(* ownership analysis.                                                      *)
WellOwned == \A o \in reached : o.how # "ill"
Problems == {"was abandoned", "was overwritten", "was conditionally destroyed", "is incomplete",
             "was destroyed more than once"}

(* The obligations kept for a variable are the greatest whole linear        *)
(* subobjects it holds wherever control comes to this statement, and        *)
(* nothing is marked moved exactly when all of it is there: expose_path,    *)
(* move_root, consume_destructor, reinitialize_place and the joins agree    *)
(* with the executions. Where the check ends, they all have.                *)
ObligationsAreExact ==
    WellOwned =>
    /\ result.status = "on" =>
         \A o \in reached : (o.how = "on" /\ o.tags \cap {"rebuilt", "jumped", "handled"} = {}) =>
             \A name \in {x \in {"p", "r", "x"} : Frames(o, x) # {}} :
                 LET var == result.env.vars[lookup(result.env, name)] IN
                 /\ var.obligations = Owed(Value(o, name))
                 /\ name # "r" => (var.moved = {} <=> Value(o, name).held = PathsOf[var.explicit_type])
    /\ result.status = "ended" => \A o \in reached : o.how # "on"

(* A function the check accepts loses no linear value on any way out of it: *)
(* none is abandoned, none overwritten. (Save by `break`, `continue`, a     *)
(* call that raises, or a field that makes its aggregate whole again.)      *)
AcceptedIsSafe ==
    (WellOwned /\ result.status = "accepted") =>
        \A o \in reached :
            o.tags \cap {"abandoned", "overwritten"} # {} =>
            \/ o.tags \cap {"jumped", "rebuilt", "interrupted"} # {}
            \/ {"given", "handled"} \subseteq o.tags

Declares(stmt) == stmt[1] = "if" /\ (\E i \in DOMAIN stmt[2] : \E j \in DOMAIN stmt[2][i][2] :
                                        stmt[2][i][2][j][1] = "var")
HasElse(stmt) == stmt[1] \in {"while", "for"} /\ Last(stmt) # <<>>
\* Control comes out of a loop's `else` for the check, of none of it in fact.
ElseEnds == (\E i \in 1 .. checked : HasElse(body[i])) /\ \A o \in reached : o.how = "on" => "jumped" \in o.tags
(* A function the check rejects does on some way what it is rejected for.   *)
(* (Save in a `try`, whose handler is checked from what held before the     *)
(* body, after a loop whose `else` does not come out, and for variables     *)
(* declared in the branches that meet.)                                     *)
RejectionsAreJustified ==
    (WellOwned /\ result.status \in Problems /\ ~ ElseEnds
        /\ \A i \in 1 .. checked : body[i][1] # "try") =>
        \E o \in reached :
            \/ result.status = "was abandoned" /\ "abandoned" \in o.tags
            \/ result.status = "was overwritten" /\ "overwritten" \in o.tags
            \/ result.status = "was conditionally destroyed"
                  /\ ("differs" \in o.tags \/ Declares(body[checked]))
=============================================================================
