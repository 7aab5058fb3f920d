--------------------------- MODULE ExplicitDestroy ---------------------------
(* The check of explicit destruction: src/explicit_destroy.rs walks a       *)
(* function over its structured control flow and keeps, for every variable  *)
(* of a linear type, the subobjects that still have to be destroyed.        *)
(* An action is one statement of the function's body, or its end.           *)
(* A place is a variable and a path of fields. A statement is a tuple of    *)
(* its kind and its parts; an optional part is a list of at most one.       *)
EXTENDS Integers, Sequences, SequencesExt, FiniteSetsExt, Sequencing

CONSTANTS
    types,               \* of each linear type: its linear fields and theirs
    destructors          \* of each linear type: the named destructors it has

Ordinary == "ordinary"   \* the type of a value that drops implicitly
Linear(type) == type \in DOMAIN types

-----------------------------------------------------------------------------
(* The environment: scopes over one growing list of variables.              *)

EnvDefault == [scopes |-> <<>>, vars |-> <<>>]
push(env) == [env EXCEPT !.scopes = Append(@, <<>>)]
lookup(env, name) ==
    LET holding == {s \in DOMAIN env.scopes : name \in DOMAIN env.scopes[s]} IN
    IF holding = {} THEN 0 ELSE env.scopes[Max(holding)][name]

\* The result of a check: "on" with an environment, "ended" where control does
\* not come out, a problem, or "panic".
On(env) == [status |-> "on", env |-> env]
Stop(status) == [status |-> status, env |-> EnvDefault]
Ended == Stop("ended")
Bind(result, Op(_)) ==
    Then(result, LAMBDA r : IF r.status = "on" THEN Op(r.env) ELSE r)
Through(list, env, Step(_, _)) ==
    FoldLeft(LAMBDA r, x : Bind(r, LAMBDA e : Step(x, e)), On(env), list)

declare(env, name, type) ==
    LET var == [name |-> name, explicit_type |-> type,
                obligations |-> IF Linear(type) THEN {<<>>} ELSE {}, moved |-> {}]
    IN
    IF env.scopes = <<>> THEN Stop("panic")
    ELSE On([scopes |-> Front(env.scopes) \o
                        <<(name :> Len(env.vars) + 1) @@ Last(env.scopes)>>,
             vars |-> Append(env.vars, var)])

check_ids(env, ids) ==
    IF \E id \in ids : env.vars[id].obligations # {} THEN Stop("was abandoned") ELSE On(env)
IdsOf(scope) == {scope[name] : name \in DOMAIN scope}
check_all(env) == check_ids(env, DOMAIN env.vars)
check_current_scope(env) ==
    IF env.scopes = <<>> THEN Stop("panic") ELSE check_ids(env, IdsOf(Last(env.scopes)))
pop_checked(env) ==
    Bind(check_current_scope(env), LAMBDA e : On([e EXCEPT !.scopes = Front(@)]))

-----------------------------------------------------------------------------
(* Obligations of one variable.                                             *)

type_at_path(type, path) ==
    FoldLeft(LAMBDA t, field : IF Linear(t) /\ field \in DOMAIN types[t] THEN types[t][field]
                               ELSE Ordinary, type, path)

(* Mutant: only the whole value gives way to its fields. *)
expose_pathTop(var, path) ==
    IF path = <<>> \/ <<>> \notin var.obligations THEN var
    ELSE [var EXCEPT !.obligations = {<<field>> : field \in DOMAIN types[var.explicit_type]}]

\* The ancestors of the path that are still whole give way to their fields.
expose_path(var, path) ==
    FoldLeft(LAMBDA v, depth :
        LET ancestor == SubSeq(path, 1, depth - 1) IN
        IF ancestor \notin v.obligations THEN v
        ELSE [v EXCEPT !.obligations = (@ \ {ancestor})
                \cup {Append(ancestor, field) :
                        field \in DOMAIN types[type_at_path(v.explicit_type, ancestor)]}],
        var, [depth \in DOMAIN path |-> depth])

StartsWith(path, start) == IsPrefix(start, path)

\* A place moves: its obligation goes with it.
move_root(place, env) ==
    LET id == lookup(env, place[2]) IN
    IF id = 0 \/ ~ Linear(env.vars[id].explicit_type) THEN On(env)
    ELSE IF place[4] THEN Stop("uses a dynamic indexed projection")
    ELSE LET exposed == expose_path(env.vars[id], place[3]) IN
         On([env EXCEPT !.vars[id] =
                [exposed EXCEPT !.obligations = @ \ {place[3]}, !.moved = @ \cup {place[3]}]])

\* A named destructor needs its place whole, and ends its obligation.
consume_destructor(id, path, env) ==
    LET var == expose_path(env.vars[id], path) IN
    IF \E m \in var.moved : StartsWith(m, path) /\ m # path THEN Stop("is incomplete")
    ELSE IF path \in var.obligations
    THEN On([env EXCEPT !.vars[id] =
                [var EXCEPT !.obligations = @ \ {path}, !.moved = @ \cup {path}]])
    ELSE IF \E o \in var.obligations : StartsWith(o, path) THEN Stop("is incomplete")
    ELSE Stop("was destroyed more than once")

(* Mutant: the whole value is owed after any field is given back. *)
reinitialize_placeWhole(place, env) ==
    LET id == lookup(env, place[2]) IN
    IF id = 0 \/ place[4] THEN env
    ELSE IF ~ Linear(env.vars[id].explicit_type) THEN env
    ELSE [env EXCEPT !.vars[id].moved = {}, !.vars[id].obligations = {<<>>}]

\* An assignment to a field ends the moves from under it; with no moves left
\* the whole value is owed again.
reinitialize_place(place, env) ==
    LET id == lookup(env, place[2])
        var == env.vars[id]
        moved == {m \in var.moved : ~ StartsWith(m, place[3])}
    IN
    IF id = 0 \/ place[4] THEN env
    ELSE IF ~ Linear(var.explicit_type) THEN env
    ELSE [env EXCEPT !.vars[id] =
            [var EXCEPT !.moved = moved,
                        !.obligations = IF moved = {} THEN {<<>>}
                                        ELSE IF Linear(type_at_path(var.explicit_type, place[3]))
                                             THEN @ \cup {place[3]} ELSE @]]

-----------------------------------------------------------------------------
(* Where paths meet.                                                        *)

\* The variables of both, by their place in the list, owe and lack the same.
Same(before, after) ==
    \A id \in DOMAIN before.vars \cap DOMAIN after.vars :
        Linear(before.vars[id].explicit_type) =>
            /\ before.vars[id].obligations = after.vars[id].obligations
            /\ before.vars[id].moved = after.vars[id].moved
ensure_same(before, after) ==
    IF Same(before, after) THEN On(before) ELSE Stop("was conditionally destroyed")

(* Mutant: the exits go on as the last of them, unseen. *)
joinLast(exits) == IF exits = <<>> THEN On(EnvDefault) ELSE On(Last(exits))

\* The last of the exits goes on, if it agrees with the others.
join(exits) ==
    IF exits = <<>> THEN On(EnvDefault)
    ELSE IF \A i \in DOMAIN exits : Same(Last(exits), exits[i]) THEN On(Last(exits))
    ELSE Stop("was conditionally destroyed")

\* The exits of several checks: none of one that has ended.
ExitsOf(results) ==
    [i \in DOMAIN SelectSeq(results, LAMBDA r : r.status = "on") |->
        SelectSeq(results, LAMBDA r : r.status = "on")[i].env]
JoinResults(results) ==
    LET wrong == {i \in DOMAIN results : results[i].status \notin {"on", "ended"}} IN
    IF wrong # {} THEN results[Min(wrong)] ELSE join(ExitsOf(results))

-----------------------------------------------------------------------------
(* Expressions: their parts in order, their moves and their destructions.   *)

RECURSIVE check_expr(_, _)

check_exprs(es, env) == Through(es, env, check_expr)

\* A comprehension binds a name for what is to its right; what it binds is owed
\* before the iteration ends.
check_comprehension(clauses, value, env) ==
    Then(Bind(Through(clauses, env, LAMBDA clause, e :
                 Bind(check_expr(clause[2], e), LAMBDA n :
                      IF clause[1] = "for" THEN declare(push(n), clause[3], clause[4]) ELSE On(n))),
              LAMBDA e : check_expr(value, e)),
         LAMBDA inner :
            Bind(inner, LAMBDA e :
                Through([i \in 1 .. Len(e.scopes) - Len(env.scopes) |-> i], e, LAMBDA i, n : pop_checked(n))))

check_expr(expr, env) ==
    CASE expr[1] = "transfer" -> move_root(expr[2], env)
      [] expr[1] = "method" ->        \* an object, a method and arguments
            Bind(check_exprs(expr[4], env), LAMBDA e :
                IF expr[2][1] = "transfer"
                THEN Then(<<expr[2][2], lookup(e, expr[2][2][2])>>, LAMBDA at :
                    IF /\ at[2] # 0
                       /\ ~ at[1][4]
                       /\ Then(type_at_path(e.vars[at[2]].explicit_type, at[1][3]),
                               LAMBDA t : Linear(t) /\ expr[3] \in destructors[t])
                    THEN consume_destructor(at[2], at[1][3], e)
                    ELSE check_expr(expr[2], e))
                ELSE check_expr(expr[2], e))
      [] expr[1] = "parts" -> check_exprs(expr[2], env)
      [] expr[1] = "if" ->
            Bind(check_expr(expr[2], env), LAMBDA e :
                 JoinResults(<<check_expr(expr[3], e), check_expr(expr[4], e)>>))
      [] expr[1] = "comprehension" -> check_comprehension(expr[2], expr[3], env)
      [] OTHER -> On(env)

-----------------------------------------------------------------------------
(* Statements.                                                              *)

RECURSIVE check_stmt(_, _)

check_block(stmts, env, scoped) ==
    Bind(Through(stmts, IF scoped THEN push(env) ELSE env, check_stmt), LAMBDA e :
         IF scoped THEN pop_checked(e) ELSE On(e))

check_assign(stmt, env) ==
    Bind(check_expr(stmt[3], env), LAMBDA e :
        LET id == lookup(e, stmt[2]) IN
        IF id = 0 THEN On(e)
        ELSE IF e.vars[id].obligations # {} THEN Stop("was overwritten")
        ELSE On([e EXCEPT !.vars[id].moved = {},
                          !.vars[id].obligations =
                              IF Linear(e.vars[id].explicit_type) THEN {<<>>} ELSE {}]))

\* Every branch starts from what held before the first condition.
check_if(stmt, env) ==
    JoinResults(
        [i \in DOMAIN stmt[2] |->
            Bind(check_expr(stmt[2][i][1], env), LAMBDA e : check_block(stmt[2][i][2], e, TRUE))]
        \o IF stmt[3] = <<>> THEN <<On(env)>> ELSE <<check_block(stmt[3][1], env, TRUE)>>)

\* A loop's `else` comes after it; if it does not come out, the loop does.
check_loop_else(orelse, env) ==
    IF orelse = <<>> THEN On(env)
    ELSE Then(check_block(orelse[1], env, TRUE), LAMBDA r :
              IF r.status = "ended" THEN On(env) ELSE r)
\* An iteration leaves what it found.
Again(iteration, env) ==
    Then(iteration, LAMBDA r : IF r.status = "ended" THEN On(env)
                               ELSE Bind(r, LAMBDA after : ensure_same(env, after)))

check_while(stmt, env) ==
    Bind(check_expr(stmt[2], env), LAMBDA e :
         Bind(Again(check_block(stmt[3], e, TRUE), e), LAMBDA n : check_loop_else(stmt[4], n)))

check_for(stmt, env) ==
    Bind(check_expr(stmt[4], env), LAMBDA e :
         Bind(Again(Bind(declare(push(e), stmt[2], stmt[3]), LAMBDA i :
                         Bind(check_block(stmt[5], i, FALSE), pop_checked)), e),
              LAMBDA n : check_loop_else(stmt[6], n)))

\* The handler starts from what held before the body.
check_try(stmt, env) ==
    Bind(JoinResults(
            <<Then(check_block(stmt[2], env, TRUE), LAMBDA r :
                   IF r.status = "on" /\ stmt[4] # <<>> THEN check_block(stmt[4][1], r.env, TRUE) ELSE r)>>
            \o IF stmt[3] = <<>> THEN <<>> ELSE <<check_block(stmt[3][1], env, TRUE)>>),
         LAMBDA e : IF stmt[5] = <<>> THEN On(e) ELSE check_block(stmt[5][1], e, TRUE))

check_stmt(stmt, env) ==
    CASE stmt[1] = "var" ->
            Bind(check_expr(stmt[4], env), LAMBDA e : declare(e, stmt[2], stmt[3]))
      [] stmt[1] = "assign" -> check_assign(stmt, env)
      [] stmt[1] = "expr" -> check_expr(stmt[2], env)
      [] stmt[1] \in {"return", "raise"} ->
            Bind(check_exprs(stmt[2], env), LAMBDA e : Bind(check_all(e), LAMBDA n : Ended))
      [] stmt[1] = "if" -> check_if(stmt, env)
      [] stmt[1] = "while" -> check_while(stmt, env)
      [] stmt[1] = "for" -> check_for(stmt, env)
      [] stmt[1] = "try" -> check_try(stmt, env)
      [] stmt[1] = "set" ->
            Bind(check_exprs(<<stmt[3]>>, env), LAMBDA e : On(reinitialize_place(stmt[2], e)))
      [] stmt[1] \in {"break", "continue"} ->
            Bind(check_current_scope(env), LAMBDA e : Ended)
      [] OTHER -> On(env)

-----------------------------------------------------------------------------
(* A function.                                                              *)

VARIABLES
    body,                \* its statements
    checked,             \* how many of them are checked
    result               \* what the check has come to: "accepted" when it is through

vars == <<body, checked, result>>

\* A parameter is owed where the function takes it over.
InitWith(params, stmts) ==
    /\ body = stmts
    /\ checked = 0
    /\ result = Through(params, push(EnvDefault), LAMBDA p, env :
                        Bind(declare(env, p.name, p.type), LAMBDA e :
                             On(IF p.convention \in {"var", "deinit"} THEN e
                                ELSE [e EXCEPT !.vars[Len(e.vars)].obligations = {}])))

CheckStatement ==
    /\ result.status = "on"
    /\ checked < Len(body)
    /\ result' = check_stmt(body[checked + 1], result.env)
    /\ checked' = checked + 1
    /\ UNCHANGED body

\* The end of the body, reached or not.
CheckEnd ==
    /\ \/ result.status = "on" /\ checked = Len(body)
       \/ result.status = "ended"
    /\ result' = IF result.status = "ended" THEN Stop("accepted")
                 ELSE Bind(check_all(result.env), LAMBDA e : Stop("accepted"))
    /\ UNCHANGED <<body, checked>>

Next == CheckStatement \/ CheckEnd
=============================================================================
