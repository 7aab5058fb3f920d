-------------------------- MODULE StructuredMeaning --------------------------
(***************************************************************************)
(* What a body of statements means, statement by statement and by lexical  *)
(* scope: the reference for what its basic blocks do.  It is not taken     *)
(* from the lowering; scopes are those of the checker (check_stmt of       *)
(* src/src/checker.rs): one for each suite, loop bodies included.          *)
(*                                                                         *)
(* A call or a test is a leaf: it is an event, with the values of its      *)
(* operands, and what it answers is the next of the `picks` that the run   *)
(* is given.  When they are used up the run stops at the event.            *)
(*                                                                         *)
(* The state R: a scope maps a name to a place, a store maps locations to  *)
(* values; `out` says how the last statement ended and `val` its value.    *)
(***************************************************************************)
EXTENDS Integers, Sequences, SequencesExt, FiniteSets, TLC, Sequencing

V(tag, label, n, parts) == [tag |-> tag, label |-> label, n |-> n, parts |-> parts]
Uninit == V("uninit", "", 0, <<>>)
NoneValue == V("none", "", 0, <<>>)
IntValue(n) == V("int", "", n, <<>>)
BoolValue(b) == V("bool", IF b THEN "T" ELSE "F", 0, <<>>)
True(v) == v = BoolValue(TRUE)
Error(id) == V("error", id, 0, <<>>)
Item(iterator) == V("item", "", 0, <<iterator>>)

Answers(outcome) == IF outcome = "bool" THEN {"T", "F"} ELSE {"ok", "raise"}
Answer(id, pick) ==
  CASE pick = "ok" -> V("result", id, 0, <<>>)
    [] pick = "raise" -> Error(id)
    [] OTHER -> V("bool", pick, 0, <<>>)

(* Operations that are no events.                                          *)
Primitive(name, vs) ==
  CASE name = "len"    -> IntValue(Len(vs[1].parts))
    [] name = "lt"     -> BoolValue(vs[1].n < vs[2].n)
    [] name = "inc"    -> IntValue(vs[1].n + 1)
    [] name = "index"  -> IF vs[2].n + 1 \in DOMAIN vs[1].parts
                          THEN vs[1].parts[vs[2].n + 1] ELSE Uninit
    [] name \in {"list", "join", "op"} -> V(name, "", 0, vs)

ReadAt(v, index) == FoldLeft(LAMBDA w, i : Primitive("index", <<w, IntValue(i)>>), v, index)
WriteAt(v, index, new) ==
  IF index = <<>> THEN new
  ELSE IF Head(index) + 1 \in DOMAIN v.parts
       THEN [v EXCEPT !.parts[Head(index) + 1] = new] ELSE v

-----------------------------------------------------------------------------
Event(id, link, operands) == [id |-> id, link |-> link, args |-> operands]

Leaf(R, event, outcome) ==
  LET S == [R EXCEPT !.event = event]
  IN  IF S.picks = <<>> THEN [S EXCEPT !.out = "stop"]
      ELSE [S EXCEPT !.picks = Tail(@), !.val = Answer(event.id, Head(S.picks)),
                     !.out = IF Head(S.picks) = "raise" THEN "raise" ELSE "normal"]

Known(R, name) == {d \in DOMAIN R.env : name \in DOMAIN R.env[d]}
PlaceOf(R, name) ==
  R.env[CHOOSE d \in Known(R, name) : \A o \in Known(R, name) : o <= d][name]
Read(R, p) ==
  IF p.loc \in DOMAIN R.store THEN ReadAt(R.store[p.loc], p.index) ELSE Uninit
Write(R, p, v) == [R EXCEPT !.store = (p.loc :> WriteAt(Read(R, [p EXCEPT !.index = <<>>]),
                                                        p.index, v)) @@ @]
Name(R, depth, name, p) ==
  [R EXCEPT !.env[depth] = (name :> p) @@ @]
Declare(R, depth, name, v) ==
  LET p == [loc |-> <<depth, name>>, index |-> <<>>]
  IN  Write(Name(R, depth, name, p), p, v)
AssignName(R, name, v) ==
  IF Known(R, name) = {} THEN Declare(R, 1, name, v) ELSE Write(R, PlaceOf(R, name), v)

Scoped(R, Inside(_)) ==
  LET S == Inside([R EXCEPT !.env = Append(@, <<>>)]) IN [S EXCEPT !.env = R.env]

(* Do with the state after S, unless what S ran has ended.                 *)
OnNormal(S, Do(_)) == Then(S, LAMBDA R : IF R.out # "normal" THEN R ELSE Do(R))

-----------------------------------------------------------------------------
RECURSIVE Eval(_, _), EvalAll(_, _), EvalLinks(_, _, _, _), EvalClauses(_, _, _),
          EvalElements(_, _, _, _), EvalComprehension(_, _)

Operate(R, e, Do(_, _)) ==
  Then(EvalAll(R, e.args), LAMBDA A :
    IF A.s.out # "normal" THEN A.s ELSE Do(A.s, A.vals))

Eval(R, e) ==
  CASE e.k = "var"  -> [R EXCEPT !.val = IF Known(R, e.n) = {} THEN Uninit
                                         ELSE Read(R, PlaceOf(R, e.n))]
    [] e.k = "none" -> [R EXCEPT !.val = NoneValue]
    [] e.k \in {"and", "or"} ->
         OnNormal(Eval(R, e.args[1]), LAMBDA left :
           IF True(left.val) = (e.k = "or") THEN left ELSE Eval(left, e.args[2]))
    [] e.k = "if" ->
         OnNormal(Eval(R, e.args[1]), LAMBDA cond :
           Eval(cond, e.args[IF True(cond.val) THEN 2 ELSE 3]))
    [] e.k = "compare" ->
         OnNormal(Eval(R, e.args[1]), LAMBDA first : EvalLinks(first, e, 2, first.val))
    [] e.k = "comprehension" -> EvalComprehension(R, e)
    [] e.k = "named" -> OnNormal(Eval(R, e.args[1]), LAMBDA S : AssignName(S, e.n, S.val))
    [] e.k \in {"test", "call"} ->
         Operate(R, e, LAMBDA S, vs :
           Leaf(S, Event(e.id, 0, vs), IF e.k = "test" THEN "bool" ELSE "call"))
    [] e.k = "tstring" ->
         Operate(R, e, LAMBDA S, vs : [S EXCEPT !.val = Primitive("join", vs)])
    [] e.k = "prim" ->
         Operate(R, e, LAMBDA S, vs : [S EXCEPT !.val = Primitive(e.n, vs)])

EvalAll(R, es) ==
  LET step(A, e) ==
        IF A.s.out # "normal" THEN A
        ELSE Then(Eval(A.s, e), LAMBDA S : [s |-> S, vals |-> Append(A.vals, S.val)])
  IN  FoldLeft(step, [s |-> R, vals |-> <<>>], es)

EvalLinks(R, e, i, prev) ==
  OnNormal(Eval(R, e.args[i]), LAMBDA operand :
    OnNormal(Leaf(operand, Event(e.id, i, <<prev, operand.val>>), "bool"), LAMBDA link :
      IF ~True(link.val) \/ i = Len(e.args) THEN link
      ELSE EvalLinks(link, e, i + 1, operand.val)))

(* Each element of a comprehension is added to `parts` of R.acc.           *)
EvalElements(R, e, i, iterator) ==
  LET Element(S) == EvalClauses(Declare(S, Len(S.env), e.args[i].n, Item(iterator)), e, i + 1)
  IN  OnNormal(Leaf(R, Event("hasnext", 0, <<iterator>>), "bool"), LAMBDA more :
        IF ~True(more.val) THEN more
        ELSE OnNormal(Scoped(more, Element), LAMBDA S : EvalElements(S, e, i, iterator)))

EvalClauses(R, e, i) ==
  OnNormal(Eval(R, IF i = Len(e.args) THEN e.args[i] ELSE e.args[i].args[1]), LAMBDA head :
    IF i = Len(e.args) THEN [head EXCEPT !.acc = Append(@, head.val)]
    ELSE IF e.args[i].k = "cfor" THEN EvalElements(head, e, i, head.val)
    ELSE IF True(head.val) THEN EvalClauses(head, e, i + 1) ELSE head)

EvalComprehension(R, e) ==
  Then(EvalClauses([R EXCEPT !.acc = <<>>], e, 1), LAMBDA S :
    [S EXCEPT !.acc = R.acc,
              !.val = IF S.out = "normal" THEN V("list", "", 0, S.acc) ELSE @])

-----------------------------------------------------------------------------
WithValue(R, e, Do(_)) == OnNormal(Eval(R, e), Do)

RECURSIVE Block(_, _), ExecBranches(_, _, _), ExecWhile(_, _), ExecFor(_, _, _),
          ExecForRef(_, _, _), ExecTry(_, _), Exec(_, _)

Block(R, body) == FoldLeft(Exec, R, body)

Exec(R, s) ==
  CASE R.out # "normal" -> R
    [] s.k = "eval"   -> Eval(R, s.e)
    [] s.k = "var"    -> WithValue(R, s.e, LAMBDA S : Declare(S, Len(S.env), s.n, S.val))
    [] s.k = "assign" -> WithValue(R, s.e, LAMBDA S : AssignName(S, s.n, S.val))
    [] s.k = "aug"    ->
         Then(Read(R, PlaceOf(R, s.n)), LAMBDA old :
           WithValue(R, s.e, LAMBDA S :
             AssignName(S, s.n, Primitive("op", <<old, S.val>>))))
    [] s.k = "ref"    -> Name(R, Len(R.env), s.n, PlaceOf(R, s.e.n))
    [] s.k = "unpack" -> WithValue(R, s.e, LAMBDA S :
         FoldLeft(LAMBDA T, i : AssignName(T, s.targets[i],
                                           Primitive("index", <<S.val, IntValue(i - 1)>>)),
                  S, [i \in DOMAIN s.targets |-> i]))
    [] s.k = "return" -> WithValue(R, s.e, LAMBDA S : [S EXCEPT !.out = "return"])
    [] s.k = "raise"  -> WithValue(R, s.e, LAMBDA S : [S EXCEPT !.out = "raise"])
    [] s.k \in {"break", "continue"} -> [R EXCEPT !.out = s.k]
    [] s.k = "if"     -> ExecBranches(R, s.branches, s.orelse)
    [] s.k = "while"  -> ExecWhile(R, s)
    [] s.k = "for"    -> IF s.reference THEN ExecForRef(R, s, 0)
                         ELSE WithValue(R, s.e, LAMBDA S : ExecFor(S, s, S.val))
    [] s.k = "try"    -> ExecTry(R, s)
    [] OTHER          -> R
Suite(R, body) == Scoped(R, LAMBDA S : Block(S, body))

ExecBranches(R, branches, orelse) ==
  IF branches = <<>> THEN Suite(R, orelse)
  ELSE WithValue(R, Head(branches).cond, LAMBDA S :
         IF True(S.val) THEN Suite(S, Head(branches).body)
         ELSE ExecBranches(S, Tail(branches), orelse))

(* How a loop goes on after a run of its body.                             *)
Ended(S) == S.out \notin {"normal", "continue"}
AfterBody(after, Again(_)) ==
  Then(after, LAMBDA S :
    IF S.out = "break" THEN [S EXCEPT !.out = "normal"]
    ELSE IF Ended(S) THEN S ELSE Again([S EXCEPT !.out = "normal"]))

ExecWhile(R, s) ==
  WithValue(R, s.e, LAMBDA S :
    IF True(S.val) THEN AfterBody(Suite(S, s.body), LAMBDA T : ExecWhile(T, s))
    ELSE Suite(S, s.orelse))

ExecFor(R, s, iterator) ==
  LET Element(S) == Block(Declare(S, Len(S.env), s.n, Item(iterator)), s.body)
  IN  OnNormal(Leaf(R, Event("hasnext", 0, <<iterator>>), "bool"), LAMBDA more :
        IF ~True(more.val) THEN Suite(more, s.orelse)
        ELSE AfterBody(Scoped(more, Element), LAMBDA S : ExecFor(S, s, iterator)))

ExecForRef(R, s, i) ==
  LET source == PlaceOf(R, s.e.n)
      Element(S) == Block(Name(S, Len(S.env), s.n, [source EXCEPT !.index = Append(@, i)]),
                          s.body)
  IN  IF i >= Len(Read(R, source).parts) THEN Suite(R, s.orelse)
      ELSE AfterBody(Scoped(R, Element), LAMBDA S : ExecForRef(S, s, i + 1))

Handle(body, s) ==
  LET Handler(S) == Block(IF s.hname = "" THEN S ELSE Declare(S, Len(S.env), s.hname, S.val),
                          s.handler)
  IN  IF body.out = "raise" /\ s.handler # <<>>
      THEN Scoped([body EXCEPT !.out = "normal"], Handler)
      ELSE IF body.out = "normal" THEN Suite(body, s.orelse) ELSE body
Finally(handled, s) ==
  IF handled.out = "stop" \/ s.final = <<>> THEN handled
  ELSE OnNormal(Suite([handled EXCEPT !.out = "normal"], s.final), LAMBDA S :
         [S EXCEPT !.out = handled.out, !.val = handled.val])
ExecTry(R, s) ==
  Then(Suite(R, s.body), LAMBDA body :
    Then(Handle(body, s), LAMBDA handled : Finally(handled, s)))

(* A run of a body with the picks given: the last event, and how it ended. *)
Meaning(body, picks) ==
  Then(Block([env |-> <<<<>>>>, store |-> <<>>, picks |-> picks, acc |-> <<>>,
              event |-> Event("", 0, <<>>), out |-> "normal", val |-> NoneValue], body),
    LAMBDA end : [event |-> end.event,
                  out |-> IF end.out = "normal" THEN "return" ELSE end.out,
                  val |-> IF end.out = "normal" THEN NoneValue ELSE end.val])
=============================================================================
