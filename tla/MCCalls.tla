------------------------------- MODULE MCCalls -------------------------------
(* Small programs for Calls, and what a call promises to its caller.       *)
EXTENDS Calls

x == <<"x">>   y == <<"y">>   p == <<"p">>   pa == <<"p", "a">>   pb == <<"p", "b">>
r == <<"r">>   d == <<"d">>   element == <<"ys", "[]">>
TypeAtPlace(path) ==
  CASE path = p -> "Pair" [] path = r -> "Res" [] path = d -> "StringDict" [] OTHER -> "Int"
AllPlaces == {x, y, pa, pb, r, d, element}

-----------------------------------------------------------------------------
(* Programs.                                                               *)
Param(n, kind, conv, ty, def) == [n |-> n, kind |-> kind, conv |-> conv, ty |-> ty, def |-> def]
Read(n) == Param(n, "regular", "read", "Int", FALSE)
Opt(n) == Param(n, "regular", "read", "Int", TRUE)
Mut(n) == Param(n, "regular", "mut", "Int", FALSE)
Of(param, ty) == [param EXCEPT !.ty = ty]
Result == Param("result", "regular", "out", "Int", FALSE)
Rest == Param("rest", "variadic", "read", "Int", FALSE)
Kw == Param("kw", "kwvariadic", "var", "Int", FALSE)

Signature(params, positional_only, keyword_only) ==
  [params |-> params, positional_only |-> positional_only, keyword_only |-> keyword_only]
Plain(params) == Signature(params, {}, {})

Place(path) == [k |-> "place", p |-> path]
Move(path) == [k |-> "move", p |-> path]
Bump(path) == [k |-> "bump", p |-> path]
Lit == [k |-> "lit", p |-> <<>>]
Kwarg(n, e) == [n |-> n, e |-> e]
ForwardD == Kwarg(Forwarded, Move(d))

Call(cands, recv, args, kwargs, mode) ==
  [cands |-> cands, recv |-> recv, args |-> args, kwargs |-> kwargs, mode |-> mode]
ReceiverP(mut) == {[p |-> p, mut |-> mut]}

(* Every shape of a parameter list against 0 to 3 positional arguments and *)
(* up to 2 keywords, in either order, repeated or unknown.                 *)
BindingSignatures ==
  {Plain(<<Read("a"), Read("b")>>), Plain(<<Read("a"), Opt("b")>>), Plain(<<Opt("a"), Read("b")>>),
   Signature(<<Read("a"), Read("b")>>, {1}, {}), Signature(<<Read("a"), Read("b")>>, {}, {1}),
   Plain(<<Read("a"), Rest>>), Plain(<<Read("a"), Rest, Read("b")>>),
   Plain(<<Read("a"), Kw>>), Plain(<<Read("a"), Rest, Opt("b"), Kw>>),
   Signature(<<Read("a"), Opt("b"), Kw>>, {1}, {}), Plain(<<Read("a"), Read("b"), Result>>),
   Signature(<<Opt("a"), Opt("b"), Read("c")>>, {}, {2}),
   Signature(<<Read("a"), Opt("b"), Read("c"), Result>>, {1}, {1})}
Keywords == {Kwarg("a", Lit), Kwarg("b", Place(y)), Kwarg("c", Place(pa)), Kwarg("b", Place(x))}
BindingKwargs ==
  {<<>>} \union {<<k>> : k \in Keywords} \union (Keywords \X Keywords)
  \union {<<k, ForwardD>> : k \in Keywords} \union {<<ForwardD>>}
BindingPrograms ==
  {Call(<<sig>>, {}, args, kwargs, "direct") :
     sig \in BindingSignatures, kwargs \in BindingKwargs,
     args \in {<<>>, <<Place(x)>>, <<Place(x), Place(y)>>, <<Place(x), Place(y), Lit>>}}

(* Borrowed and consumed parameters against places that overlap, are       *)
(* moved, or are written by another argument.                              *)
BorrowSignatures ==
  {Plain(<<Mut("a"), Read("b")>>), Plain(<<Read("b"), Mut("a")>>), Plain(<<Mut("a"), Mut("b")>>),
   Plain(<<Of(Mut("a"), "Pair"), Read("b")>>), Plain(<<Of(Mut("a"), "Pair"), Mut("b")>>),
   Plain(<<Mut("a"), Rest>>), Plain(<<Mut("a"), Rest, Mut("b")>>),
   Plain(<<Of(Mut("a"), "Res"), Of(Rest, "Res")>>),
   Plain(<<Of(Param("a", "regular", "var", "Int", FALSE), "Res"), Mut("b")>>),
   Plain(<<Of(Mut("a"), "Res"), Of(Read("b"), "Res")>>), Plain(<<Mut("a"), Opt("b"), Kw>>)}
BorrowArgs ==
  ({Place(x), Place(pa), Place(p), Place(r), Move(r), Bump(x), Lit}
    \X {Place(x), Place(y), Place(pa), Place(pb), Place(p), Place(r), Move(r), Place(element),
        Bump(x), Bump(pb)})
  \union {<<Place(x)>>, <<Place(p)>>, <<Place(x), Place(y), Place(pa)>>}
BorrowKwargs == {<<>>, <<Kwarg("b", Place(y))>>, <<Kwarg("b", Bump(x))>>, <<ForwardD>>}
Modes == {<<{}, "direct">>, <<{}, "writeback">>, <<{}, "construct">>,
          <<ReceiverP(TRUE), "method">>, <<ReceiverP(FALSE), "method">>,
          <<ReceiverP(TRUE), "direct">>}
BorrowPrograms ==
  {Call(<<sig>>, mode[1], args, kwargs, mode[2]) :
     sig \in BorrowSignatures, args \in BorrowArgs, kwargs \in BorrowKwargs, mode \in Modes}

(* Two candidates.                                                         *)
Candidates ==
  {Plain(<<Read("a")>>), Plain(<<Of(Read("a"), "Float")>>), Plain(<<Rest>>),
   Plain(<<Read("a"), Opt("b")>>), Plain(<<Of(Read("a"), "Float"), Of(Read("b"), "Float")>>),
   Plain(<<Read("a"), Kw>>), Plain(<<Mut("a"), Read("b")>>)}
OverloadPrograms ==
  {Call(<<c1, c2>>, mode[1], args, kwargs, mode[2]) :
     c1 \in Candidates, c2 \in Candidates,
     args \in {<<Place(x)>>, <<Lit>>, <<Place(x), Place(y)>>, <<Place(x), Place(x)>>, <<Lit, Lit>>},
     kwargs \in {<<>>, <<Kwarg("b", Lit)>>},
     mode \in {<<{}, "direct">>, <<ReceiverP(FALSE), "direct">>}}

(* Those whose declarations the checker accepts.                           *)
MCPrograms ==
  {c \in BindingPrograms \union BorrowPrograms \union OverloadPrograms :
     declare([i \in DOMAIN c.cands |-> MirFunctionDeclaration(c.cands[i])])}

-----------------------------------------------------------------------------
(* What a parameter list says, read off the list itself.  A source of a    *)
(* parameter is <<"positional", k>> or <<"keyword", k>>.                   *)
Markers(list, i) ==
  [slash |-> \E at \in list.positional_only : i <= at,
   star  |-> \/ \E at \in list.keyword_only : i > at
             \/ \E j \in 1..(i - 1) : list.params[j].kind = "variadic"]
Named(list) ==
  {i \in DOMAIN list.params : list.params[i].kind = "regular" /\ list.params[i].conv # "out"}
ByPosition(list) == {i \in Named(list) : ~Markers(list, i).star}
Rank(list, i) == Cardinality({j \in ByPosition(list) : j <= i})
Sources(list, c, i) ==
  {<<"positional", k>> : k \in {n \in DOMAIN c.args : i \in ByPosition(list) /\ Rank(list, i) = n}}
  \union {<<"keyword", k>> : k \in {n \in DOMAIN c.kwargs :
            c.kwargs[n].n = list.params[i].n /\ ~Markers(list, i).slash}}
Collects(list, kind) == \E i \in DOMAIN list.params : list.params[i].kind = kind
CollectorType(list, kind) ==
  list.params[CHOOSE i \in DOMAIN list.params : list.params[i].kind = kind].ty
Extra(list, c) == {k \in DOMAIN c.args : k > Cardinality(ByPosition(list))}
Unnamed(list, c) ==
  {k \in DOMAIN c.kwargs : \A i \in Named(list) : c.kwargs[k].n # list.params[i].n}

(* Every parameter has one argument or a default, and every argument a     *)
(* place to go.                                                            *)
CanBind(list, c) ==
  /\ \A i \in Named(list) : \/ Cardinality(Sources(list, c, i)) = 1
                            \/ Sources(list, c, i) = {} /\ list.params[i].def
  /\ Extra(list, c) # {} => Collects(list, "variadic")
  /\ \A k \in DOMAIN c.kwargs :
       \/ \E i \in Named(list) : <<"keyword", k>> \in Sources(list, c, i)
       \/ /\ k \in Unnamed(list, c) /\ Collects(list, "kwvariadic")
          /\ \A j \in DOMAIN c.kwargs : c.kwargs[j].n = c.kwargs[k].n => j = k

Given(c, source) == IF source[1] = "positional" THEN c.args[source[2]] ELSE c.kwargs[source[2]].e
Uses(list, c) ==
  {[param |-> list.params[i], e |-> Given(c, source)] :
     <<i, source>> \in {<<j, s>> \in Named(list) \X ({"positional", "keyword"} \X (1..3)) :
                          s \in Sources(list, c, j)}}
  \union {[param |-> Of(Rest, CollectorType(list, "variadic")), e |-> c.args[k]] :
            k \in Extra(list, c)}
  \union {[param |-> Of(Kw, CollectorType(list, "kwvariadic")), e |-> c.kwargs[k].e] :
            k \in {n \in Unnamed(list, c) : c.kwargs[n].n # Forwarded}}
WellTyped(list, c) ==
  \A use \in Uses(list, c) : /\ value_coerces(ArgType(use.e), use.param.ty)
                             /\ use.param.conv = "var" => check_consuming(use.e)

Touches(e) == IF e.k \in {"place", "move"} THEN Under(e.p) ELSE {}
Exclusive(use) == use.e.k = "move" \/ use.param.conv = "mut"
Copied(use) == use.param.conv # "mut" /\ ArgType(use.e) \in Copyable
(* No exclusive use next to another use of a shared cell, copies aside,    *)
(* among the arguments that are not collected.                             *)
Apart(list, c) ==
  \A u, w \in {use \in Uses(list, c) : use.param.kind = "regular"} :
    u.param # w.param /\ Touches(u.e) \intersect Touches(w.e) # {}
      => ~(Exclusive(u) /\ ~Copied(w))
Admissible(list, c) == CanBind(list, c) /\ WellTyped(list, c) /\ Apart(list, c)

(* Fewest conversions, then no collectors.                                 *)
Conversions(list, c) ==
  Cardinality({i \in Named(list) : \E s \in Sources(list, c, i) :
                 conversion_count(ArgType(Given(c, s)), list.params[i].ty) = 1})
  + Cardinality({k \in Extra(list, c) :
                   conversion_count(ArgType(c.args[k]), CollectorType(list, "variadic")) = 1})
  + Cardinality({k \in {n \in Unnamed(list, c) : c.kwargs[n].n # Forwarded} :
                   conversion_count(ArgType(c.kwargs[k].e),
                                    CollectorType(list, "kwvariadic")) = 1})
Collecting(list) == Collects(list, "variadic") \/ Collects(list, "kwvariadic")
Better(l1, l2, c) ==
  \/ Conversions(l1, c) < Conversions(l2, c)
  \/ Conversions(l1, c) = Conversions(l2, c) /\ ~Collecting(l1) /\ Collecting(l2)

(* A call of a function resolves to the one admissible candidate that is   *)
(* better than every other one, and is refused when there is none; a call  *)
(* of a method chooses before it looks at borrows, and refuses what it     *)
(* chose.                                                                  *)
CallsResolve ==
  LET candidates == DOMAIN prog.cands
      fits(i) == IF prog.recv # {}
                 THEN CanBind(prog.cands[i], prog) /\ WellTyped(prog.cands[i], prog)
                 ELSE Admissible(prog.cands[i], prog)
      best == {i \in candidates : fits(i) /\ \A j \in candidates \ {i} :
                 fits(j) => Better(prog.cands[i], prog.cands[j], prog)}
  IN  pc # "check" => target = {i \in best : Apart(prog.cands[i], prog)}

-----------------------------------------------------------------------------
(* The meaning of a call: the arguments are evaluated from left to right,  *)
(* a `mut` parameter is the place of its argument, every other parameter   *)
(* the value its argument had.                                             *)
chosen == prog.cands[Only(target)]
Arguments == prog.args \o [k \in DOMAIN prog.kwargs |-> prog.kwargs[k].e]
StoreBefore(n) == FoldLeft(LAMBDA s, e : After(e, s), [q \in Places |-> <<"init", q>>],
                           SubSeq(Arguments, 1, n - 1))
ArgumentValue(n) == ValueOf(Arguments[n], StoreBefore(n))
Number(source) ==
  IF source[1] = "positional" THEN source[2] ELSE Len(prog.args) + source[2]

Meaning(i) ==
  LET param == chosen.params[i]
  IN  CASE param.kind = "variadic" ->
             [items |-> [k \in 1..Cardinality(Extra(chosen, prog)) |->
                           ArgumentValue(Cardinality(ByPosition(chosen)) + k)]]
        [] param.kind = "kwvariadic" ->
             [pairs |-> FlattenSeq([k \in DOMAIN prog.kwargs |->
                LET value == ArgumentValue(Len(prog.args) + k)
                IN  IF k \notin Unnamed(chosen, prog) THEN <<>>
                    ELSE IF prog.kwargs[k].n = Forwarded THEN value.pairs
                    ELSE <<[n |-> prog.kwargs[k].n, value |-> value]>>])]
        [] OTHER ->
             LET sources == Sources(chosen, prog, i)
             IN  IF sources = {} THEN DefaultOf(param) ELSE ArgumentValue(Number(Only(sources)))
Passed == SelectSeq([i \in DOMAIN chosen.params |-> i], LAMBDA i : chosen.params[i].conv # "out")

PlacesOf(i) ==
  UNION {simple_place(Given(prog, s)) : s \in Sources(chosen, prog, i)}
ByPlace(i) == \E k \in DOMAIN prog.args : /\ <<"positional", k>> \in Sources(chosen, prog, i)
                                          /\ simple_place(prog.args[k]) # {}
(* The parameter at a position of the frame, as a place or as a value.     *)
Stands(i) ==
  IF i <= Offset
  THEN LET self == Only(prog.recv)
       IN  IF self.mut THEN [place |-> self.p]
           ELSE Load([q \in Places |-> <<"init", q>>], self.p)
  ELSE LET param == Passed[i - Offset]
       IN  IF chosen.params[param].conv = "mut" /\ PlacesOf(param) # {}
           THEN [place |-> Only(PlacesOf(param))] ELSE Meaning(param)

(* A constructor makes references of arguments by their position: it does  *)
(* not refer to a place that a keyword gives it.                           *)
References == prog.mode = "construct" =>
  \A i \in DOMAIN chosen.params : chosen.params[i].conv = "mut" => ByPlace(i)

(* Once a call is bound, its frame holds the parameters in the order of    *)
(* the declaration, each with what the call gives it, and a call fails     *)
(* only for a `mut` parameter that no positional place is given to.        *)
BindsAsDeclared ==
  /\ pc = "body" /\ script = <<>> /\ References =>
       /\ Len(frame) = Offset + Len(Passed)
       /\ \A i \in DOMAIN Passed :
            LET bound == frame[Offset + i]
            IN  IF "ref" \in DOMAIN bound THEN {bound.ref} = PlacesOf(Passed[i])
                ELSE bound = Meaning(Passed[i])
  /\ pc = "failed" => \E i \in DOMAIN chosen.params :
                        chosen.params[i].conv = "mut" /\ ~ByPlace(i)

(* When a call has returned, its caller finds in every place what the      *)
(* assignments of the callee mean, whether they were made through          *)
(* references or on copies that were written back.                         *)
Replayed ==
  LET content(s, event, n) ==
        IF event.from = <<>> THEN <<"new", n - 1>>
        ELSE LET read == Stands(event.from[1])
             IN  IF "place" \in DOMAIN read THEN s[read.place \o event.from[2]]
                 ELSE read.v[event.from[2]]
  IN  FoldLeft(LAMBDA s, n :
                 Stored(s, Stands(script[n].i).place \o script[n].at,
                        Scalar(content(s, script[n], n))),
               StoreBefore(Len(Arguments) + 1), [n \in DOMAIN script |-> n])
(* No argument writes or moves a place that the callee has by `mut` (that  *)
(* of a collected argument is not looked at), and no `mut` argument lies   *)
(* in a `mut` receiver.                                                    *)
BorrowedCells(positions) ==
  UNION {Under(Stands(i).place) : i \in {j \in positions : "place" \in DOMAIN Stands(j)}}
Undisturbed ==
  /\ \A n \in DOMAIN Arguments : Arguments[n].k \in {"bump", "move"} =>
       Under(Arguments[n].p) \intersect BorrowedCells(DOMAIN frame) = {}
  /\ BorrowedCells(1..Offset) \intersect BorrowedCells((Offset + 1)..Len(frame)) = {}
EffectsReachCaller == pc = "returned" /\ References /\ Undisturbed => store = Replayed

(* While the callee runs, the places it has by `mut` are disjoint and hold *)
(* their values, collected arguments and receivers aside.                  *)
Collected(n) == \A i \in Named(chosen) : \A s \in Sources(chosen, prog, i) : Number(s) # n
BorrowsAreExclusive ==
  pc = "body" /\ script = <<>> =>
    \A i \in (Offset + 1)..Len(frame) : "place" \in DOMAIN Stands(i) =>
      LET cells == Under(Stands(i).place)
      IN  /\ \A j \in ((Offset + 1)..Len(frame)) \ {i} : cells \intersect BorrowedCells({j}) = {}
          /\ \A q \in cells : store[q] = <<"moved">> =>
               \E n \in DOMAIN Arguments : Collected(n) /\ q \in Touches(Arguments[n])
=============================================================================
