----------------------------- MODULE CallMatching -----------------------------
(***************************************************************************)
(* Which argument a parameter gets: the declaration of a function          *)
(* (src/src/mir/mod.rs), the shared matcher of arguments and parameters    *)
(* (src/src/call.rs) with the frame that the machine makes of its result   *)
(* (src/src/backend/vm/calls.rs), and the calls that the checker accepts   *)
(* (src/src/checker.rs).                                                   *)
(*                                                                         *)
(* A parameter is [n, kind, conv, ty, def]; a parameter list carries its   *)
(* markers `/` and `*` as the number of parameters before them.  An option *)
(* is a set of at most one element.  A place is a path from its variable.  *)
(* An argument is a place, a place that is moved (`p^`), a literal, or a   *)
(* call `bump(p)` that writes p and returns an Int.                        *)
(***************************************************************************)
EXTENDS Naturals, Sequences, SequencesExt, FiniteSetsExt

CONSTANT TypeAt(_)  \* the type of a place

Element == "[]"     \* the path element of an index, whatever its value
Forwarded == "**"   \* the keyword of `**kwargs^`

Least(S) == IF S = {} THEN {} ELSE {Min(S)}
Only(S) == CHOOSE x \in S : TRUE

-----------------------------------------------------------------------------
(* Declarations.                                                           *)
Regular(ps) == SelectSeq(ps, LAMBDA p : p.kind = "regular")
Incoming(ps) == SelectSeq(ps, LAMBDA p : p.conv # "out")
Before(ps, kind) == {i - 1 : i \in {j \in DOMAIN ps : ps[j].kind = kind}}

regular_marker_index(ps, marker) == {Len(Regular(SubSeq(ps, 1, i))) : i \in marker}

effective_keyword_only_index(ps, keyword_only) ==
  Least(regular_marker_index(ps, keyword_only)
        \union regular_marker_index(ps, Before(ps, "variadic")))

runtime_variadic_index(ps) ==
  {Len(Regular(Incoming(SubSeq(ps, 1, i)))) : i \in Before(ps, "variadic")}
(* Mutant: *args does not take a position of the frame. *)
runtime_parameter_index_regular(ps) ==
  {Len(Regular(Incoming(SubSeq(ps, 1, i)))) : i \in Before(ps, "kwvariadic")}
runtime_parameter_index(ps) ==
  {Len(SelectSeq(Incoming(SubSeq(ps, 1, i)), LAMBDA p : p.kind # "kwvariadic"))
     : i \in Before(ps, "kwvariadic")}

Collector(ps, kind) == {ps[i].ty : i \in {j \in DOMAIN ps : ps[j].kind = kind}}

MirFunctionDeclaration(list) ==
  LET ps == list.params
      rs == Regular(Incoming(ps))
      incoming == Incoming(ps)
  IN  [params            |-> rs,
       variadic          |-> Collector(ps, "variadic"),
       variadic_index    |-> runtime_variadic_index(ps),
       kw_variadic       |-> Collector(ps, "kwvariadic"),
       kw_variadic_index |-> runtime_parameter_index(ps),
       positional_only   |-> regular_marker_index(ps, list.positional_only),
       keyword_only      |-> effective_keyword_only_index(ps, list.keyword_only),
       ref_params        |-> [i \in DOMAIN incoming |-> incoming[i].conv = "mut"]]

NameOf(d, name) == {i \in DOMAIN d.params : d.params[i].n = name}

(* A default may not be followed by a parameter without one, on either     *)
(* side of the keyword-only marker.                                        *)
validate_required_order(ps) ==
  \A i, j \in DOMAIN ps : i < j /\ ps[i].def => ps[j].def
required_mask(d) ==
  LET kw_start == Min(d.keyword_only \union {Len(d.params)})
  IN  /\ validate_required_order(SubSeq(d.params, 1, kw_start))
      /\ validate_required_order(SubSeq(d.params, kw_start + 1, Len(d.params)))

(* Two functions of one name need different types of parameters.           *)
same_callable_signature(c, d) ==
  /\ [i \in DOMAIN c.params |-> c.params[i].ty] = [i \in DOMAIN d.params |-> d.params[i].ty]
  /\ c.variadic = d.variadic /\ c.kw_variadic = d.kw_variadic
declare(ds) ==
  /\ \A i \in DOMAIN ds : required_mask(ds[i])
  /\ \A i, j \in DOMAIN ds : i # j => ~same_callable_signature(ds[i], ds[j])

-----------------------------------------------------------------------------
(* match_call_slots: positional arguments by position up to the            *)
(* keyword-only limit, keywords by name, the rest to the collectors.       *)
ArgSlot(kind, at) == [kind |-> kind, at |-> at]
Default == ArgSlot("default", 0)

positional_limit(d) == Min(d.keyword_only \union {Len(d.params)})
n_regular_pos(d, npos) == Min({npos, positional_limit(d)})

(* What is wrong with the keyword at k, the first thing found.             *)
(* Mutant: a parameter that has a positional argument takes a keyword too. *)
keyword_error_dup(d, npos, kws, k) ==
  LET index == NameOf(d, kws[k])
  IN  CASE \E j \in 1..(k - 1) : kws[j] = kws[k] -> "Duplicate"
        [] index = {} -> IF d.kw_variadic # {} THEN "" ELSE "UnknownKeyword"
        [] \E i \in index, limit \in d.positional_only : i <= limit -> "PositionalOnly"
        [] OTHER -> ""
keyword_error(d, npos, kws, k) ==
  LET index == NameOf(d, kws[k])
  IN  CASE \E j \in 1..(k - 1) : kws[j] = kws[k] -> "Duplicate"
        [] index = {} -> IF d.kw_variadic # {} THEN "" ELSE "UnknownKeyword"
        [] \E i \in index, limit \in d.positional_only : i <= limit -> "PositionalOnly"
        [] \E i \in index : i <= n_regular_pos(d, npos) -> "Duplicate"
        [] OTHER -> ""

Slot(d, npos, kws, i) ==
  IF i <= n_regular_pos(d, npos) THEN ArgSlot("positional", i)
  ELSE LET given == {k \in DOMAIN kws : kws[k] = d.params[i].n}
       IN  IF given = {} THEN Default ELSE ArgSlot("keyword", Min(given))
Missing(d, npos, kws) ==
  \E i \in DOMAIN d.params : ~d.params[i].def /\ Slot(d, npos, kws, i) = Default

match_error(d, npos, kws) ==
  LET wrong == {k \in DOMAIN kws : keyword_error(d, npos, kws, k) # ""}
  IN  CASE npos > positional_limit(d) /\ d.variadic = {} -> "TooManyPositional"
        [] wrong # {} -> keyword_error(d, npos, kws, Min(wrong))
        [] Missing(d, npos, kws) -> "Missing"
        [] OTHER -> ""

match_call_slots(d, npos, kws) ==
  [error |-> match_error(d, npos, kws),
   slots |-> [i \in DOMAIN d.params |-> Slot(d, npos, kws, i)],
   positional_overflow |->
     IF d.variadic = {} THEN <<>>
     ELSE SelectSeq([i \in 1..npos |-> i], LAMBDA i : i > positional_limit(d)),
   keyword_overflow |->
     SelectSeq([k \in DOMAIN kws |-> k], LAMBDA k : NameOf(d, kws[k]) = {})]

-----------------------------------------------------------------------------
(* The frame of a call: kwargs are pairs of a name and a value.            *)
NameSeq(kwargs) == [k \in DOMAIN kwargs |-> kwargs[k].n]
DefaultOf(p) == [v |-> (<<>> :> <<"default", p.n>>)]

slot_value(d, i, slot, argv, kwargs) ==
  CASE slot.kind = "positional" -> argv[slot.at]
    [] slot.kind = "keyword"    -> kwargs[slot.at].value
    [] slot.kind = "default"    -> DefaultOf(d.params[i])

(* *args after the parameters before it, then **kwargs at its position.    *)
Inserted(s, index, x) ==
  IF index = {} THEN s ELSE InsertAt(s, Only(index) + 1, x)
frame_slots(d, slots) ==
  Inserted(Inserted(slots, d.variadic_index, Default), d.kw_variadic_index, Default)

make_kwargs_dict(d, kwargs) ==
  [pairs |-> SelectSeq(kwargs, LAMBDA kw : NameOf(d, kw.n) = {})]

bind_args(d, argv, kwargs) ==
  LET matched == match_call_slots(d, Len(argv), NameSeq(kwargs))
      regular_values ==
        [i \in DOMAIN d.params |-> slot_value(d, i, matched.slots[i], argv, kwargs)]
      rest == [items |-> [i \in DOMAIN matched.positional_overflow |->
                            argv[matched.positional_overflow[i]]]]
  IN  IF matched.error # "" THEN [error |-> matched.error]
      ELSE [error |-> "",
            values |-> Inserted(Inserted(regular_values, d.variadic_index, rest),
                                d.kw_variadic_index, make_kwargs_dict(d, kwargs)),
            slots |-> frame_slots(d, matched.slots)]

(* A dictionary that is forwarded is taken apart before the matching.      *)
take_forwarded_kwargs(kwargs) ==
  FlattenSeq([k \in DOMAIN kwargs |->
    IF kwargs[k].n = Forwarded THEN kwargs[k].value.pairs ELSE <<kwargs[k]>>])
bind_for_call(d, argv, kwargs) == bind_args(d, argv, take_forwarded_kwargs(kwargs))

-----------------------------------------------------------------------------
(* The checker.                                                            *)
Copyable == {"Int", "IntLiteral", "Float"}
is_place_expr(e) == e.k = "place"
ArgType(e) == CASE e.k = "lit" -> "IntLiteral" [] e.k = "bump" -> "Int" [] OTHER -> TypeAt(e.p)

value_coerces(actual, expected) ==
  actual = expected \/ (actual = "IntLiteral" /\ expected \in {"Int", "Float"})
conversion_count(actual, expected) ==
  IF actual = expected \/ (actual = "IntLiteral" /\ expected = "Int") THEN 0 ELSE 1
check_consuming(e) == is_place_expr(e) => ArgType(e) \in Copyable

(* Arguments that a slot stands for, none for a default.                   *)
Source(slot, args, kwargs) ==
  CASE slot.kind = "positional" -> {args[slot.at]}
    [] slot.kind = "keyword"    -> {kwargs[slot.at].e}
    [] OTHER                    -> {}

places_overlap(a, b) ==
  \A i \in DOMAIN a \intersect DOMAIN b : a[i] = b[i] \/ Element \in {a[i], b[i]}

(* Mutant: only moved arguments are exclusive. *)
access_moves(d, i, e) ==
  [path |-> e.p, exclusive |-> e.k = "move", copied |-> ArgType(e) \in Copyable]
access(d, i, e) ==
  [path      |-> e.p,
   exclusive |-> e.k = "move" \/ d.params[i].conv = "mut",
   copied    |-> d.params[i].conv # "mut" /\ ArgType(e) \in Copyable]

(* An exclusive access next to one of an overlapping place, unless that is *)
(* a copy.                                                                 *)
check_call_aliasing(d, slots, args, kwargs) ==
  LET accesses(i) == {access(d, i, e) : e \in {x \in Source(slots[i], args, kwargs) :
                                                 x.k \in {"place", "move"}}}
  IN  \A i, j \in DOMAIN slots : \A x \in accesses(i), y \in accesses(j) :
        i # j /\ x.path[1] = y.path[1] /\ places_overlap(x.path, y.path)
          => ~(x.exclusive /\ ~y.copied)

IsForwarded(kw) == kw.n = Forwarded
ForwardedType(kwargs) == {"Int" : k \in {x \in DOMAIN kwargs : IsForwarded(kwargs[x])}}

slot_coerces(d, i, slot, args, kwargs) ==
  \A e \in Source(slot, args, kwargs) : value_coerces(ArgType(e), d.params[i].ty)
slot_consumable(d, i, slot, args, kwargs) ==
  d.params[i].conv = "var" => \A e \in Source(slot, args, kwargs) : check_consuming(e)
overflow_accepted(d, matched, args, kwargs) ==
  /\ \A i \in ToSet(matched.positional_overflow), ty \in d.variadic :
       value_coerces(ArgType(args[i]), ty)
  /\ \A k \in ToSet(matched.keyword_overflow), ty \in d.kw_variadic :
       value_coerces(ArgType(kwargs[k].e), ty) /\ check_consuming(kwargs[k].e)
  /\ \A found \in ForwardedType(kwargs) : d.kw_variadic = {found}

(* Conversions first, then collectors.                                     *)
CONVERSION_RANK == 16
VARIADIC_RANK == 4
conversion_score(d, matched, args, kwargs) ==
  LET conversions(e, ty) == conversion_count(ArgType(e), ty)
      slot(i) == MapThenSumSet(LAMBDA e : conversions(e, d.params[i].ty),
                               Source(matched.slots[i], args, kwargs))
      rest(i) == conversions(args[i], Only(d.variadic))
      other(k) == conversions(kwargs[k].e, Only(d.kw_variadic))
  IN  MapThenSumSet(slot, DOMAIN matched.slots)
      + MapThenSumSet(rest, ToSet(matched.positional_overflow))
      + MapThenSumSet(other, ToSet(matched.keyword_overflow))
overload_rank(d, score) ==
  score * CONVERSION_RANK
    + (IF d.variadic # {} \/ d.kw_variadic # {} THEN VARIADIC_RANK ELSE 0)

(* The matching leaves out what is forwarded.  A candidate of a function   *)
(* is checked in full before the selection, the methods only by type: the  *)
(* consumptions and borrows of the method that was selected come after.    *)
Explicit(kwargs) == SelectSeq(kwargs, LAMBDA kw : ~IsForwarded(kw))
score_method_call(d, args, kwargs) ==
  LET matched == match_call_slots(d, Len(args), NameSeq(Explicit(kwargs)))
      fits    == /\ matched.error = ""
                 /\ \A i \in DOMAIN matched.slots :
                      slot_coerces(d, i, matched.slots[i], args, kwargs)
                 /\ overflow_accepted(d, matched, args, kwargs)
  IN  [ok      |-> fits,
       matched |-> matched,
       rank    |-> IF fits THEN overload_rank(d, conversion_score(d, matched, args, kwargs))
                           ELSE 0]
selected_method_accepted(d, matched, args, kwargs) ==
  /\ \A i \in DOMAIN matched.slots : slot_consumable(d, i, matched.slots[i], args, kwargs)
  /\ check_call_aliasing(d, matched.slots, args, kwargs)
infer_callable_ty(d, args, kwargs) ==
  LET scored == score_method_call(d, args, kwargs)
  IN  [scored EXCEPT !.ok =
         @ /\ selected_method_accepted(d, scored.matched, args, kwargs)]

Best(scored) ==
  LET fitting == {i \in DOMAIN scored : scored[i].ok}
  IN  {i \in fitting : \A j \in fitting : scored[i].rank <= scored[j].rank}
(* The candidate a call resolves to: none when no candidate fits, or when  *)
(* several fit equally well.                                               *)
Resolved(best) == IF Cardinality(best) = 1 THEN best ELSE {}
select_callable_overload(ds, args, kwargs) ==
  Resolved(Best([i \in DOMAIN ds |-> infer_callable_ty(ds[i], args, kwargs)]))
select_method_overload(ds, args, kwargs) ==
  LET scored == [i \in DOMAIN ds |-> score_method_call(ds[i], args, kwargs)]
  IN  {i \in Resolved(Best(scored)) :
         selected_method_accepted(ds[i], scored[i].matched, args, kwargs)}
=============================================================================
