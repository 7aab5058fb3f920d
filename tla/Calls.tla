-------------------------------- MODULE Calls --------------------------------
(***************************************************************************)
(* One call of a program that the checker accepts, from its arguments to   *)
(* the return of the callee: the lowering of calls (src/src/mir/mod.rs),   *)
(* and the four ways in which the machine makes them                       *)
(* (src/src/backend/vm.rs).                                                *)
(*                                                                         *)
(*   "direct"     a frame of the driver; `mut` parameters are references   *)
(*   "writeback"  inside a try region; final values are copied back        *)
(*   "method"     as "writeback", and a `mut self` is copied back last;    *)
(*                one that returns a reference is called "direct"          *)
(*   "construct"  `__init__`; references by the position of the argument   *)
(*                                                                         *)
(* The store maps the path of every scalar place to its content, a tuple.  *)
(* A value maps the paths within it to contents.                           *)
(***************************************************************************)
EXTENDS CallMatching

CONSTANTS Programs,   \* [cands, recv, args, kwargs, mode]
          Places,     \* the paths of the scalar places
          MaxWrites   \* bound: assignments made by the callee

VARIABLES prog, pc, target, store, receiver, argv, kwv, frame, slots, script

vars == <<prog, pc, target, store, receiver, argv, kwv, frame, slots, script>>

-----------------------------------------------------------------------------
(* Values and places.                                                      *)
Under(p) == {q \in Places : IsPrefix(p, q)}
Within(p, q) == SubSeq(q, Len(p) + 1, Len(q))
Load(s, p) == [v |-> [r \in {Within(p, q) : q \in Under(p)} |-> s[p \o r]]]
Stored(s, p, value) ==
  [q \in Places |-> IF q \in Under(p) /\ Within(p, q) \in DOMAIN value.v
                    THEN value.v[Within(p, q)] ELSE s[q]]
Emptied(s, p) == [q \in Places |-> IF q \in Under(p) THEN <<"moved">> ELSE s[q]]
Scalar(content) == [v |-> (<<>> :> content)]

(* What evaluating an argument leaves in the store, and its value.         *)
After(e, s) ==
  CASE e.k = "move" -> Emptied(s, e.p)
    [] e.k = "bump" -> Stored(s, e.p, Scalar(<<"bumped">>))
    [] OTHER        -> s
ValueOf(e, s) ==
  CASE e.k = "lit"  -> Scalar(<<"lit">>)
    [] e.k = "bump" -> Scalar(<<"bumped">>)
    [] OTHER        -> IF TypeAt(e.p) = "StringDict"
                       THEN [pairs |-> <<[n |-> "k", value |-> Load(s, e.p)]>>]
                       ELSE Load(s, e.p)

(* simple_place: no temporaries and no indices.                            *)
simple_place(e) == IF e.k = "place" /\ Element \notin ToSet(e.p) THEN {e.p} ELSE {}
arg_places == [i \in DOMAIN prog.args |-> simple_place(prog.args[i])]

-----------------------------------------------------------------------------
(* The checker picks the candidate, or refuses the call.                   *)
Declarations == [i \in DOMAIN prog.cands |-> MirFunctionDeclaration(prog.cands[i])]
Choice ==
  IF prog.recv # {} THEN select_method_overload(Declarations, prog.args, prog.kwargs)
  ELSE select_callable_overload(Declarations, prog.args, prog.kwargs)
decl == Declarations[Only(target)]

Init ==
  /\ prog \in Programs
  /\ pc = "check"
  /\ target = {}
  /\ store = [q \in Places |-> <<"init", q>>]
  /\ receiver = <<>>
  /\ argv = <<>>
  /\ kwv = <<>>
  /\ frame = <<>>
  /\ slots = <<>>
  /\ script = <<>>

Check ==
  /\ pc = "check"
  /\ LET choice == Choice
     IN  /\ target' = choice
         /\ pc' = IF choice = {} THEN "rejected" ELSE "args"
  /\ UNCHANGED <<prog, store, receiver, argv, kwv, frame, slots, script>>

-----------------------------------------------------------------------------
(* The receiver is loaded before the arguments, these from left to right.  *)
LoadReceiver ==
  /\ pc = "args"
  /\ receiver = <<>> /\ argv = <<>> /\ kwv = <<>>
  /\ \E r \in prog.recv : receiver' = <<Load(store, r.p)>>
  /\ UNCHANGED <<prog, pc, target, store, argv, kwv, frame, slots, script>>

ReceiverLoaded == Len(receiver) = Cardinality(prog.recv)
EvalArg ==
  /\ pc = "args" /\ ReceiverLoaded
  /\ Len(argv) < Len(prog.args)
  /\ LET e == prog.args[Len(argv) + 1]
     IN  /\ argv' = Append(argv, ValueOf(e, store))
         /\ store' = After(e, store)
  /\ UNCHANGED <<prog, pc, target, receiver, kwv, frame, slots, script>>
EvalKeyword ==
  /\ pc = "args" /\ ReceiverLoaded
  /\ Len(argv) = Len(prog.args)
  /\ Len(kwv) < Len(prog.kwargs)
  /\ LET kw == prog.kwargs[Len(kwv) + 1]
     IN  /\ kwv' = Append(kwv, [n |-> kw.n, value |-> ValueOf(kw.e, store)])
         /\ store' = After(kw.e, store)
  /\ UNCHANGED <<prog, pc, target, receiver, argv, frame, slots, script>>
Evaluated == ReceiverLoaded /\ Len(argv) = Len(prog.args) /\ Len(kwv) = Len(prog.kwargs)

-----------------------------------------------------------------------------
(* The frame.  A method has its receiver in front of the parameters.       *)
Offset == Cardinality(prog.recv)
ref_params ==
  (IF prog.recv = {} THEN <<>> ELSE <<\E r \in prog.recv : r.mut>>) \o decl.ref_params
(* The place of the argument that a parameter of the frame stands for.     *)
(* Mutant: the parameter's own position is taken for the argument's. *)
parameter_place_position(bound_slots, i) ==
  IF i \in DOMAIN arg_places THEN arg_places[i] ELSE {}
parameter_place(bound_slots, i) ==
  IF i \in DOMAIN bound_slots /\ bound_slots[i].kind = "positional"
  THEN arg_places[bound_slots[i].at] ELSE {}
Mutables == {i \in DOMAIN decl.ref_params : decl.ref_params[i]}

Fails == pc' = "failed" /\ UNCHANGED <<frame, slots>>

(* prepare_direct_call: a parameter without a place fails the call.  A     *)
(* method gets here when it returns a reference.                           *)
SelfHandle ==
  LET self == Only(prog.recv) IN IF self.mut THEN [ref |-> self.p] ELSE receiver[1]
BindDirect ==
  /\ prog.mode = "direct"
  /\ LET bound == bind_for_call(decl, argv, kwv)
     IN  IF bound.error # "" \/ \E i \in Mutables : parameter_place(bound.slots, i) = {}
         THEN Fails
         ELSE /\ pc' = "body"
              /\ frame' = [i \in DOMAIN receiver |-> SelfHandle]
                           \o [i \in DOMAIN bound.values |->
                                IF i \in Mutables
                                THEN [ref |-> Only(parameter_place(bound.slots, i))]
                                ELSE bound.values[i]]
              /\ slots' = bound.slots

BindForWriteback ==
  /\ prog.mode \in {"writeback", "method"}
  /\ LET bound == bind_for_call(decl, argv, kwv)
     IN  IF bound.error # "" THEN Fails
         ELSE /\ pc' = "body"
              /\ frame' = receiver \o bound.values
              /\ slots' = bound.slots

(* A constructor makes its references before the binding.                  *)
BindConstruct ==
  /\ prog.mode = "construct"
  /\ LET referred == DOMAIN argv \intersect Mutables
         handles == [k \in DOMAIN argv |->
                       IF k \in referred THEN [ref |-> Only(arg_places[k])] ELSE argv[k]]
     IN  IF \E k \in referred : arg_places[k] = {} THEN Fails
         ELSE LET bound == bind_for_call(decl, handles, kwv)
              IN  IF bound.error # "" THEN Fails
                  ELSE /\ pc' = "body"
                       /\ frame' = bound.values
                       /\ slots' = bound.slots

Bind ==
  /\ pc = "args" /\ Evaluated
  /\ BindDirect \/ BindForWriteback \/ BindConstruct
  /\ UNCHANGED <<prog, target, store, receiver, argv, kwv, script>>

-----------------------------------------------------------------------------
(* The callee assigns to its `mut` parameters, something new or what it    *)
(* reads from a parameter: script keeps [i, at, new, from].                *)
Contents(value, s) ==
  CASE "ref" \in DOMAIN value   -> Load(s, value.ref).v
    [] "v" \in DOMAIN value     -> value.v
    [] OTHER                    -> <<>>
Assignable == {i \in DOMAIN ref_params : ref_params[i]}
Assigns(i, at, content) ==
  IF "ref" \in DOMAIN frame[i]
  THEN /\ store' = Stored(store, frame[i].ref \o at, Scalar(content))
       /\ UNCHANGED frame
  ELSE /\ frame' = [frame EXCEPT ![i].v[at] = content]
       /\ UNCHANGED store

CalleeWrite ==
  /\ pc = "body" /\ Len(script) < MaxWrites
  /\ \E i \in Assignable : \E at \in DOMAIN Contents(frame[i], store) :
       /\ Assigns(i, at, <<"new", Len(script)>>)
       /\ script' = Append(script, [i |-> i, at |-> at, from |-> <<>>])
  /\ UNCHANGED <<prog, pc, target, receiver, argv, kwv, slots>>
CalleeCopy ==
  /\ pc = "body" /\ Len(script) < MaxWrites
  /\ \E i \in Assignable, j \in DOMAIN frame :
       \E at \in DOMAIN Contents(frame[i], store), of \in DOMAIN Contents(frame[j], store) :
         /\ i # j
         /\ Assigns(i, at, Contents(frame[j], store)[of])
         /\ script' = Append(script, [i |-> i, at |-> at, from |-> <<j, of>>])
  /\ UNCHANGED <<prog, pc, target, receiver, argv, kwv, slots>>

-----------------------------------------------------------------------------
(* The final values go back in the order of the parameters, the receiver   *)
(* last; a parameter without a place fails the call after its body.        *)
Written(s, places, values, at) ==
  FoldLeft(LAMBDA acc, i : IF places[i] = {} THEN acc
                           ELSE Stored(acc, Only(places[i]), values[i]), s, at)

Return ==
  /\ pc = "body"
  /\ IF prog.mode \notin {"writeback", "method"}
     THEN pc' = "returned" /\ UNCHANGED store
     ELSE LET mutables == SelectSeq([i \in DOMAIN decl.ref_params |-> i],
                                    LAMBDA i : i \in Mutables)
              places   == [i \in DOMAIN decl.ref_params |-> parameter_place(slots, i)]
              missing  == SelectSeq(mutables, LAMBDA i : places[i] = {})
              done     == IF missing = <<>> THEN mutables
                          ELSE SelectSeq(mutables, LAMBDA i : i < missing[1])
              values   == SubSeq(frame, Offset + 1, Len(frame))
              back     == Written(store, places, values, done)
          IN  IF missing # <<>> THEN pc' = "failed" /\ store' = back
              ELSE /\ pc' = "returned"
                   /\ store' = IF \E r \in prog.recv : r.mut
                               THEN Stored(back, (Only(prog.recv)).p, frame[1]) ELSE back
  /\ UNCHANGED <<prog, target, receiver, argv, kwv, frame, slots, script>>
(* An error of the callee: what was not written through a reference is     *)
(* lost.                                                                   *)
Raise ==
  /\ pc = "body"
  /\ pc' = "raised"
  /\ UNCHANGED <<prog, target, store, receiver, argv, kwv, frame, slots, script>>

Stop == pc \in {"rejected", "failed", "returned", "raised"} /\ UNCHANGED vars

Next ==
  \/ Check \/ LoadReceiver \/ EvalArg \/ EvalKeyword \/ Bind
  \/ CalleeWrite \/ CalleeCopy \/ Return \/ Raise \/ Stop

Spec == Init /\ [][Next]_vars
=============================================================================
