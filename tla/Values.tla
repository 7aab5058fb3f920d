------------------------------- MODULE Values -------------------------------
(***************************************************************************)
(* The values of one frame of the virtual machine (src/src/backend/vm.rs): *)
(* structs, collections and variants in the frame's variables, built,      *)
(* moved, copied, taken apart and destroyed by its instructions.           *)
(*                                                                         *)
(* A struct that has a destructor carries the identity of the object it    *)
(* is, which the code does not have: it tells two equal objects apart, and *)
(* `dead` lists the objects whose `__del__` the last instruction ran.  The *)
(* identity of an object that is not held any more is used again.          *)
(* Lowering gives each operand a register of its own, written once and     *)
(* read once by the instruction that consumes it, and elaboration never    *)
(* destroys a register: `operands` are the registers not read yet, the     *)
(* newest last.                                                            *)
(*                                                                         *)
(* What checker and analyses guarantee to an instruction is in its guard:  *)
(* a variable that is used is initialised, one that is stored to holds     *)
(* nothing, and what is dropped is deletable (Deletable).                  *)
(***************************************************************************)
EXTENDS Integers, Sequences, FiniteSets, SequencesExt, FiniteSetsExt

CONSTANTS
  Vars,             \* variables of the frame
  Keys,             \* what two structs without fields are compared by
  Arity,            \* the number of fields of each struct of the program
  HasDel,           \* the structs with a `__del__`
  HasCopyinit,      \* the structs with a `__copyinit__`
  ExplicitDestroy,  \* the structs that are destroyed by name only
  MaxObjects,       \* bound on the objects held at a time
  MaxValues,        \* bound on the registers and variables that hold a value
  MaxNodes          \* bound on the values held, parts included

VARIABLES
  slots,     \* the variables
  operands,  \* the registers to be read
  dead,      \* the objects the last instruction destroyed, in order
  fault      \* the error that stopped the program

vars == <<slots, operands, dead, fault>>

Val(tag, name, id, n, parts) ==
  [tag |-> tag, name |-> name, id |-> id, n |-> n, parts |-> parts]
NoneValue == Val("none", "", 0, 0, <<>>)
Moved == Val("moved", "", 0, 0, <<>>)
Struct(name, id, n, fields) == Val("struct", name, id, n, fields)
Collection(kind, items) == Val(kind, "", 0, 0, items)
Entry(key, value) == Collection("entry", <<key, value>>)
Variant(index, payload) == Val("variant", "", 0, index, <<payload>>)

RECURSIVE NodesIn(_), Objects(_), Identical(_, _)
NodesIn(v) ==
  FoldLeft(LAMBDA n, part : n + NodesIn(part),
           IF v.tag \in {"none", "moved", "entry"} THEN 0 ELSE 1, v.parts)

(* The objects a value is made of.                                         *)
Objects(v) ==
  (IF v.id = 0 THEN {} ELSE {v.id}) \union UNION {Objects(v.parts[i]) : i \in DOMAIN v.parts}

(* PartialEq for Value, of the values that can be elements and keys here.  *)
Identical(a, b) ==
  /\ a.tag = b.tag /\ a.name = b.name /\ a.n = b.n
  /\ Len(a.parts) = Len(b.parts)
  /\ \A i \in DOMAIN a.parts : Identical(a.parts[i], b.parts[i])

(* values_equal knows no structs: comparing them is an error.              *)
RECURSIVE values_equal(_, _)
values_equal(a, b) ==
  IF a.tag = "variant" /\ b.tag = "variant"
  THEN IF a.n # b.n THEN "differ" ELSE values_equal(a.parts[1], b.parts[1])
  ELSE IF a.tag = "tuple" /\ b.tag = "tuple"
       THEN IF /\ Len(a.parts) = Len(b.parts)
               /\ \A i \in DOMAIN a.parts : values_equal(a.parts[i], b.parts[i]) = "equal"
            THEN "equal" ELSE "differ"
       ELSE "error"
SameKey(candidate, key) ==
  LET verdict == values_equal(candidate, key)
  IN  IF verdict = "error" THEN Identical(candidate, key) ELSE verdict = "equal"

-----------------------------------------------------------------------------
(* Destruction and copying.                                                *)

Linear(v) == v.tag = "struct" /\ v.name \in ExplicitDestroy
Holed(v) == Moved \in Range(v.parts)

(* Mutant: fields are destroyed in declaration order. *)
RECURSIVE drop_value_forward(_)
drop_value_forward(v) ==
  LET parts == FlattenSeq([i \in DOMAIN v.parts |-> drop_value_forward(v.parts[i])])
  IN  IF Linear(v) /\ ~Holed(v) THEN <<>>
      ELSE IF v.tag = "struct" /\ v.name \in HasDel THEN <<v.id>> \o parts
           ELSE parts

(* The objects that dropping a value destroys, in order.                   *)
RECURSIVE drop_value(_)
drop_value(v) ==
  LET parts == FlattenSeq([i \in DOMAIN v.parts |-> drop_value(Reverse(v.parts)[i])])
  IN  IF Linear(v) /\ ~Holed(v) THEN <<>>
      ELSE IF v.tag = "struct" /\ v.name \in HasDel THEN <<v.id>> \o parts
           ELSE parts

(* A linear value is dropped only as the rest of a partial move.           *)
RECURSIVE Deletable(_)
Deletable(v) ==
  /\ Linear(v) => Holed(v)
  /\ \A i \in DOMAIN v.parts : Deletable(v.parts[i])
Whole(v) == v.tag \notin {"none", "moved"} /\ ~Holed(v)

(* Mutant: a copy is the bits of the original. *)
clone_value_bits(v, free) == [value |-> v, free |-> free]

(* A copy and the identities that are left: `__copyinit__` constructs a    *)
(* new object, other values are copied part by part.                       *)
RECURSIVE clone_value(_, _)
clone_value(v, free) ==
  IF v.name \in HasCopyinit THEN [value |-> [v EXCEPT !.id = Head(free)], free |-> Tail(free)]
  ELSE LET Part(done, part) ==
             LET copy == clone_value(part, done.free)
             IN  [parts |-> Append(done.parts, copy.value), free |-> copy.free]
           all == FoldLeft(Part, [parts |-> <<>>, free |-> free], v.parts)
       IN  [value |-> [v EXCEPT !.parts = all.parts], free |-> all.free]
RECURSIVE Copyable(_)
Copyable(v) ==
  /\ v.name \in HasDel \union ExplicitDestroy => v.name \in HasCopyinit
  /\ \A i \in DOMAIN v.parts : Copyable(v.parts[i])

-----------------------------------------------------------------------------
(* Keyed insertion.  A set keeps the first of two equal elements, a        *)
(* dictionary the first key and the last value: what is not kept dies.     *)

Insertion(items) == [items |-> items, dies |-> <<>>]
InsertElement(into, item) ==
  IF \E i \in DOMAIN into.items : SameKey(into.items[i], item)
  THEN [into EXCEPT !.dies = @ \o drop_value(item)]
  ELSE [into EXCEPT !.items = Append(@, item)]
(* Mutant: the key of an entry that exists is forgotten. *)
InsertEntryForgetting(into, entry) ==
  LET key == entry.parts[1]
      at == {i \in DOMAIN into.items : SameKey(into.items[i].parts[1], key)}
  IN  IF at = {} THEN [into EXCEPT !.items = Append(@, entry)]
      ELSE [items |-> [into.items EXCEPT ![Min(at)].parts[2] = entry.parts[2]],
            dies |-> into.dies \o drop_value(into.items[Min(at)].parts[2])]
InsertEntry(into, entry) ==
  LET key == entry.parts[1]
      at == {i \in DOMAIN into.items : SameKey(into.items[i].parts[1], key)}
  IN  IF at = {} THEN [into EXCEPT !.items = Append(@, entry)]
      ELSE [items |-> [into.items EXCEPT ![Min(at)].parts[2] = entry.parts[2]],
            dies |-> into.dies \o drop_value(into.items[Min(at)].parts[2]) \o drop_value(key)]

Entries(values) == [i \in 1 .. Len(values) \div 2 |-> Entry(values[2 * i - 1], values[2 * i])]
MakeSet(values) == FoldLeft(InsertElement, Insertion(<<>>), values)
MakeDict(values) == FoldLeft(InsertEntry, Insertion(<<>>), Entries(values))

-----------------------------------------------------------------------------
(* Instructions.  Each takes its operands from the registers written last. *)

HeldValues == operands \o [i \in 1 .. Cardinality(Vars) |-> slots[SetToSeq(Vars)[i]]]
Held == UNION {Objects(HeldValues[i]) : i \in DOMAIN HeldValues}
Unused == SetToSortSeq((1 .. MaxObjects) \ Held, <)

Running == fault = ""
Has(k) == Running /\ Len(operands) >= k
Operand == Last(operands)
Top(k) == SubSeq(operands, Len(operands) - k + 1, Len(operands))
Below(k) == SubSeq(operands, 1, Len(operands) - k)
Pops(k) == operands' = Below(k)
Yields(k, v) == operands' = Append(Below(k), v)
Holds(x, v) == slots' = [slots EXCEPT ![x] = v]
HoldsParts(x, parts) == slots' = [slots EXCEPT ![x].parts = parts]
Destroys(objects) == dead' = objects /\ UNCHANGED fault
Spares == Destroys(<<>>)
Fails(what) == fault' = what /\ dead' = <<>> /\ UNCHANGED <<slots, operands>>

(* A fieldwise constructor, or an `__init__` that stores its arguments.    *)
Construct(name) ==
  LET owned == name \in HasDel
  IN  /\ Has(Arity[name])
      /\ owned => Unused # <<>>
      /\ \E n \in IF Arity[name] = 0 THEN Keys ELSE {0} :
           Yields(Arity[name], Struct(name, IF owned THEN Head(Unused) ELSE 0, n, Top(Arity[name])))
      /\ Spares /\ UNCHANGED slots

(* UseVar of a transfer `x^` leaves a tombstone, of any other read copies. *)
MoveVar(x) ==
  Running /\ Whole(slots[x]) /\ Yields(0, slots[x]) /\ Holds(x, Moved) /\ Spares
CopyVar(x) ==
  /\ Running /\ Whole(slots[x]) /\ Copyable(slots[x])
  /\ Cardinality(Objects(slots[x])) <= Len(Unused)
  /\ Yields(0, clone_value(slots[x], Unused).value) /\ Spares /\ UNCHANGED slots
DefVar(x) ==
  /\ Has(1) /\ slots[x] \in {NoneValue, Moved}
  /\ Holds(x, Operand) /\ Pops(1) /\ Spares

MakeSequence(kind, k) ==
  Has(k) /\ Yields(k, Collection(kind, Top(k))) /\ Spares /\ UNCHANGED slots
MakeKeyed(kind, k) ==
  /\ Has(k) /\ \A i \in 1 .. k : Deletable(Top(k)[i])
  /\ LET made == IF kind = "set" THEN MakeSet(Top(k)) ELSE MakeDict(Top(k))
     IN  Yields(k, Collection(kind, made.items)) /\ Destroys(made.dies)
  /\ UNCHANGED slots
(* The constructor call `Set(...)` compares without the fallback.          *)
CallSet(k) ==
  /\ Has(k) /\ \A i \in 1 .. k : Deletable(Top(k)[i])
  /\ IF \E i, j \in 1 .. k : i < j /\ values_equal(Top(k)[i], Top(k)[j]) = "error"
     THEN Fails("cannot compare")
     ELSE Yields(k, Collection("set", Top(k))) /\ Spares /\ UNCHANGED slots

(* The leaf of a comprehension.                                            *)
CollectionInsert(x) ==
  LET k == IF slots[x].tag = "dict" THEN 2 ELSE 1
      items == Insertion(slots[x].parts)
      made == CASE slots[x].tag = "list" -> [items EXCEPT !.items = Append(@, Operand)]
                [] slots[x].tag = "set"  -> InsertElement(items, Operand)
                [] slots[x].tag = "dict" -> InsertEntry(items, Entries(Top(2))[1])
  IN  /\ slots[x].tag \in {"list", "set", "dict"} /\ Has(k)
      /\ \A i \in 1 .. k : Deletable(Top(k)[i])
      /\ HoldsParts(x, made.items) /\ Destroys(made.dies) /\ Pops(k)

(* The methods of a list that change it, and `add` of a set.               *)
ListGains(x) ==
  LET items == slots[x].parts
  IN  /\ slots[x].tag = "list" /\ Has(1)
      /\ \/ \E at \in 1 .. Len(items) + 1 : HoldsParts(x, InsertAt(items, at, Operand))
         \/ Operand.tag = "list" /\ HoldsParts(x, items \o Operand.parts)
      /\ Pops(1) /\ Spares
ListPop(x) ==
  LET items == slots[x].parts
  IN  /\ slots[x].tag = "list" /\ Running
      /\ IF items = <<>> THEN Fails("pop() from an empty list")
         ELSE /\ \E at \in DOMAIN items : HoldsParts(x, RemoveAt(items, at)) /\ Yields(0, items[at])
              /\ Spares
ListRearranged(x) ==
  /\ slots[x].tag = "list" /\ Running
  /\ HoldsParts(x, Reverse(slots[x].parts)) /\ Spares /\ UNCHANGED operands
ListClear(x) ==
  /\ slots[x].tag = "list" /\ Running
  /\ HoldsParts(x, <<>>) /\ Spares /\ UNCHANGED operands
SetAdd(x) ==
  /\ slots[x].tag = "set" /\ Has(1)
  /\ HoldsParts(x, IF \E i \in DOMAIN slots[x].parts : Identical(slots[x].parts[i], Operand)
                   THEN slots[x].parts ELSE Append(slots[x].parts, Operand))
  /\ Pops(1) /\ Spares

(* Variants of two alternatives; a checked operation asks for the active.  *)
Alternatives == 1 .. 2
MakeVariant(index) ==
  Has(1) /\ Yields(1, Variant(index, Operand)) /\ Spares /\ UNCHANGED slots
VariantTake(index, checked) ==
  /\ Has(1) /\ Operand.tag = "variant"
  /\ IF checked /\ Operand.n # index THEN Fails("Variant holds another")
     ELSE Yields(1, Operand.parts[1]) /\ Spares /\ UNCHANGED slots
VariantSet(x, index) ==
  /\ slots[x].tag = "variant" /\ Deletable(slots[x]) /\ Has(1)
  /\ Holds(x, Variant(index, Operand)) /\ Destroys(drop_value(slots[x]))
  /\ Pops(1)
VariantReplace(x, input, output, checked) ==
  /\ slots[x].tag = "variant" /\ Has(1)
  /\ IF checked /\ slots[x].n # output THEN Fails("Variant holds another")
     ELSE /\ Holds(x, Variant(input, Operand)) /\ Yields(1, slots[x].parts[1])
          /\ Spares

(* A partial move `x.f^`, and the store of a field, which the code lets    *)
(* overwrite what it held.                                                 *)
MovePlace(x, f) ==
  /\ Running /\ slots[x].tag = "struct"
  /\ f \in DOMAIN slots[x].parts /\ slots[x].parts[f] # Moved
  /\ Yields(0, slots[x].parts[f]) /\ HoldsParts(x, [slots[x].parts EXCEPT ![f] = Moved])
  /\ Spares
StoreField(x, f) ==
  /\ slots[x].tag = "struct" /\ f \in DOMAIN slots[x].parts /\ Has(1)
  /\ HoldsParts(x, [slots[x].parts EXCEPT ![f] = Operand])
  /\ Pops(1) /\ Spares

(* A consuming loop takes the elements off its iterator one by one; over a *)
(* dictionary it is given the keys.                                        *)
IterNext(x) ==
  LET items == slots[x].parts
  IN  /\ Running /\ slots[x].tag \in {"list", "set", "dict"} /\ items # <<>>
      /\ HoldsParts(x, Tail(items))
      /\ IF slots[x].tag = "dict"
         THEN Yields(0, items[1].parts[1]) /\ Destroys(drop_value(items[1].parts[2]))
         ELSE Yields(0, items[1]) /\ Spares
     

DropVar(x) ==
  /\ Running /\ slots[x] \notin {NoneValue, Moved} /\ Deletable(slots[x])
  /\ Holds(x, NoneValue) /\ Destroys(drop_value(slots[x])) /\ UNCHANGED operands
(* After the named destructor of a linear value has run.                   *)
ConsumeVar(x) ==
  LET fields == slots[x].parts
  IN  /\ Running /\ Linear(slots[x]) /\ Whole(slots[x])
      /\ \A f \in DOMAIN fields : Deletable(fields[f])
      /\ Holds(x, Moved)
      /\ Destroys(FlattenSeq([f \in DOMAIN fields |-> drop_value(Reverse(fields)[f])]))
      /\ UNCHANGED operands

-----------------------------------------------------------------------------
Init ==
  /\ slots = [x \in Vars |-> NoneValue] /\ operands = <<>>
  /\ dead = <<>> /\ fault = ""

OnOperands ==
  \/ \E name \in DOMAIN Arity : Construct(name)
  \/ \E k \in 0 .. 2 :
       MakeSequence("list", k) \/ MakeKeyed("set", k) \/ MakeKeyed("dict", 2 * k)
  \/ MakeSequence("tuple", 2) \/ \E k \in 1 .. 2 : CallSet(k)
  \/ \E index \in Alternatives :
       MakeVariant(index) \/ \E checked \in BOOLEAN : VariantTake(index, checked)
OnVariable(x) ==
  \/ MoveVar(x) \/ CopyVar(x) \/ DefVar(x) \/ DropVar(x) \/ ConsumeVar(x)
  \/ CollectionInsert(x) \/ SetAdd(x) \/ IterNext(x)
  \/ ListGains(x) \/ ListPop(x) \/ ListRearranged(x) \/ ListClear(x)
  \/ \E input \in Alternatives :
       \/ VariantSet(x, input)
       \/ \E output \in Alternatives, checked \in BOOLEAN :
            VariantReplace(x, input, output, checked)
  \/ \E f \in 1 .. 2 : MovePlace(x, f) \/ StoreField(x, f)

(* Bound: collections and variants of structs, sets of variants too, and   *)
(* fields without parts.                                                   *)
Shallow(v) ==
  \A i \in DOMAIN v.parts :
    LET part == v.parts[i]
    IN  \/ part = Moved
        \/ part.tag = "struct" /\ (v.tag # "struct" \/ part.parts = <<>>)
        \/ part.tag = "variant" /\ v.tag = "set"
        \/ part.tag = "entry" /\ \A k \in 1 .. 2 : part.parts[k].tag = "struct"
Bounded ==
  /\ Len(operands) + Cardinality({x \in Vars : slots[x] \notin {NoneValue, Moved}}) <= MaxValues
  /\ \A i \in DOMAIN HeldValues : Shallow(HeldValues[i])
  /\ FoldLeft(LAMBDA n, v : n + NodesIn(v), 0, HeldValues) <= MaxNodes
Next == (OnOperands \/ \E x \in Vars : OnVariable(x)) /\ Bounded'

Spec == Init /\ [][Next]_vars
=============================================================================
