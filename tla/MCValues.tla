------------------------------ MODULE MCValues ------------------------------
(***************************************************************************)
(* A program of three structs: C has a destructor, a copy constructor and  *)
(* no fields, P has a destructor and two fields, and L has two fields and  *)
(* is destroyed explicitly.                                                *)
(***************************************************************************)
EXTENDS Values, TLC

MCArity == [C |-> 0, P |-> 2, L |-> 2]
Symmetric == Permutations(Keys)

RECURSIVE Within(_), Owners(_, _)
Within(v) == {v} \union UNION {Within(v.parts[i]) : i \in DOMAIN v.parts}
Owners(v, object) ==
  FoldLeft(LAMBDA n, part : n + Owners(part, object), IF v.id = object THEN 1 ELSE 0, v.parts)

(* Neither held any more nor destroyed: no destructor will ever run.       *)
Loses(objects) == Held \ (Held' \union Range(dead')) = objects

DieAfter(one, other) ==
  \A i, m \in DOMAIN dead' : dead'[i] \in one /\ dead'[m] \in other => m < i

-----------------------------------------------------------------------------
(* Every object has one owner at a time, and is destroyed once: after any  *)
(* moves, copies, insertions, takes and partial moves no object is in two  *)
(* values, in a value that is still held and a destroyed one, or destroyed *)
(* twice, although the code copies registers and tombstones by hand.       *)
OwnedOnce ==
  /\ \A object \in Held :
       FoldLeft(LAMBDA n, v : n + Owners(v, object), 0, HeldValues) = 1
  /\ IsInjective(dead) /\ Held \intersect Range(dead) = {}

(* No instruction drops an object on the floor: what leaves its owner is   *)
(* held elsewhere or destroyed at once.  The exceptions are the elements   *)
(* of a list that is cleared, an element added to a set that has it, and   *)
(* a field that is overwritten, which are exactly what is lost then.       *)
TransfersLoseNothing ==
  [][/\ Range(dead') \subseteq Held
     /\ \/ Loses({})
        \/ \E x \in Vars :
             \/ ListClear(x) /\ Loses(Objects(slots[x]))
             \/ SetAdd(x) /\ Loses(Objects(Operand))
             \/ \E f \in 1 .. 2 : StoreField(x, f) /\ Loses(Objects(slots[x].parts[f]))]_vars

(* What an instruction destroys it destroys whole and from the outside in: *)
(* a struct's `__del__` runs before those of its fields, all of which die  *)
(* with it, later fields and elements before earlier ones.                 *)
DestructionOrder ==
  [][dead' # <<>> =>
       \A i \in DOMAIN HeldValues : \A v \in Within(HeldValues[i]) :
         /\ v.id \in Range(dead') =>
              Objects(v) \subseteq Range(dead') /\ DieAfter(Objects(v) \ {v.id}, {v.id})
         /\ \A a, b \in DOMAIN v.parts :
              a < b => DieAfter(Objects(v.parts[a]), Objects(v.parts[b]))]_vars
=============================================================================
