----------------------------- MODULE PlaceState -----------------------------
(***************************************************************************)
(* The three-point ownership lattice of the move analysis and the          *)
(* operations of its place trees, src/src/analysis/mod.rs.                 *)
(*                                                                         *)
(* The code keeps a `Node { base, children }` per variable in which an     *)
(* absent child has its parent's `base`.  Here a node is the total         *)
(* function that the tree denotes: it gives every place path its own       *)
(* state.  Module PlaceTree holds the trees themselves and shows that the  *)
(* functions below are what they compute.                                  *)
(*                                                                         *)
(* A path is an opaque value; Under contains <<p, q>> when q is p or a     *)
(* place inside p.                                                         *)
(***************************************************************************)
CONSTANTS Paths, Whole, Under

ASSUME PathsAssumption ==
  /\ Whole \in Paths
  /\ Under \subseteq Paths \X Paths
  /\ \A p \in Paths : <<p, p>> \in Under /\ <<Whole, p>> \in Under
  /\ \A p, q \in Paths :
       <<p, q>> \in Under /\ <<q, p>> \in Under => p = q
  /\ \A p, q, r \in Paths :
       <<p, q>> \in Under /\ <<q, r>> \in Under => <<p, r>> \in Under
  /\ \A p, q, r \in Paths :
       <<p, r>> \in Under /\ <<q, r>> \in Under
         => <<p, q>> \in Under \/ <<q, p>> \in Under
  /\ \A p \in Paths \ {Whole} : \E q \in Paths \ {p} :
       <<q, p>> \in Under /\ \A r \in Paths \ {p} : <<r, p>> \in Under => <<r, q>> \in Under

Own == {"Owned", "Moved", "MaybeMoved"}

Node == [Paths -> Own]

Inside(p) == {q \in Paths : <<p, q>> \in Under}
Above(p) == {q \in Paths : <<q, p>> \in Under /\ q # p}

(* `Node::owned`: a fully initialised value. *)
owned == [p \in Paths |-> "Owned"]

(* `join`, folded over a non-empty set: agreement is kept, any disagreement *)
(* becomes MaybeMoved.                                                      *)
join(states) ==
  IF states \subseteq {"Owned"} THEN "Owned"
  ELSE IF states \subseteq {"Moved"} THEN "Moved"
  ELSE "MaybeMoved"

join_node(nodes) == [p \in Paths |-> join({n[p] : n \in nodes})]

(* `severity` as a maximum: Moved, then MaybeMoved, then Owned. *)
worst(states) ==
  IF "Moved" \in states THEN "Moved"
  ELSE IF "MaybeMoved" \in states THEN "MaybeMoved"
  ELSE "Owned"

(* `whole`: a read of the place sees every place inside it. *)
whole(n, p) == worst({n[q] : q \in Inside(p)})

(* The state of the outermost of `places`, none of which is Owned and      *)
(* which lie on one path.                                                  *)
outermost(n, places) ==
  IF \E q \in places : n[q] = "Moved" /\ \A r \in places : <<q, r>> \in Under
  THEN "Moved" ELSE "MaybeMoved"

Tainted(n, places) == {q \in places : n[q] # "Owned"}

(* Mutant: reading a field reads the whole variable. *)
read_variable(n, p) == whole(n, Whole)

(* `read`: an enclosing place that is not Owned decides, outermost first;  *)
(* otherwise the whole subtree does.                                       *)
read(n, p) ==
  IF Tainted(n, Above(p)) # {}
  THEN outermost(n, Tainted(n, Above(p)))
  ELSE whole(n, p)

(* `base_at` of a place, given the places on the way to it: moves of       *)
(* siblings and of places inside it do not matter.                         *)
base_at(n, chain) ==
  IF Tainted(n, chain) # {} THEN outermost(n, Tainted(n, chain)) ELSE "Owned"

(* `do_move`: the place and everything in it is transferred. *)
do_move(n, p) == [q \in Paths |-> IF q \in Inside(p) THEN "Moved" ELSE n[q]]

(* `do_def`: reinitialises the place, unless an enclosing one is Moved. *)
do_def(n, p) ==
  IF \E q \in Above(p) : n[q] = "Moved"
  THEN n
  ELSE [q \in Paths |-> IF q \in Inside(p) THEN "Owned" ELSE n[q]]
=============================================================================
