------------------------------ MODULE PlaceTree ------------------------------
(***************************************************************************)
(* The place trees of the move analysis as the code stores them.  A `Node` *)
(* has a base state and refines only those children that some operation    *)
(* has entered.  Here a tree is the function from the places that have a   *)
(* node, with a place each place around it, to their bases; an operation   *)
(* that recurs along a path visits the nodes on the way to its place.      *)
(*                                                                         *)
(* Two trees evolve as the states of two converging paths do; beside each  *)
(* runs the total function of module PlaceState that it is meant to denote.*)
(***************************************************************************)
EXTENDS Integers, PlacePaths

M == INSTANCE PlaceState WITH Paths <- Places, Whole <- <<>>, Under <- Prefixed

VARIABLES
  tree,   \* the tree of the path being followed
  other,  \* the tree that arrives at the next merge
  map,    \* what `tree` should denote
  mapOther

vars == <<tree, other, map, mapOther>>

Leaf(base) == [p \in {<<>>} |-> base]

(* The nodes that a walk along path p meets, and where it meets them. *)
OnWay(t, p) == {q \in DOMAIN t : IsPrefix(q, p)}
Outermost(nodes) == CHOOSE q \in nodes : \A r \in nodes : IsPrefix(q, r)
Innermost(nodes) == CHOOSE q \in nodes : \A r \in nodes : IsPrefix(r, q)

(* The base of a node; one that is missing inherits that of the nearest    *)
(* node around it, with which it is also created.                          *)
base(t, p) == t[Innermost(OnWay(t, p))]

(* Mutant: a possible move outweighs a certain one. *)
severity_swapped(o) ==
  CASE o = "Owned" -> 0 [] o = "MaybeMoved" -> 2 [] OTHER -> 1

severity(o) == CASE o = "Owned" -> 0 [] o = "MaybeMoved" -> 1 [] OTHER -> 2

whole(t, p) ==
  LET states == {t[q] : q \in {q \in DOMAIN t : IsPrefix(p, q)}}
  IN  CHOOSE o \in states : \A s \in states : severity(s) <= severity(o)

Refusing(t, nodes) == {q \in nodes : t[q] # "Owned"}

read(t, p) ==
  LET refusing == Refusing(t, OnWay(t, p) \ {p})
  IN  IF refusing # {} THEN t[Outermost(refusing)]
      ELSE IF p \in DOMAIN t THEN whole(t, p) ELSE "Owned"

base_at(t, p) ==
  LET refusing == Refusing(t, OnWay(t, p))
  IN  IF refusing # {} THEN t[Outermost(refusing)] ELSE "Owned"

(* The nodes on the way to p exist afterwards, those inside p are gone. *)
Replace(t, p, own) ==
  [q \in {q \in DOMAIN t : ~IsPrefix(p, q)} \union Prefixes(p) |->
     IF q = p THEN own ELSE base(t, q)]

do_move(t, p) == Replace(t, p, "Moved")

(* The walk ends at a node that is Moved.  A node that it creates on the   *)
(* way has the base of the last one, so that it meets none behind those.   *)
do_def(t, p) ==
  IF \E q \in OnWay(t, p) \ {p} : t[q] = "Moved" THEN t ELSE Replace(t, p, "Owned")

join(a, b) == IF a = b THEN a ELSE "MaybeMoved"

join_node(a, b) ==
  [q \in DOMAIN a \union DOMAIN b |-> join(base(a, q), base(b, q))]

-----------------------------------------------------------------------------
Init ==
  /\ tree = Leaf("Owned") /\ other = Leaf("Owned")
  /\ map = M!owned /\ mapOther = M!owned

Move(p) ==
  /\ tree' = do_move(tree, p) /\ map' = M!do_move(map, p)
  /\ UNCHANGED <<other, mapOther>>

Define(p) ==
  /\ tree' = do_def(tree, p) /\ map' = M!do_def(map, p)
  /\ UNCHANGED <<other, mapOther>>

(* The path reaches a branch: the current state flows both ways. *)
Fork == other' = tree /\ mapOther' = map /\ UNCHANGED <<tree, map>>

(* Follow the other path. *)
Switch == tree' = other /\ other' = tree /\ map' = mapOther /\ mapOther' = map

(* The two paths merge. *)
Merge ==
  /\ tree' = join_node(tree, other) /\ map' = M!join_node({map, mapOther})
  /\ UNCHANGED <<other, mapOther>>

Next ==
  \/ \E p \in Places : Move(p) \/ Define(p)
  \/ Fork \/ Switch \/ Merge

Spec == Init /\ [][Next]_vars

-----------------------------------------------------------------------------
(* A read of any place of the tree finds what the function says: the       *)
(* missing children, the moved enclosing place and the moved inner place   *)
(* all count.                                                              *)
ReadsAgree == \A p \in Places : read(tree, p) = M!read(map, p)

(* So does the check of a write, which looks at the enclosing places only. *)
WritesAgree ==
  \A p \in Places :
    base_at(tree, p) = M!base_at(map, Prefixes(p))

(* The sparse tree stands for the total function: no check of the analysis  *)
(* can tell them apart.                                                     *)
TreeDenotesMap == ReadsAgree /\ WritesAgree
=============================================================================
