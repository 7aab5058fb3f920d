--------------------------- MODULE MCMoveAnalysis ---------------------------
(***************************************************************************)
(* Small instances of MoveAnalysis: every assignment of instructions to    *)
(* the slots of a few control-flow shapes, numbered as HIR lowering        *)
(* numbers blocks, over one variable with the fields a, b and a.c.         *)
(*                                                                         *)
(* The place trees of PlaceTree evolve beside the analysis of the simplest *)
(* function, before its first step.                                        *)
(***************************************************************************)
EXTENDS MoveReference, PlacePaths

CONSTANT x

MCVars == {x}
Root == <<>>
A == <<"a">>
B == <<"b">>
AC == <<"a", "c">>
AI == <<"a", "[]">>
MCKey == {"a", "b", "c"}
MCPlaces == {Root, A, B, AC}
MCPaths == {Root, A, B, AC, AI}
MCUnder == {pq \in MCPaths \X MCPaths : IsPrefix(pq[1], pq[2])}

I(op, path) == [op |-> op, var |-> x, path |-> path, region |-> FALSE]
Nop == I("nop", Root)
InTry(i) == [i EXCEPT !.region = TRUE]

(* A shape is a successor function; its slots receive instructions. *)
Fill(succ, slots, instrs) ==
  {[size |-> Cardinality(DOMAIN succ),
    succ |-> succ,
    code |-> [n \in DOMAIN succ |-> IF n \in slots THEN c[n] ELSE Nop]]
   : c \in [slots -> instrs]}

(* if c: 2 else: 3; join is block 1. *)
Diamond == [n \in 0..3 |->
  CASE n = 0 -> {2, 3} [] n \in {2, 3} -> {1} [] OTHER -> {}]
(* while c: 2, with an early exit from the body; exit is block 3. *)
Loop == [n \in 0..4 |->
  CASE n = 0 -> {1} [] n = 1 -> {2, 3} [] n = 2 -> {4, 3}
    [] n = 4 -> {1} [] OTHER -> {}]
(* while c: (if d: (5; while e: 8; 9)): the join of the if is block 4. *)
Nested == [n \in 0..9 |->
  CASE n = 0 -> {1} [] n = 1 -> {2, 3} [] n = 2 -> {5, 6} [] n = 4 -> {1}
    [] n = 5 -> {7} [] n = 6 -> {4} [] n = 7 -> {8, 9} [] n = 8 -> {7}
    [] n = 9 -> {4} [] OTHER -> {}]
(* if c: (2; return), then unreachable 4 that flows into the join. *)
Dead == [n \in 0..4 |->
  CASE n = 0 -> {2, 3} [] n = 3 -> {1} [] n = 4 -> {1} [] OTHER -> {}]

FieldInstrs ==
  {Nop, I("def", Root), I("use", Root), I("move", Root), I("load", A),
   I("take", A), I("store", A), I("load", B), I("take", AC), I("store", AC),
   I("storeIndex", AI)}
WholeInstrs == {Nop, I("def", Root), I("use", Root), I("move", Root)}

(* A move in a try region or into a closure, then a use. *)
HiddenFunctions ==
  Fill(Diamond, 0..2, {Nop, I("use", Root), I("def", Root), I("capture", Root),
                       InTry(I("move", Root))})
(* Elements that are moved, where ElementsStay does not hold. *)
ElementFunctions ==
  Fill(Diamond, 0..3, {Nop, I("def", Root), I("load", A), I("take", AI),
                       I("storeIndex", AI)})
FieldFunctions ==
  Fill(Diamond, 0..3, FieldInstrs) \union Fill(Loop, {0, 2, 3, 4}, FieldInstrs)
  \union Fill(Dead, {0, 1, 4}, WholeInstrs) \union HiddenFunctions
  \union ElementFunctions
NestedFunctions ==
  Fill(Nested, {2, 5, 8, 9}, WholeInstrs \union {I("take", A), I("store", A)})
(* The sweeps over some of these go on for ever. *)
LoopingFunctions ==
  Fill(Nested, {5, 8, 9}, {Nop, I("def", Root), I("move", Root), I("store", A)})
Simplest == CHOOSE f \in Fill([n \in {0} |-> {}], {}, {}) : TRUE
MCFunctions == FieldFunctions \union NestedFunctions \union {Simplest}

-----------------------------------------------------------------------------
VARIABLES tree, other, map, mapOther
treeVars == <<tree, other, map, mapOther>>
T == INSTANCE PlaceTree

Analysis == Next /\ UNCHANGED treeVars
Trees == fn = Simplest /\ phase = "fix" /\ cursor = 0 /\ T!Next /\ UNCHANGED vars
MCInit == Init /\ T!Init
MCSpec ==
  /\ MCInit
  /\ [][Analysis \/ Trees]_<<vars, treeVars>>
  /\ WF_vars((Sweep \/ Report) /\ UNCHANGED treeVars)

(* The sparse tree stands for the total function: no check of the analysis  *)
(* can tell them apart (`read` and `base_at`, src/src/analysis/mod.rs).     *)
TreeDenotesMap == T!TreeDenotesMap

-----------------------------------------------------------------------------
(* What a store does depends on whether the place around it is Moved: then  *)
(* nothing, though it has an effect where that is MaybeMoved.               *)
StoresIntoMoved(f) ==
  \E n, m \in DOMAIN f.code :
    /\ f.code[n].op = "store" /\ f.code[m].op \in {"move", "take"}
    /\ f.code[m].path \in Above(f.code[n].path)

(* Some cycle has two edges back, so that one sweep does not get around it. *)
After(f, n) ==
  FoldLeft(LAMBDA nodes, i : nodes \union UNION {f.succ[m] : m \in nodes},
           {n}, [i \in 1 .. f.size |-> i])
Slow(f) ==
  LET back == {mn \in (DOMAIN f.succ) \X (DOMAIN f.succ) :
                 mn[2] \in f.succ[mn[1]] /\ mn[2] <= mn[1]}
  IN  \E d, e \in back : d # e /\ d[1] \in After(f, e[2]) /\ e[1] \in After(f, d[2])
UnsteadyFunctions == {f \in MCFunctions : StoresIntoMoved(f) /\ Slow(f)}

(* "Iterate to a fixpoint" (src/src/analysis/mod.rs:1277): the sweeps end,  *)
(* but for functions that both store into a place that they move and have a *)
(* cycle that takes more than one sweep, where two different facts can      *)
(* chase one another around the cycle for ever.                             *)
SweepsEndUnlessUnsteady == fn \notin UnsteadyFunctions => FixpointReached
=============================================================================
