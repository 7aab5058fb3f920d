------------------------- MODULE MoveAnalysisProofs -------------------------
(***************************************************************************)
(* Proofs about MoveAnalysis for every function, every set of variables    *)
(* and every set of places.                                                *)
(***************************************************************************)
EXTENDS MoveReference, TLAPS

(* The places a slot's tombstones make unusable are none of them Owned in  *)
(* the analysis.                                                           *)
Covered(t, s) ==
  \A v \in Vars : \A q \in t[v] : \A p \in Inside(q) : s[v][p] # "Owned"

-----------------------------------------------------------------------------
(* The place operations return states.                                     *)
LEMMA NodeTypes ==
  /\ owned \in Node
  /\ \A n \in Node, p \in Paths : do_move(n, p) \in Node /\ do_def(n, p) \in Node
  /\ \A ns : join_node(ns) \in Node
BY DEF owned, Node, Own, do_move, do_def, join_node, join

(* So do the operations on the states of all variables. *)
LEMMA StateTypes ==
  /\ entry \in State
  /\ \A ss : join_states(ss) \in State
  /\ \A s \in State, i \in Instrs : apply_effects(s, i) \in State
<1>1. entry \in State /\ \A ss : join_states(ss) \in State
  BY NodeTypes DEF entry, State, join_states
<1>2. ASSUME NEW s \in State, NEW i \in Instrs
      PROVE  apply_effects(s, i) \in State
  <2>1. i.var \in Vars /\ i.path \in Paths /\ s[i.var] \in Node
    BY <1>2 DEF Instrs, State
  <2>2. \A n \in Node : [s EXCEPT ![i.var] = n] \in State
    BY <2>1 DEF State
  <2>3. Whole \in Paths
    BY PathsAssumption
  <2> QED
    BY <1>2, <2>1, <2>2, <2>3, NodeTypes DEF apply_effects
<1> QED
  BY <1>1, <1>2

(* A read that finds Owned has every enclosing and every inner place Owned. *)
LEMMA ReadOwned ==
  ASSUME NEW n \in Node, NEW p \in Paths, read(n, p) = "Owned"
  PROVE  \A q \in Above(p) \union Inside(p) : n[q] = "Owned"
<1>1. Tainted(n, Above(p)) = {}
  BY DEF read, outermost
<1>2. whole(n, p) = "Owned"
  BY <1>1 DEF read
<1>3. \A q \in Inside(p) : n[q] \in Own
  BY DEF Inside, Node
<1>4. \A q \in Inside(p) : n[q] = "Owned"
  BY <1>2, <1>3 DEF whole, worst, Own
<1> QED
  BY <1>1, <1>4 DEF Tainted

(* A write check that finds Owned has every place of the chain Owned. *)
LEMMA BaseOwned ==
  ASSUME NEW n, NEW chain, base_at(n, chain) = "Owned"
  PROVE  \A q \in chain : n[q] = "Owned"
<1>1. Tainted(n, chain) = {}
  BY DEF base_at, outermost
<1> QED
  BY <1>1 DEF Tainted

(* A place that is not Owned on one incoming edge is not Owned after the   *)
(* join.                                                                   *)
LEMMA JoinCovers ==
  ASSUME NEW ss, NEW s \in ss, NEW t \in Tombs, Covered(t, s)
  PROVE  Covered(t, join_states(ss))
<1> SUFFICES ASSUME NEW v \in Vars, NEW q \in t[v], NEW p \in Inside(q)
             PROVE  join_states(ss)[v][p] # "Owned"
  BY DEF Covered
<1>1. p \in Paths
  BY DEF Inside
<1>2. s[v][p] # "Owned"
  BY DEF Covered
<1>3. join_states(ss)[v][p] = join({nn[p] : nn \in {r[v] : r \in ss}})
  BY <1>1 DEF join_states, join_node
<1>4. s[v][p] \in {nn[p] : nn \in {r[v] : r \in ss}}
  OBVIOUS
<1> QED
  BY <1>2, <1>3, <1>4 DEF join

(* An instruction leaves tombstones on places only. *)
LEMMA ExecType ==
  ASSUME NEW t \in Tombs, NEW i \in Instrs
  PROVE  exec_instr(t, i) \in Tombs
<1>1. i.var \in Vars /\ i.path \in Paths /\ Whole \in Paths /\ t[i.var] \subseteq Paths
  BY PathsAssumption DEF Instrs, Tombs
<1>2. \A ts \in SUBSET Paths : [t EXCEPT ![i.var] = ts] \in Tombs
  BY <1>1 DEF Tombs
<1>3. /\ {} \in SUBSET Paths /\ {Whole} \in SUBSET Paths
      /\ t[i.var] \ Inside(i.path) \in SUBSET Paths
      /\ (t[i.var] \ Inside(i.path)) \union {i.path} \in SUBSET Paths
  BY <1>1
<1> QED
  BY <1>2, <1>3 DEF exec_instr

(* Where the analysis finds Owned, the machine touches no tombstone. *)
LEMMA TouchSound ==
  ASSUME NEW s \in State, NEW t \in Tombs, NEW i \in Instrs,
         ~i.region, TouchState(s, i) = "Owned", Covered(t, s)
  PROVE  ~Touches(t, i)
<1>1. i.var \in Vars /\ i.path \in Paths /\ s[i.var] \in Node
  BY DEF Instrs, State
<1>2. Whole \in Paths /\ \A p \in Paths : p \in Inside(p) /\ p \in Inside(Whole)
  BY PathsAssumption DEF Inside
<1>3. t[i.var] \subseteq Paths
  BY <1>1 DEF Tombs
<1>4. \A q \in t[i.var] : s[i.var][q] # "Owned"
  BY <1>1, <1>2, <1>3 DEF Covered
<1>5. CASE i.op \in {"use", "move"}
  <2>1. read(s[i.var], Whole) = "Owned"
    BY <1>5 DEF TouchState
  <2>2. \A q \in Inside(Whole) : s[i.var][q] = "Owned"
    BY <2>1, <1>1, <1>2, ReadOwned
  <2> QED
    BY <2>2, <1>2, <1>3, <1>4, <1>5 DEF Touches
<1>6. CASE i.op \in {"load", "take"}
  <2>1. read(s[i.var], i.path) = "Owned"
    BY <1>6 DEF TouchState
  <2>2. \A q \in Above(i.path) \union Inside(i.path) : s[i.var][q] = "Owned"
    BY <2>1, <1>1, ReadOwned
  <2> QED
    BY <2>2, <1>4, <1>6 DEF Touches
<1>7. CASE i.op \in {"store", "storeIndex"}
  <2>1. \E c : Above(i.path) \subseteq c /\ base_at(s[i.var], c) = "Owned"
    <3>1. CASE i.op = "store"
      BY <3>1 DEF TouchState
    <3>2. CASE i.op = "storeIndex"
      BY <3>2 DEF TouchState
    <3> QED
      BY <1>7, <3>1, <3>2
  <2>2. \A q \in Above(i.path) : s[i.var][q] = "Owned"
    BY <2>1, BaseOwned
  <2> QED
    BY <2>2, <1>4, <1>7 DEF Touches
<1> QED
  BY <1>5, <1>6, <1>7 DEF Touches

(* What the machine does to a slot the analysis does to its state: the new *)
(* tombstones are covered by the new facts.                                *)
LEMMA EffectSound ==
  ASSUME NEW s \in State, NEW t \in Tombs, NEW i \in Instrs,
         ~i.region, i.op # "capture",
         TouchState(s, i) = "Owned", Covered(t, s)
  PROVE  exec_instr(t, i) \in Tombs /\ Covered(exec_instr(t, i), apply_effects(s, i))
<1> DEFINE v == i.var
           p == i.path
           n == s[v]
<1>1. v \in Vars /\ p \in Paths /\ n \in Node /\ t[v] \subseteq Paths
  BY DEF Instrs, State, Tombs
<1>2. Whole \in Paths /\ \A r \in Paths : r \in Inside(r) /\ r \in Inside(Whole)
  BY PathsAssumption DEF Inside
(* A change of one slot that covers that slot keeps the whole covered. *)
<1>3. ASSUME NEW ts \in SUBSET Paths, NEW m \in Node,
             \A q \in ts : \A r \in Inside(q) : m[r] # "Owned"
      PROVE  /\ [t EXCEPT ![v] = ts] \in Tombs
             /\ Covered([t EXCEPT ![v] = ts], [s EXCEPT ![v] = m])
  BY <1>1, <1>3 DEF Covered, Tombs, State
<1>4. CASE i.op = "def"
  <2>1. exec_instr(t, i) = [t EXCEPT ![v] = {}]
    BY <1>4 DEF exec_instr
  <2>2. apply_effects(s, i) = [s EXCEPT ![v] = owned]
    BY <1>4 DEF apply_effects
  <2>3. /\ [t EXCEPT ![v] = {}] \in Tombs
        /\ Covered([t EXCEPT ![v] = {}], [s EXCEPT ![v] = owned])
    <3>1. {} \in SUBSET Paths /\ owned \in Node
      BY NodeTypes
    <3> QED
      BY <3>1, <1>3
  <2> QED
    BY <2>1, <2>2, <2>3
<1>5. CASE i.op = "move"
  <2>1. exec_instr(t, i) = [t EXCEPT ![v] = {Whole}]
    BY <1>5 DEF exec_instr
  <2>2. apply_effects(s, i) = [s EXCEPT ![v] = do_move(n, Whole)]
    BY <1>5 DEF apply_effects
  <2>3. \A r \in Inside(Whole) : do_move(n, Whole)[r] # "Owned"
    BY DEF do_move, Inside
  <2>4. {Whole} \in SUBSET Paths /\ do_move(n, Whole) \in Node
    BY <1>1, <1>2, NodeTypes
  <2>5. \A q \in {Whole} : \A r \in Inside(q) : do_move(n, Whole)[r] # "Owned"
    BY <2>3
  <2>6. /\ [t EXCEPT ![v] = {Whole}] \in Tombs
        /\ Covered([t EXCEPT ![v] = {Whole}], [s EXCEPT ![v] = do_move(n, Whole)])
    BY <2>4, <2>5, <1>3
  <2> QED
    BY <2>1, <2>2, <2>6
<1>6. CASE i.op = "take"
  <2> DEFINE ts == (t[v] \ Inside(p)) \union {p}
  <2>1. exec_instr(t, i) = [t EXCEPT ![v] = ts]
    BY <1>6, <1>1 DEF exec_instr, Tombs
  <2>2. apply_effects(s, i) = [s EXCEPT ![v] = do_move(n, p)]
    BY <1>6 DEF apply_effects
  <2>3. \A q \in ts : \A r \in Inside(q) : do_move(n, p)[r] # "Owned"
    BY <1>1 DEF do_move, Inside, Covered
  <2>4. ts \in SUBSET Paths /\ do_move(n, p) \in Node
    BY <1>1, NodeTypes
  <2> QED
    BY <2>1, <2>2, <2>3, <2>4, <1>3
<1>7. CASE i.op = "store"
  <2> DEFINE ts == t[v] \ Inside(p)
  <2>1. exec_instr(t, i) = [t EXCEPT ![v] = ts]
    BY <1>7, <1>1 DEF exec_instr, Tombs
  <2>2. apply_effects(s, i) = [s EXCEPT ![v] = do_def(n, p)]
    BY <1>7 DEF apply_effects
  <2>3. \A q \in Above(p) : n[q] = "Owned"
    BY <1>7, BaseOwned DEF TouchState
  (* A tombstone that stays lies beside p: it is neither in p nor, because *)
  (* the enclosing places are Owned, around it.                            *)
  <2>4. ASSUME NEW q \in ts, NEW r \in Inside(q)
        PROVE  do_def(n, p)[r] # "Owned"
    <3>1. n[r] # "Owned" /\ n[q] # "Owned" /\ q \in Paths /\ r \in Paths
      BY <1>1, <1>2 DEF Covered, Inside
    <3>2. q \notin Above(p) /\ q \notin Inside(p)
      BY <2>3, <3>1
    <3>3. r \notin Inside(p)
      BY <3>1, <3>2, <1>1, PathsAssumption DEF Inside, Above
    <3> QED
      BY <3>1, <3>3 DEF do_def
  <2>5. ts \in SUBSET Paths /\ do_def(n, p) \in Node
    BY <1>1, NodeTypes
  <2> QED
    BY <2>1, <2>2, <2>4, <2>5, <1>3
<1>8. CASE i.op \in {"nop", "use", "load", "storeIndex"}
  BY <1>8 DEF exec_instr, apply_effects
<1>9. i.op \in Ops
  BY DEF Instrs
<1> QED
  BY <1>4, <1>5, <1>6, <1>7, <1>8, <1>9 DEF Ops

-----------------------------------------------------------------------------
(* The inductive invariant.                                                *)

(* A visited node had a predecessor with a fact, or needs none. *)
VisitedReached == \A n \in visited : Reached(n)

(* Within a sweep that has changed nothing, the nodes behind the cursor are *)
(* consistent; once such a sweep is over, all nodes are.                    *)
SweepConsistent ==
  /\ phase = "fix" /\ ~changed => \A n \in Nodes : n < cursor => Consistent(n)
  /\ phase # "fix" => \A n \in Nodes : Consistent(n)

(* The reporting pass has found nothing behind its cursor. *)
ReportedClean ==
  /\ phase = "report" =>
       \A n \in Nodes : n < cursor => ReportState(n) = "Owned"
  /\ phase = "run" => \A n \in Nodes : ReportState(n) = "Owned"

(* The machine is at a node with facts that cover its tombstones, and it    *)
(* has not touched one.                                                     *)
MachineCovered ==
  Transparent =>
    /\ ~fault
    /\ phase # "done" /\ phase # "run" => pc = 0 /\ \A v \in Vars : tombs[v] = {}
    /\ phase = "run" => pc \in visited /\ Covered(tombs, ins[pc])

IInv == TypeOK /\ VisitedReached /\ SweepConsistent /\ ReportedClean /\ MachineCovered

(* The function under analysis never changes. *)
LEMMA FunctionFixed ==
  ASSUME IsFunction(fn), [Next]_vars
  PROVE  /\ fn' = fn /\ Nodes' = Nodes /\ IsFunction(fn')
         /\ fn.size \in Nat \ {0} /\ 0 \in Nodes
<1>1. fn' = fn
  BY DEF Next, Sweep, Report, Machine, SkipNode, KeepNode, UpdateNode,
         NextSweep, EndFixpoint, ReportClean, ReportViolation, Accept, Step,
         Return, TouchMoved, Finished, vars
<1> QED
  BY <1>1 DEF Nodes, IsFunction

(* The initial facts, cursor and machine are of their types. *)
LEMMA TypeInit == Init => TypeOK
<1> SUFFICES ASSUME Init PROVE TypeOK
  OBVIOUS
<1>1. IsFunction(fn)
  BY FunctionsAssumption DEF Init
<1>2. 0 \in Nodes /\ 0 \in 0 .. fn.size
  BY <1>1 DEF IsFunction, Nodes
<1> QED
  BY <1>1, <1>2, StateTypes DEF Init, TypeOK

(* No step of the analysis or of the machine leaves the types. *)
LEMMA TypeStep == ASSUME TypeOK, [Next]_vars PROVE TypeOK'
<1>1. /\ fn' = fn /\ Nodes' = Nodes /\ IsFunction(fn')
      /\ fn.size \in Nat \ {0} /\ 0 \in Nodes
  BY FunctionFixed DEF TypeOK
<1>2. CASE SkipNode
  BY <1>1, <1>2 DEF SkipNode, machineVars, TypeOK
<1>3. CASE KeepNode
  BY <1>1, <1>3 DEF KeepNode, machineVars, TypeOK
<1>4. CASE UpdateNode
  <2>1. cursor \in Nodes
    BY <1>1, <1>4 DEF UpdateNode, Nodes, TypeOK
  <2>2. new_in(cursor) \in State /\ new_out(cursor) \in State
    BY <2>1, StateTypes DEF new_in, new_out, IsFunction, Nodes, TypeOK
  <2> QED
    BY <1>1, <1>4, <2>1, <2>2 DEF UpdateNode, machineVars, TypeOK
<1>5. CASE NextSweep
  <2>1. /\ cursor' = 0 /\ changed' = FALSE
        /\ UNCHANGED <<phase, verdict, visited, ins, outs, pc, tombs, fault>>
    BY <1>5 DEF NextSweep, machineVars
  <2>2. 0 \in 0 .. fn.size
    BY <1>1
  <2> QED
    BY <1>1, <2>1, <2>2 DEF TypeOK
<1>6. CASE EndFixpoint
  BY <1>1, <1>6 DEF EndFixpoint, machineVars, TypeOK
<1>7. CASE ReportClean
  BY <1>1, <1>7 DEF ReportClean, machineVars, TypeOK
<1>8. CASE ReportViolation
  <2>1. /\ verdict' \in {"UseAfterMove", "ConditionallyMoved"} /\ phase' = "done"
        /\ UNCHANGED <<cursor, changed, visited, ins, outs, pc, tombs, fault>>
    BY <1>8 DEF ReportViolation, machineVars, analysisVars
  <2> QED
    BY <1>1, <2>1 DEF TypeOK
<1>9. CASE Accept
  BY <1>1, <1>9 DEF Accept, machineVars, analysisVars, TypeOK
<1>10. exec_instr(tombs, fn.code[pc]) \in [Vars -> SUBSET Paths]
  <2>1. fn.code[pc] \in Instrs /\ tombs \in Tombs
    BY DEF TypeOK, IsFunction, Nodes, Tombs
  <2> QED
    BY <2>1, ExecType DEF Tombs
<1>11. ASSUME NEW n \in Nodes, Step(n)
       PROVE  TypeOK'
  BY <1>1, <1>10, <1>11 DEF Step, analysisVars, TypeOK
<1>12. CASE Return
  BY <1>1, <1>10, <1>12 DEF Return, analysisVars, TypeOK
<1>13. CASE TouchMoved
  BY <1>1, <1>13 DEF TouchMoved, analysisVars, TypeOK
<1>14. CASE UNCHANGED vars
  BY <1>1, <1>14 DEF vars, analysisVars, machineVars, TypeOK
<1> QED
  BY <1>2, <1>3, <1>4, <1>5, <1>6, <1>7, <1>8, <1>9, <1>11, <1>12, <1>13,
     <1>14 DEF Next, Sweep, Report, Machine, Finished

(* Every variable keeps its type. *)
THEOREM TypeCorrect == Spec => []TypeOK
<1>1. TypeOK /\ [Next]_vars => TypeOK'
  BY TypeStep
<1> QED
  BY TypeInit, <1>1, PTL DEF Spec

-----------------------------------------------------------------------------
(* The facts on which a node's consistency rests are left alone by every    *)
(* step but UpdateNode.                                                     *)
LEMMA SameFacts ==
  ASSUME NEW n, fn' = fn, UNCHANGED <<visited, ins, outs>>
  PROVE  /\ Reached(n)' = Reached(n) /\ Settled(n)' = Settled(n)
         /\ Consistent(n)' = Consistent(n) /\ ReportState(n)' = ReportState(n)
BY DEF Reached, Settled, Consistent, ReportState, isEntry, preds, Nodes,
       new_in, new_out

(* A node gets facts only after a predecessor has some, and keeps them. *)
LEMMA VisitedReachedStep ==
  ASSUME TypeOK, VisitedReached, [Next]_vars
  PROVE  VisitedReached'
<1>1. fn' = fn /\ Nodes' = Nodes
  BY FunctionFixed DEF TypeOK
<1>2. CASE UpdateNode
  <2>1. visited \subseteq visited' /\ visited' = visited \union {cursor}
        /\ Reached(cursor)
    BY <1>2 DEF UpdateNode
  <2>2. \A n : Reached(n) => Reached(n)'
    BY <1>1, <2>1 DEF Reached, isEntry, preds
  <2> QED
    BY <2>1, <2>2 DEF VisitedReached
<1>3. CASE UNCHANGED visited
  BY <1>1, <1>3 DEF VisitedReached, Reached, isEntry, preds
<1> QED
  BY <1>2, <1>3 DEF Next, Sweep, Report, Machine, SkipNode, KeepNode, NextSweep,
         EndFixpoint, ReportClean, ReportViolation, Accept, Step, Return,
         TouchMoved, Finished, vars, analysisVars

(* Facts stored behind the cursor stay settled while the sweep has found    *)
(* nothing new.                                                             *)
LEMMA SweepConsistentStep ==
  ASSUME TypeOK, VisitedReached, SweepConsistent, [Next]_vars
  PROVE  SweepConsistent'
<1>1. fn' = fn /\ Nodes' = Nodes /\ fn.size \in Nat /\ cursor \in Nat
  BY FunctionFixed DEF TypeOK
<1>2. CASE SkipNode \/ KeepNode
  <2>1. UNCHANGED <<visited, ins, outs, phase, changed>> /\ cursor' = cursor + 1
        /\ phase = "fix"
    BY <1>2 DEF SkipNode, KeepNode
  <2>2. Consistent(cursor)
    BY <1>2 DEF SkipNode, KeepNode, Consistent, VisitedReached, Reached, Settled
  <2>3. \A n \in Nodes : Consistent(n)' = Consistent(n)
    BY <1>1, <2>1, SameFacts
  <2>4. \A n \in Nodes : n < cursor' => n < cursor \/ n = cursor
    BY <1>1, <2>1 DEF Nodes
  <2> QED
    BY <1>1, <2>1, <2>2, <2>3, <2>4 DEF SweepConsistent
<1>3. CASE UpdateNode
  BY <1>3 DEF UpdateNode, SweepConsistent
<1>4. CASE NextSweep
  <2>1. \A n \in Nodes : ~(n < 0)
    BY <1>1 DEF Nodes
  <2> QED
    BY <1>1, <1>4, <2>1 DEF NextSweep, SweepConsistent
<1>5. CASE EndFixpoint
  <2>1. \A n \in Nodes : n < cursor
    BY <1>1, <1>5 DEF EndFixpoint, Nodes
  <2>2. UNCHANGED <<visited, ins, outs>> /\ phase' = "report"
    BY <1>5 DEF EndFixpoint
  <2>3. \A n \in Nodes : Consistent(n)
    BY <1>5, <2>1 DEF EndFixpoint, SweepConsistent
  <2>4. \A n \in Nodes : Consistent(n)' = Consistent(n)
    BY <1>1, <2>2, SameFacts
  <2> QED
    BY <1>1, <2>2, <2>3, <2>4 DEF SweepConsistent
<1>6. CASE phase # "fix" /\ phase' # "fix" /\ UNCHANGED <<visited, ins, outs>>
  BY <1>1, <1>6, SameFacts DEF SweepConsistent
<1>7. CASE UNCHANGED vars
  <2>1. UNCHANGED <<visited, ins, outs, phase, changed, cursor>>
    BY <1>7 DEF vars, analysisVars
  <2> QED
    BY <1>1, <2>1, SameFacts DEF SweepConsistent
<1> QED
  BY <1>2, <1>3, <1>4, <1>5, <1>6, <1>7 DEF Next, Sweep, Report, Machine,
     ReportClean, ReportViolation, Accept, Step, Return, TouchMoved, Finished,
     analysisVars

(* The reporting pass goes past a node only if nothing it touches is moved. *)
LEMMA ReportedCleanStep ==
  ASSUME TypeOK, ReportedClean, [Next]_vars
  PROVE  ReportedClean'
<1>1. fn' = fn /\ Nodes' = Nodes /\ fn.size \in Nat /\ cursor \in Nat
  BY FunctionFixed DEF TypeOK
<1>2. CASE phase' \notin {"report", "run"}
  BY <1>2 DEF ReportedClean
<1>3. CASE EndFixpoint
  <2>1. \A n \in Nodes : ~(n < 0)
    BY <1>1 DEF Nodes
  <2> QED
    BY <1>1, <1>3, <2>1 DEF EndFixpoint, ReportedClean
<1>4. CASE ReportClean
  <2>1. UNCHANGED <<visited, ins, outs, phase>> /\ cursor' = cursor + 1
        /\ phase = "report"
    BY <1>4 DEF ReportClean
  <2>2. \A n \in Nodes : n < cursor' => n < cursor \/ n = cursor
    BY <1>1, <2>1 DEF Nodes
  <2>3. \A n \in Nodes : ReportState(n)' = ReportState(n)
    BY <1>1, <2>1, SameFacts
  <2>4. ReportState(cursor) = "Owned"
    BY <1>4 DEF ReportClean
  <2> QED
    BY <1>1, <2>1, <2>2, <2>3, <2>4 DEF ReportedClean
<1>5. CASE Accept
  <2>1. UNCHANGED <<visited, ins, outs>> /\ phase' = "run"
    BY <1>5 DEF Accept, analysisVars
  <2>2. \A n \in Nodes : ReportState(n) = "Owned"
    BY <1>1, <1>5 DEF Accept, ReportedClean, Nodes
  <2>3. \A n \in Nodes : ReportState(n)' = ReportState(n)
    BY <1>1, <2>1, SameFacts
  <2> QED
    BY <1>1, <2>1, <2>2, <2>3 DEF ReportedClean
<1>6. CASE phase \in {"run"} /\ phase' = "run" /\ UNCHANGED <<visited, ins, outs>>
  BY <1>1, <1>6, SameFacts DEF ReportedClean
<1>7. CASE UNCHANGED vars
  <2>1. UNCHANGED <<visited, ins, outs, phase, cursor>>
    BY <1>7 DEF vars, analysisVars
  <2> QED
    BY <1>1, <2>1, SameFacts DEF ReportedClean
<1> QED
  BY <1>2, <1>3, <1>4, <1>5, <1>6, <1>7 DEF Next, Sweep, Report, Machine,
     SkipNode, KeepNode, UpdateNode, NextSweep, ReportViolation, Step, Return,
     TouchMoved, Finished, analysisVars

(* The tombstones of the running machine stay covered by the facts at its   *)
(* node.                                                                    *)
LEMMA MachineCoveredStep ==
  ASSUME IInv, [Next]_vars
  PROVE  MachineCovered'
<1>1. /\ fn' = fn /\ Nodes' = Nodes /\ IsFunction(fn) /\ fn.size \in Nat \ {0}
      /\ 0 \in Nodes /\ TypeOK
  BY FunctionFixed DEF IInv, TypeOK
<1> SUFFICES ASSUME Transparent' PROVE MachineCovered'
  BY DEF MachineCovered
<1>2. Transparent
  BY <1>1 DEF Transparent
(* At a node of an accepted function the check of its instruction passed. *)
<1>3. ASSUME phase = "run"
      PROVE  /\ pc \in Nodes /\ pc \in visited /\ Covered(tombs, ins[pc])
             /\ tombs \in Tombs /\ ins[pc] \in State /\ fn.code[pc] \in Instrs
             /\ ~fn.code[pc].region /\ fn.code[pc].op # "capture"
             /\ TouchState(ins[pc], fn.code[pc]) = "Owned"
             /\ ~Touches(tombs, fn.code[pc]) /\ ~fault
  <2>1. /\ pc \in Nodes /\ pc \in visited /\ Covered(tombs, ins[pc]) /\ ~fault
    BY <1>2, <1>3 DEF IInv, MachineCovered, TypeOK
  <2>2. tombs \in Tombs /\ ins[pc] \in State
    BY <1>1, <2>1 DEF TypeOK, Tombs
  <2>3. fn.code[pc] \in Instrs
    BY <1>1, <2>1 DEF IsFunction, Nodes
  <2>4. ~fn.code[pc].region /\ fn.code[pc].op # "capture"
    BY <1>2, <2>1 DEF Transparent
  <2>5. TouchState(ins[pc], fn.code[pc]) = "Owned"
    BY <1>3, <2>1 DEF IInv, ReportedClean, ReportState
  <2> QED
    BY <2>1, <2>2, <2>3, <2>4, <2>5, TouchSound
<1>4. ASSUME NEW n \in Nodes, Step(n)
      PROVE  MachineCovered'
  <2> DEFINE i == fn.code[pc]
             t2 == exec_instr(tombs, i)
             s2 == apply_effects(ins[pc], i)
  <2>1. phase = "run" /\ n \in fn.succ[pc] /\ phase' = "run" /\ pc' = n
        /\ tombs' = t2 /\ UNCHANGED <<visited, ins, outs, fault>>
    BY <1>4 DEF Step, analysisVars
  <2>2. t2 \in Tombs /\ Covered(t2, s2)
    BY <1>3, <2>1, EffectSound
  <2>3. \A m \in Nodes : Consistent(m)
    BY <2>1 DEF IInv, SweepConsistent
  <2>4. outs[pc] = s2
    BY <1>3, <2>1, <2>3 DEF Consistent, Settled, new_out
  <2>5. pc \in preds(n) \cap visited
    BY <1>3, <2>1 DEF preds
  <2>6. n \in visited /\ ins[n] = new_in(n)
    BY <2>3, <2>5 DEF Consistent, Reached, Settled
  <2>7. ~isEntry(n)
    <3>1. n # 0
      BY <1>1, <1>3, <2>1 DEF IsFunction, Nodes
    <3> QED
      BY <3>1, <2>5 DEF isEntry
  <2>8. Covered(t2, new_in(n))
    <3>1. outs[pc] \in {outs[m] : m \in preds(n) \cap visited}
      BY <2>5
    <3>2. Covered(t2, outs[pc])
      BY <2>2, <2>4
    <3> QED
      BY <2>2, <2>7, <3>1, <3>2, JoinCovers DEF new_in
  <2>9. pc' \in visited' /\ Covered(tombs', ins'[pc'])
    BY <2>1, <2>6, <2>8
  <2> QED
    BY <1>3, <2>1, <2>9 DEF MachineCovered
<1>5. CASE Return
  BY <1>3, <1>5 DEF Return, MachineCovered
<1>6. CASE TouchMoved
  BY <1>3, <1>6 DEF TouchMoved
<1>7. CASE Accept
  <2>1. UNCHANGED <<visited, ins, outs, pc, tombs, fault>> /\ phase' = "run"
        /\ phase = "report"
    BY <1>7 DEF Accept, analysisVars, machineVars
  <2>2. pc = 0 /\ ~fault /\ \A v \in Vars : tombs[v] = {}
    BY <1>2, <2>1 DEF IInv, MachineCovered
  <2>3. 0 \in visited
    BY <1>1, <2>1 DEF IInv, SweepConsistent, Consistent, Reached, isEntry
  <2>4. Covered(tombs, ins[0])
    BY <2>2 DEF Covered
  <2> QED
    BY <2>1, <2>2, <2>3, <2>4 DEF MachineCovered
<1>8. CASE Sweep \/ ReportClean \/ ReportViolation
  <2>1. UNCHANGED <<pc, tombs, fault>> /\ phase \in {"fix", "report"} /\ phase' # "run"
    BY <1>8 DEF Sweep, SkipNode, KeepNode, UpdateNode, NextSweep, EndFixpoint,
           ReportClean, ReportViolation, machineVars
  <2> QED
    BY <1>2, <2>1 DEF IInv, MachineCovered
<1>9. CASE UNCHANGED vars
  <2>1. UNCHANGED <<pc, tombs, fault, phase, visited, ins>>
    BY <1>9 DEF vars, analysisVars, machineVars
  <2> QED
    BY <1>2, <2>1 DEF IInv, MachineCovered, Covered
<1> QED
  BY <1>4, <1>5, <1>6, <1>7, <1>8, <1>9 DEF Next, Report, Machine, Finished

(* The inductive invariant holds of every behaviour. *)
THEOREM Invariant == Spec => []IInv
<1>1. Init => IInv
  <2> SUFFICES ASSUME Init PROVE IInv
    OBVIOUS
  <2>1. TypeOK
    BY TypeInit
  <2>2. \A n \in Nodes : ~(n < 0)
    BY <2>1 DEF TypeOK, IsFunction, Nodes
  <2> QED
    BY <2>1, <2>2 DEF Init, IInv, VisitedReached, SweepConsistent,
       ReportedClean, MachineCovered
<1>2. IInv /\ [Next]_vars => IInv'
  <2> SUFFICES ASSUME IInv, [Next]_vars PROVE IInv'
    OBVIOUS
  <2> QED
    BY TypeStep, VisitedReachedStep, SweepConsistentStep, ReportedCleanStep,
       MachineCoveredStep DEF IInv
<1> QED
  BY <1>1, <1>2, PTL DEF Spec

(* No accepted function touches a moved value, unless it moves inside a try *)
(* region or into a closure.                                                *)
THEOREM AcceptedIsSound == Spec => []AcceptedNeverTouchesMoved
<1>1. IInv => AcceptedNeverTouchesMoved
  BY DEF IInv, MachineCovered, AcceptedNeverTouchesMoved
<1> QED
  BY <1>1, Invariant, PTL

(* The reporting pass and the machine see only facts at the fixpoint. *)
THEOREM FixpointIsConsistent == Spec => []ReportsFromFixpoint
<1>1. IInv => ReportsFromFixpoint
  BY DEF IInv, SweepConsistent, ReportsFromFixpoint
<1> QED
  BY <1>1, Invariant, PTL
=============================================================================
