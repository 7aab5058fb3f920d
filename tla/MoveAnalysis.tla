---------------------------- MODULE MoveAnalysis ----------------------------
(***************************************************************************)
(* `analyze_moves` of src/src/analysis/mod.rs for one MIR function, and    *)
(* the virtual machine's execution of the same function, so that what the  *)
(* analysis accepts can be compared with what the machine does.            *)
(*                                                                         *)
(* A control-flow node holds one instruction.  A basic block is a chain of *)
(* consecutive nodes, so the sweep over nodes visits the facts in the      *)
(* order of the code's sweep over blocks.                                  *)
(*                                                                         *)
(* Instructions, by what the analysis distinguishes:                       *)
(*   nop         touches no variable                                       *)
(*   def         DefVar                                                    *)
(*   use         UseVar Copy/Borrow, HasNext, Next, CollectionInsert       *)
(*   move        UseVar Move (`x^`)                                        *)
(*   load        LoadPlace, BeginLoan, MultiSet                            *)
(*   take        MovePlace, ConsumePlace (`p.a^`)                          *)
(*   store       Store, StoreRef, VariantSet, VariantReplace to a field    *)
(*   storeIndex  the same to a dynamic index                               *)
(*   capture     MakeClosure with a moved capture                          *)
(* `region` marks an instruction that stands inside a `try` region: the    *)
(* function's block then holds only the Try instruction.                   *)
(***************************************************************************)
EXTENDS Integers, PlaceState

CONSTANTS
  Vars,      \* the function's variable slots
  Functions  \* the MIR functions considered: [size, code, succ]

Ops == {"nop", "def", "use", "move", "load", "take", "store", "storeIndex",
        "capture"}

Instrs == [op : Ops, var : Vars, path : Paths, region : BOOLEAN]

(* Node 0 is the entry block.  HIR lowering seals it with a jump to a fresh *)
(* block and never makes it a target.                                       *)
IsFunction(f) ==
  /\ f.size \in Nat \ {0}
  /\ f.code \in [0 .. f.size - 1 -> Instrs]
  /\ f.succ \in [0 .. f.size - 1 -> SUBSET (1 .. f.size - 1)]

ASSUME FunctionsAssumption == \A f \in Functions : IsFunction(f)

VARIABLES
  fn,       \* the function under analysis
  phase,    \* "fix", "report", "run", "done"
  cursor,   \* the next node of the sweep or of the reporting pass
  changed,  \* `changed` of the current sweep
  visited,  \* nodes whose in_states and out_states are Some
  ins,      \* `in_states`
  outs,     \* `out_states`
  verdict,  \* "none", "ok", "UseAfterMove", "ConditionallyMoved"
  pc,       \* the machine's node
  tombs,    \* places of each slot that hold Value::Moved
  fault     \* the machine touched a Value::Moved

analysisVars == <<cursor, changed, visited, ins, outs>>
machineVars == <<pc, tombs, fault>>
vars == <<fn, phase, verdict, analysisVars, machineVars>>

Nodes == 0 .. fn.size - 1
preds(n) == {m \in Nodes : n \in fn.succ[m]}

State == [Vars -> Node]
entry == [v \in Vars |-> owned]
join_states(states) == [v \in Vars |-> join_node({s[v] : s \in states})]

(* `place_uses`: the state in which an instruction finds the place it reads *)
(* or whose enclosing place it writes through.  There is no arm for Try nor  *)
(* for MakeClosure.                                                          *)
TouchState(s, i) ==
  IF i.region THEN "Owned"
  ELSE CASE i.op \in {"use", "move"} -> read(s[i.var], Whole)
         [] i.op \in {"load", "take"} -> read(s[i.var], i.path)
         [] i.op = "store" -> base_at(s[i.var], Above(i.path))
         [] i.op = "storeIndex" ->
              base_at(s[i.var], Above(i.path) \union {i.path})
         [] OTHER -> "Owned"

(* Mutant: no arm for MovePlace and ConsumePlace. *)
apply_effects_no_take(s, i) ==
  IF i.region THEN s
  ELSE CASE i.op = "def" -> [s EXCEPT ![i.var] = owned]
         [] i.op = "move" -> [s EXCEPT ![i.var] = do_move(@, Whole)]
         [] i.op = "store" -> [s EXCEPT ![i.var] = do_def(@, i.path)]
         [] OTHER -> s

(* `apply_effects`: what an instruction does to the state. *)
apply_effects(s, i) ==
  IF i.region THEN s
  ELSE CASE i.op = "def" -> [s EXCEPT ![i.var] = owned]
         [] i.op = "move" -> [s EXCEPT ![i.var] = do_move(@, Whole)]
         [] i.op = "take" -> [s EXCEPT ![i.var] = do_move(@, i.path)]
         [] i.op = "store" -> [s EXCEPT ![i.var] = do_def(@, i.path)]
         [] OTHER -> s

(* The in-state a visit computes: the entry state for the entry node and for *)
(* a node without predecessors, else the join over the predecessors that     *)
(* have been visited.                                                        *)
isEntry(n) == n = 0 \/ preds(n) = {}

(* Mutants: predecessors without a fact count as Owned; the last            *)
(* predecessor's fact replaces the join.                                    *)
new_in_seeded(n) ==
  IF isEntry(n) THEN entry ELSE join_states({outs[m] : m \in preds(n)})

new_in(n) ==
  IF isEntry(n) THEN entry
  ELSE join_states({outs[m] : m \in preds(n) \cap visited})
new_out(n) == apply_effects(new_in(n), fn.code[n])

-----------------------------------------------------------------------------
Init ==
  /\ fn \in Functions
  /\ phase = "fix" /\ verdict = "none"
  /\ cursor = 0 /\ changed = FALSE /\ visited = {}
  /\ ins = [n \in Nodes |-> entry] /\ outs = [n \in Nodes |-> entry]
  /\ pc = 0 /\ tombs = [v \in Vars |-> {}] /\ fault = FALSE

(* One step of a sweep: `continue` when no predecessor has a fact yet. *)
SkipNode ==
  /\ phase = "fix" /\ cursor < fn.size
  /\ ~isEntry(cursor) /\ preds(cursor) \cap visited = {}
  /\ cursor' = cursor + 1
  /\ UNCHANGED <<fn, phase, verdict, changed, visited, ins, outs, machineVars>>

Reached(n) == isEntry(n) \/ preds(n) \cap visited # {}
Settled(n) == n \in visited /\ ins[n] = new_in(n) /\ outs[n] = new_out(n)

(* Mutant: a visit asks for another sweep whether or not it found news. *)
KeepNodeChanged ==
  /\ phase = "fix" /\ cursor < fn.size
  /\ Reached(cursor) /\ Settled(cursor)
  /\ cursor' = cursor + 1 /\ changed' = TRUE
  /\ UNCHANGED <<fn, phase, verdict, visited, ins, outs, machineVars>>

(* Nothing new at the node. *)
KeepNode ==
  /\ phase = "fix" /\ cursor < fn.size
  /\ Reached(cursor) /\ Settled(cursor)
  /\ cursor' = cursor + 1
  /\ UNCHANGED <<fn, phase, verdict, changed, visited, ins, outs, machineVars>>

(* Mutant: news at a node does not ask for another sweep. *)
UpdateNodeOnce ==
  /\ phase = "fix" /\ cursor < fn.size
  /\ Reached(cursor) /\ ~Settled(cursor)
  /\ ins' = [ins EXCEPT ![cursor] = new_in(cursor)]
  /\ outs' = [outs EXCEPT ![cursor] = new_out(cursor)]
  /\ visited' = visited \union {cursor}
  /\ cursor' = cursor + 1
  /\ UNCHANGED <<fn, phase, verdict, changed, machineVars>>

(* New facts at the node: store them and ask for another sweep. *)
UpdateNode ==
  /\ phase = "fix" /\ cursor < fn.size
  /\ Reached(cursor) /\ ~Settled(cursor)
  /\ ins' = [ins EXCEPT ![cursor] = new_in(cursor)]
  /\ outs' = [outs EXCEPT ![cursor] = new_out(cursor)]
  /\ visited' = visited \union {cursor}
  /\ changed' = TRUE
  /\ cursor' = cursor + 1
  /\ UNCHANGED <<fn, phase, verdict, machineVars>>

NextSweep ==
  /\ phase = "fix" /\ cursor = fn.size /\ changed
  /\ cursor' = 0 /\ changed' = FALSE
  /\ UNCHANGED <<fn, phase, verdict, visited, ins, outs, machineVars>>

(* Mutant: the reporting pass starts past the last node. *)
EndFixpointPastEnd ==
  /\ phase = "fix" /\ cursor = fn.size /\ ~changed
  /\ phase' = "report" /\ cursor' = cursor + 1
  /\ UNCHANGED <<fn, verdict, changed, visited, ins, outs, machineVars>>

EndFixpoint ==
  /\ phase = "fix" /\ cursor = fn.size /\ ~changed
  /\ phase' = "report" /\ cursor' = 0
  /\ UNCHANGED <<fn, verdict, changed, visited, ins, outs, machineVars>>

(* The reporting pass replays a block from its in-state; a node's own       *)
(* in-state is the state the replay has there.  An unvisited one is         *)
(* replayed from the entry state.                                           *)
ReportState(n) ==
  TouchState(IF n \in visited THEN ins[n] ELSE entry, fn.code[n])

ReportClean ==
  /\ phase = "report" /\ cursor < fn.size
  /\ ReportState(cursor) = "Owned"
  /\ cursor' = cursor + 1
  /\ UNCHANGED <<fn, phase, verdict, changed, visited, ins, outs, machineVars>>

ReportViolation ==
  /\ phase = "report" /\ cursor < fn.size
  /\ ReportState(cursor) # "Owned"
  /\ verdict' = IF ReportState(cursor) = "Moved"
                THEN "UseAfterMove" ELSE "ConditionallyMoved"
  /\ phase' = "done"
  /\ UNCHANGED <<fn, analysisVars, machineVars>>

Accept ==
  /\ phase = "report" /\ cursor = fn.size
  /\ verdict' = "ok" /\ phase' = "run"
  /\ UNCHANGED <<fn, analysisVars, machineVars>>

-----------------------------------------------------------------------------
(* The machine.  A move puts Value::Moved in place of the value.  The       *)
(* machine touches one when it reads a place that holds, or holds inside    *)
(* it, or lies inside, such a value, or when it navigates through one to    *)
(* write.                                                                   *)
Touches(t, i) ==
  \/ i.op \in {"use", "move"} /\ t[i.var] # {}
  \/ /\ i.op \in {"load", "take"}
     /\ t[i.var] \cap (Above(i.path) \union Inside(i.path)) # {}
  \/ i.op \in {"store", "storeIndex"} /\ t[i.var] \cap Above(i.path) # {}

exec_instr(t, i) ==
  CASE i.op = "def" -> [t EXCEPT ![i.var] = {}]
    [] i.op \in {"move", "capture"} -> [t EXCEPT ![i.var] = {Whole}]
    [] i.op = "take" -> [t EXCEPT ![i.var] = (@ \ Inside(i.path)) \union {i.path}]
    [] i.op = "store" -> [t EXCEPT ![i.var] = @ \ Inside(i.path)]
    [] OTHER -> t

Step(n) ==
  /\ phase = "run" /\ n \in fn.succ[pc]
  /\ ~Touches(tombs, fn.code[pc])
  /\ tombs' = exec_instr(tombs, fn.code[pc])
  /\ pc' = n
  /\ UNCHANGED <<fn, phase, verdict, analysisVars, fault>>

Return ==
  /\ phase = "run" /\ fn.succ[pc] = {}
  /\ ~Touches(tombs, fn.code[pc])
  /\ tombs' = exec_instr(tombs, fn.code[pc])
  /\ phase' = "done"
  /\ UNCHANGED <<fn, verdict, analysisVars, pc, fault>>

TouchMoved ==
  /\ phase = "run" /\ Touches(tombs, fn.code[pc])
  /\ fault' = TRUE /\ phase' = "done"
  /\ UNCHANGED <<fn, verdict, analysisVars, pc, tombs>>

-----------------------------------------------------------------------------
Sweep == SkipNode \/ KeepNode \/ UpdateNode \/ NextSweep \/ EndFixpoint
Report == ReportClean \/ ReportViolation \/ Accept
Machine == (\E n \in Nodes : Step(n)) \/ Return \/ TouchMoved

(* The function was rejected, returned, or stopped at a fault. *)
Finished == phase = "done" /\ UNCHANGED vars

Next == Sweep \/ Report \/ Machine \/ Finished

(* The analysis is a sequential loop of the compiler: it keeps going while *)
(* it has a step to take.                                                  *)
Spec == Init /\ [][Next]_vars /\ WF_vars(Sweep \/ Report)

-----------------------------------------------------------------------------
(* Every variable has its type; the facts are total even where unvisited. *)
TypeOK ==
  /\ IsFunction(fn)
  /\ phase \in {"fix", "report", "run", "done"}
  /\ verdict \in {"none", "ok", "UseAfterMove", "ConditionallyMoved"}
  /\ cursor \in 0 .. fn.size
  /\ changed \in BOOLEAN
  /\ visited \subseteq Nodes
  /\ ins \in [Nodes -> State] /\ outs \in [Nodes -> State]
  /\ pc \in Nodes
  /\ tombs \in [Vars -> SUBSET Paths]
  /\ fault \in BOOLEAN

(* Everything the machine can move is visible to the analysis. *)
Transparent == \A n \in Nodes : ~fn.code[n].region /\ fn.code[n].op # "capture"

(* No function that the analysis accepts touches a moved value when it      *)
(* runs: exec_instr's "use of variable slot after it was moved" is never    *)
(* reached, and no load copies a tombstone out.  For functions that move    *)
(* nothing inside a `try` or into a closure.                                *)
AcceptedNeverTouchesMoved == Transparent => ~fault

(* The same for every function, as the comment on UseVar in backend/vm.rs   *)
(* has it: the analysis rejects a use after a move statically.              *)
AnalysisRejectsUseAfterMove == ~fault

(* The loop stops only on facts that are all consistent with one another:   *)
(* the reporting pass never reads a stale in-state.                         *)
Consistent(n) ==
  /\ n \in visited <=> Reached(n)
  /\ n \in visited => Settled(n)
ReportsFromFixpoint == phase # "fix" => \A n \in Nodes : Consistent(n)

(* `while changed` reaches a fixpoint. *)
FixpointReached == <>(phase # "fix")
=============================================================================
