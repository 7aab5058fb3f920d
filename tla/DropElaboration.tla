--------------------------- MODULE DropElaboration ---------------------------
(***************************************************************************)
(* `analyze_loans` and `elaborate_drops` of src/src/analysis/mod.rs for    *)
(* one MIR function, and the virtual machine's execution of the elaborated *)
(* function, in which destructions can be compared with uses.              *)
(*                                                                         *)
(* As in MoveAnalysis a node holds one instruction and a block is a chain  *)
(* of nodes.  A Try instruction has straight-line regions; its body and    *)
(* its handler end by falling through, by a return, or by an escape to a   *)
(* node of the function, which is a successor of no node.                  *)
(***************************************************************************)
EXTENDS LoanAnalysis

CONSTANT Functions  \* [size, code, succ, owned, borrowed]

Fall == -1
Leave == -2   \* return

Ops == {"nop", "def", "use", "keep", "move", "load", "store", "take", "loan",
        "deref", "method", "writeback", "consume", "try"}
(* Receivers and argument places are not accessed through a reference here. *)
IsInstr(i) ==
  /\ i.op \in Ops /\ i.var \in Vars /\ i.mutable \in BOOLEAN
  /\ i.op = "loan" => i.thru \in Vars
  /\ i.op \in PlaceOps => i.thru \in Vars \union {NoRef}
  /\ i.op \notin PlaceOps \union {"loan"} => i.thru = NoRef

(* A region is a straight line of plain instructions.                      *)
IsRegion(region) ==
  region \in Seq(ToSet(region)) /\ \A i \in ToSet(region) : IsInstr(i) /\ i.op # "try"
IsTry(f, t) ==
  /\ IsRegion(t.body) /\ IsRegion(t.handler) /\ IsRegion(t.orelse) /\ IsRegion(t.final)
  /\ {t.body_end, t.handler_end} \subseteq (0 .. f.size - 1) \union {Fall, Leave}
  /\ t.handles \in BOOLEAN

(* The lowering begins the loans of a reference one after the other, when   *)
(* it has defined it and begun no other loan since (at the nodes `fresh`).  *)
LoanNodes(f, r) ==
  {n \in 0 .. f.size - 1 : f.code[n].op = "loan" /\ f.code[n].thru = r}
Before(f, n) == {m \in 0 .. f.size - 1 : n \in f.succ[m]}
FreshAt(f, r, fresh) ==
  \A n \in fresh : \A m \in Before(f, n) :
    r \in var_def(f.code[m]) \/ (m \in fresh /\ f.code[m].op # "loan")
OneAfterOther(f, r, fresh) ==
  \A n \in LoanNodes(f, r) \ fresh : Before(f, n) \subseteq LoanNodes(f, r)
Grouped(f, r) ==
  \E fresh \in SUBSET (0 .. f.size - 1) : FreshAt(f, r, fresh) /\ OneAfterOther(f, r, fresh)
(* A reference statement begins the one loan that its reference has.        *)
Single(f, r) == \A n, m \in LoanNodes(f, r) : f.code[n] = f.code[m]

IsFunction(f) ==
  /\ f.size \in Nat \ {0}
  /\ f.succ \in [0 .. f.size - 1 -> SUBSET (0 .. f.size - 1)]
  /\ \A n \in 0 .. f.size - 1 :
       IsInstr(f.code[n]) /\ (f.code[n].op = "try" => IsTry(f, f.code[n]))
  /\ f.owned \subseteq Vars /\ f.borrowed \subseteq Vars
  /\ \A r \in Vars : Single(f, r) \/ Grouped(f, r)

ASSUME FunctionsAssumption == \A f \in Functions : IsFunction(f)

VARIABLES
  fn,       \* the function
  phase,    \* "loans", "check", "drops", "run", "done", "rejected"
  cursor,   \* the next node of a backward sweep
  changed,  \* `changed` of the current sweep
  live_in,  \* variables live before each node
  pc,       \* the machine's node
  frame     \* [slot, bound, stale, bad]

vars == <<fn, phase, cursor, changed, live_in, pc, frame>>

Nodes == 0 .. fn.size - 1
Code == {fn.code[n] : n \in Nodes}
Loans == LoansOf(Code)

block_live_out(n) == UNION {live_in[s] : s \in fn.succ[n]}
predecessors(n) == {m \in Nodes : n \in fn.succ[m]}

(* `is_droppable_root`: a borrowed parameter belongs to the caller. *)
is_droppable_root(v) == v \notin fn.borrowed

-----------------------------------------------------------------------------
(* What `elaborate_drops` inserts, from the facts of the last sweep.       *)
live_after(n) == extend_with_loan_roots(block_live_out(n), Code)

Droppable(S) == {v \in S : is_droppable_root(v)}

last_use_drops(n) ==
  LET i == fn.code[n]
  IN  (Droppable(var_uses(i) \union var_def(i)) \ var_moved(i)) \ live_after(n)

(* Variables that die on the edge from p to s, and where they are dropped: *)
(* at the end of p, at the start of s, or in a block between the two.      *)
edge_dying(p, s) == Droppable(block_live_out(p) \ live_in[s])
end_drops(p) ==
  IF Cardinality(fn.succ[p]) = 1
  THEN UNION {edge_dying(p, s) : s \in fn.succ[p]} ELSE {}

entry_drops(s) ==
  IF Cardinality(predecessors(s)) # 1 THEN {}
  ELSE UNION {edge_dying(p, s) :
                p \in {q \in predecessors(s) : Cardinality(fn.succ[q]) # 1}}

(* Mutant: critical edges get no block. *)
split_drops_none(p, s) == {}
split_drops(p, s) ==
  IF Cardinality(fn.succ[p]) # 1 /\ Cardinality(predecessors(s)) # 1
  THEN edge_dying(p, s) ELSE {}

(* Mutant: variables that `finally` uses are cleaned up on the escape. *)
escape_cleanup_finally(n, target) ==
  LET i == fn.code[n]
      live_before == live_after(n) \union var_uses(i)
      own == region_defs(Regions(i)) \union region_moved(Regions(i))
  IN  (Droppable(live_before) \ own) \ live_in[target]

(* `fill_escape_cleanups` with the base of its caller: what is live before *)
(* the try, is not its own, and dies on the hidden edge to the target.     *)
escape_cleanup(n, target) ==
  LET i == fn.code[n]
      live_before == live_after(n) \union var_uses(i)
      own == region_defs(Regions(i)) \union region_moved(Regions(i))
  IN  ((Droppable(live_before) \ own) \ region_uses(i.final)) \ live_in[target]

-----------------------------------------------------------------------------
(* The machine.  A slot is "none" before its first definition, "held",     *)
(* "moved", or "gone" once it was dropped.  `bound` are the loans of a     *)
(* reference that hold, `stale` the references whose place was accessed    *)
(* behind their back, `bad` what should not have happened.                 *)
DropVars(f, S) ==
  [f EXCEPT !.slot = [v \in Vars |-> IF v \in S /\ f.slot[v] = "held"
                                     THEN "gone" ELSE f.slot[v]]]

(* Slots an instruction reads or navigates through. *)
Reads(f, i) ==
  CASE i.op \in {"use", "keep", "move", "load", "take", "method"} -> {i.var}
    [] i.op = "store" /\ i.path # <<>> -> {i.var}
    [] i.op = "deref" -> {l.var : l \in f.bound[i.var]}
    [] OTHER -> {}

References(i) == IF i.op = "deref" THEN {i.var}
                 ELSE IF i.op \in PlaceOps THEN Thru(i) ELSE {}

(* The references that an access leaves stale. *)
Clobbered(f, i) ==
  LET places == IF i.op = "deref"
                THEN {[var |-> l.var, path |-> l.path] : l \in f.bound[i.var]}
                ELSE {[var |-> i.var, path |-> i.path]}
      write == i.op \notin {"use", "load", "deref"}
  IN  IF i.op \in {"nop", "keep", "loan"} THEN {}
      ELSE {r \in Vars \ References(i) :
              \E l \in f.bound[r], p \in places :
                /\ mir_places_overlap(p.var, p.path, l.var, l.path)
                /\ write \/ l.mutable}

Wrong(f, i) ==
  {<<what, i.var>> : what \in
     {w \in {"dropped", "lost", "stale"} :
        CASE w = "dropped" -> \E v \in Reads(f, i) : f.slot[v] = "gone"
          [] w = "lost" -> i.op = "def" /\ f.slot[i.var] = "held"
          [] w = "stale" -> References(i) \cap f.stale # {}}}

exec_slot(f, i) ==
  CASE i.op \in {"def", "writeback"} -> [f.slot EXCEPT ![i.var] = "held"]
    [] i.op \in {"move", "consume"} -> [f.slot EXCEPT ![i.var] = "moved"]
    [] OTHER -> f.slot
exec_bound(f, i) ==
  CASE i.op = "def" -> [f.bound EXCEPT ![i.var] = {}]
    [] i.op = "loan" -> [f.bound EXCEPT ![i.thru] = @ \union {i}]
    [] OTHER -> f.bound
Renewed(i) == CASE i.op = "def" -> {i.var} [] i.op = "loan" -> {i.thru}
                [] OTHER -> {}

exec_instr(f, i) ==
  [slot |-> exec_slot(f, i), bound |-> exec_bound(f, i),
   stale |-> (f.stale \union Clobbered(f, i)) \ Renewed(i),
   bad |-> f.bad \union Wrong(f, i)]
run_region(f, region) ==
  LET run[k \in 0 .. Len(region)] == IF k = 0 THEN f ELSE exec_instr(run[k - 1], region[k])
  IN  run[Len(region)]

(* `exec_try`: the body completes, or the call at position k of it raises; *)
(* its locals are dropped; handler or else; then finally.  The result is   *)
(* the frame and where it goes: Fall, Leave (a return or a raise) or an    *)
(* escape target.                                                          *)
EndRegion(f, n, end) ==
  IF end \in Nodes THEN DropVars(f, escape_cleanup(n, end)) ELSE f
Raises(t) == {k \in DOMAIN t.body : t.body[k].op = "nop"}

exec_try_raise(f, n, k) ==
  LET t == fn.code[n]
      left == DropVars(run_region(f, SubSeq(t.body, 1, k - 1)),
                       region_cleanup_vars(t.body))
      handled == EndRegion(run_region(left, t.handler), n, t.handler_end)
  IN  IF t.handles
      THEN <<run_region(handled, t.final), t.handler_end>>
      ELSE <<run_region(left, t.final), Leave>>

exec_try_complete(f, n) ==
  LET t == fn.code[n]
      left == DropVars(EndRegion(run_region(f, t.body), n, t.body_end),
                       region_cleanup_vars(t.body))
      after == IF t.body_end = Fall THEN run_region(left, t.orelse) ELSE left
  IN  <<run_region(after, t.final), t.body_end>>

(* What executing a node and its drops can lead to. *)
Effects(f, n) ==
  IF fn.code[n].op = "try"
  THEN {exec_try_complete(f, n)}
         \union {exec_try_raise(f, n, k) : k \in Raises(fn.code[n])}
  ELSE {<<exec_instr(f, fn.code[n]), Fall>>}

Goto(f, n, s) ==
  DropVars(f, last_use_drops(n) \union end_drops(n) \union split_drops(n, s)
                \union entry_drops(s))

-----------------------------------------------------------------------------
NothingLive == [n \in Nodes |-> {}]

Init ==
  /\ fn \in Functions
  /\ phase = "loans" /\ cursor = fn.size /\ changed = FALSE
  /\ live_in = NothingLive
  /\ pc = 0
  /\ frame = [slot |-> [v \in Vars |-> IF v \in fn.owned \union fn.borrowed
                                       THEN "held" ELSE "none"],
              bound |-> [v \in Vars |-> {}], stale |-> {}, bad |-> {}]

new_in(n) ==
  IF phase = "loans" THEN transfer_liveness(fn.code[n], block_live_out(n))
  ELSE transfer_drop_liveness(fn.code[n], block_live_out(n), Code)

Sweeping == phase \in {"loans", "drops"}

(* Mutant: every visit asks for another sweep. *)
VisitNodeAgain ==
  /\ Sweeping /\ cursor > 0
  /\ cursor' = cursor - 1
  /\ live_in' = [live_in EXCEPT ![cursor'] = new_in(cursor')]
  /\ changed' = TRUE
  /\ UNCHANGED <<fn, phase, pc, frame>>

VisitNode ==
  /\ Sweeping /\ cursor > 0
  /\ cursor' = cursor - 1
  /\ live_in' = [live_in EXCEPT ![cursor'] = new_in(cursor')]
  /\ changed' = (changed \/ live_in' # live_in)
  /\ UNCHANGED <<fn, phase, pc, frame>>

NextSweep ==
  /\ Sweeping /\ cursor = 0 /\ changed
  /\ cursor' = fn.size /\ changed' = FALSE
  /\ UNCHANGED <<fn, phase, live_in, pc, frame>>

EndLoanFixpoint ==
  /\ phase = "loans" /\ cursor = 0 /\ ~changed
  /\ phase' = "check"
  /\ UNCHANGED <<fn, cursor, changed, live_in, pc, frame>>

(* The report: every instruction against the variables live before it. *)
Conflicting == {n \in Nodes : conflicts(fn.code[n], live_in[n], Loans)}

AcceptLoans ==
  /\ phase = "check" /\ Conflicting = {}
  /\ phase' = "drops" /\ cursor' = fn.size /\ live_in' = NothingLive
  /\ UNCHANGED <<fn, changed, pc, frame>>

RejectLoans ==
  /\ phase = "check" /\ Conflicting # {}
  /\ phase' = "rejected"
  /\ UNCHANGED <<fn, cursor, changed, live_in, pc, frame>>

EndDropFixpoint ==
  /\ phase = "drops" /\ cursor = 0 /\ ~changed
  /\ phase' = "run"
  /\ UNCHANGED <<fn, cursor, changed, live_in, pc, frame>>

(* A slot that was moved out is not read: MoveAnalysis sees to that. *)
Proceeds(f, i) == \A v \in Reads(f, i) : f.slot[v] # "moved"

Step(s) ==
  /\ phase = "run" /\ Proceeds(frame, fn.code[pc])
  /\ \E e \in Effects(frame, pc) :
       \/ /\ e[2] = Fall /\ s \in fn.succ[pc]
          /\ frame' = Goto(e[1], pc, s)
       \/ /\ e[2] = s
          /\ frame' = DropVars(e[1], entry_drops(s))
  /\ pc' = s
  /\ UNCHANGED <<fn, phase, cursor, changed, live_in>>

Return ==
  /\ phase = "run" /\ Proceeds(frame, fn.code[pc])
  /\ \E e \in Effects(frame, pc) :
       \/ /\ e[2] = Fall /\ fn.succ[pc] = {}
          /\ frame' = DropVars(e[1], last_use_drops(pc))
       \/ e[2] = Leave /\ frame' = e[1]
  /\ phase' = "done"
  /\ UNCHANGED <<fn, cursor, changed, live_in, pc>>

Moved ==
  /\ phase = "run" /\ ~Proceeds(frame, fn.code[pc])
  /\ phase' = "done"
  /\ UNCHANGED <<fn, cursor, changed, live_in, pc, frame>>

Analysis == VisitNode \/ NextSweep \/ EndLoanFixpoint \/ AcceptLoans
              \/ RejectLoans \/ EndDropFixpoint
Machine == (\E s \in Nodes : Step(s)) \/ Return \/ Moved
Finished == phase \in {"done", "rejected"} /\ UNCHANGED vars

Next == Analysis \/ Machine \/ Finished

(* The analyses are loops of a sequential compiler, which keep going. *)
Spec == Init /\ [][Next]_vars /\ WF_vars(Analysis)

-----------------------------------------------------------------------------

Tries == {n \in Nodes : fn.code[n].op = "try"}
Ends(t) == {t.body_end} \union (IF t.handles THEN {t.handler_end} ELSE {})
Escapes(n) == Ends(fn.code[n]) \cap Nodes

PlainNames(i) == IF i.op = "nop" THEN {} ELSE {i.var} \union Thru(i)
RegionNames(region) == UNION {PlainNames(i) : i \in ToSet(region)}
Names(i) == IF i.op = "try" THEN RegionNames(Regions(i)) ELSE PlainNames(i)
Earlier(region, k) == SubSeq(region, 1, k - 1)

(* Where the code falls short of what its comments say, the properties     *)
(* leave functions out.  A body may not assign to a variable from outside, *)
(* which its cleanup would destroy; its own are in scope behind their      *)
(* definitions in the body, and nowhere else:                              *)
OwnLocals ==
  \A n \in Tries :
    LET t == fn.code[n]
        own == region_defs(t.body)
    IN
    /\ own \cap (fn.owned \union fn.borrowed) = {}
    /\ own \cap RegionNames(t.handler \o t.orelse \o t.final) = {}
    /\ \A m \in Nodes \ {n} : own \cap Names(fn.code[m]) = {}
    /\ \A k \in DOMAIN t.body :
         (PlainNames(t.body[k]) \ var_def(t.body[k])) \cap own
           \subseteq region_defs(Earlier(t.body, k))
(* what lives at an escape's target is live after the try as well, since   *)
(* the hidden edge is none for liveness:                                   *)
EscapesSeen ==
  \A n \in Tries : \A s \in Escapes(n) : live_in[s] \subseteq live_after(n)
(* loans that a region begins are not followed to their owners, nor are    *)
(* those of a reference that a finally behind an escape uses, so that the  *)
(* escape destroys the owner:                                              *)
OwnersSeen ==
  \A n \in Tries :
    /\ \A i \in ToSet(Regions(fn.code[n])) : i.op # "loan"
    /\ Escapes(n) # {} => RootsIn(region_uses(fn.code[n].final), Code)
(* an owned parameter is used on some path, for else it is never dropped:  *)
ParametersUsed == fn.owned \subseteq live_in[0]
(* a `mut` argument is used after the call that writes it back; in a       *)
(* region, where nothing is dropped, it is there before the call:          *)
WritebacksUsed ==
  /\ \A n \in Nodes : fn.code[n].op = "writeback" => fn.code[n].var \in live_after(n)
  /\ \A n \in Tries :
       LET t == fn.code[n] IN
       \A region \in {t.body, t.handler, t.orelse, t.final} : \A i \in ToSet(region) :
         i.op = "writeback" => i.var \in region_uses(region) \ region_moved(Regions(t))
(* nothing is defined in a handler, an else or a finally, nor twice in a   *)
(* body, nor moved out of a body that defines it:                          *)
RegionsClean ==
  \A n \in Tries :
    LET t == fn.code[n] IN
    /\ region_defs(t.handler \o t.orelse \o t.final) = {}
    /\ region_defs(t.body) \cap region_moved(Regions(t)) = {}
    /\ \A k \in DOMAIN t.body :
         var_def(t.body[k]) \cap region_defs(Earlier(t.body, k)) = {}
(* what an escape leaves to the finally, or to a move in another region,   *)
(* the entry of its target destroys:                                       *)
EscapesDropped ==
  \A n \in Tries :
    LET t == fn.code[n]
        live_before == live_after(n) \union var_uses(t)
        left(region) ==
          Droppable(live_before)
            \cap ((region_moved(Regions(t)) \ region_moved(region)) \union region_uses(t.final))
    IN  /\ t.body_end \in Nodes =>
             left(t.body) \subseteq live_in[t.body_end] \union entry_drops(t.body_end)
        /\ t.handles /\ t.handler_end \in Nodes =>
             left(t.handler) \subseteq live_in[t.handler_end] \union entry_drops(t.handler_end)
(* and no control leaves the function from within a try. *)
NoLeave == \A n \in Tries : Leave \notin Ends(fn.code[n]) /\
             (Raises(fn.code[n]) # {} => fn.code[n].handles)
(* An owner behind a reference is kept from the start of the function or   *)
(* the reference's last DefVar, and to the first edge after its last use.  *)
Outliving == {l.var : l \in Loans}

Has(what, S) == \E v \in S : <<what, v>> \in frame.bad
Running == phase = "run" \/ pc # 0

(* Nothing that is still used is destroyed: no instruction reads a slot    *)
(* whose value a spliced DropVar or a cleanup took (`elaborate_drops`).     *)
UsesFindValues ==
  OwnLocals /\ EscapesSeen /\ OwnersSeen => ~Has("dropped", Vars)

(* In a function that `analyze_loans` accepts, a reference is never used   *)
(* after its place was written, or read when the reference is mutable, by  *)
(* way of anything but the reference.                                      *)
ReferencesAreExclusive == Tries = {} => ~Has("stale", Vars)

(* The reference for liveness: some path leads from n to a use of v,       *)
(* hidden edges included, and does not define v on the way.                *)
Follows(m) == fn.succ[m] \union
  (IF m \in Tries THEN Escapes(m) ELSE {})
FollowedIn(S, v) == \A m \in S : v \in var_def(fn.code[m]) \/ Follows(m) \subseteq S
PassBy(n, v) ==
  {m \in Nodes : \A S \in SUBSET Nodes : n \in S /\ FollowedIn(S, v) => m \in S}
Needed(v, n) == \E m \in PassBy(n, v) : v \in var_uses(fn.code[m])
NeededAt(n) == extend_with_loan_roots({v \in Vars : Needed(v, n)}, Code)

Straightforward ==
  /\ OwnLocals /\ EscapesSeen /\ OwnersSeen /\ ParametersUsed /\ WritebacksUsed
  /\ RegionsClean /\ EscapesDropped /\ NoLeave
HeldVars == {v \in Vars \ Outliving : frame.slot[v] = "held" /\ is_droppable_root(v)}

(* ASAP destruction: whenever an instruction is about to run, every value  *)
(* of the function that is not yet destroyed or moved is needed on some    *)
(* path from there.                                                        *)
DestroyedOnceUnneeded ==
  phase = "run" /\ Straightforward => HeldVars \subseteq NeededAt(pc)

(* Every value finds its end: none is overwritten undestroyed, and none is *)
(* left when the function returns.                                         *)
NothingIsLost ==
  phase \in {"run", "done"} /\ Straightforward =>
    /\ ~Has("lost", Droppable(Vars \ Outliving))
    /\ phase = "done" /\ Proceeds(frame, fn.code[pc]) /\ fn.succ[pc] = {} =>
         HeldVars = {}

(* A try's locals do not survive it, however its body was left.            *)
TryLocalsDestroyed ==
  OwnLocals /\ RegionsClean /\ Running =>
    \A n \in Tries : \A v \in region_defs(fn.code[n].body) :
      frame.slot[v] # "held"

(* Destruction as soon as possible, and no later than that, on every path,  *)
(* edge and way out of a try.                                               *)
DestroyedInTime == DestroyedOnceUnneeded /\ NothingIsLost /\ TryLocalsDestroyed

(* The backward sweeps of both analyses reach their fixpoints. *)
LivenessReached == <>(phase \notin {"loans", "drops"})

=============================================================================
