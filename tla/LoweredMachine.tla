--------------------------- MODULE LoweredMachine ---------------------------
(***************************************************************************)
(* The virtual machine (src/src/backend/vm.rs) running a lowered body, one *)
(* instruction at a time, against the meaning of the statements it was     *)
(* lowered from.  What a call or a test answers is open: the answers given *)
(* so far are `picks`, and with the same answers the statements must have  *)
(* come to the same event.                                                 *)
(*                                                                         *)
(* `stack` holds the regions being run: the function's blocks, and for a   *)
(* try (exec_try) its stage, what is pending, and above it the region that *)
(* the stage runs.  A region is found by its path from the function.       *)
(***************************************************************************)
EXTENDS MirLowering, StructuredMeaning

CONSTANTS
  Programs,  \* bodies of statements
  MaxPicks   \* bound on the answers of a run

VARIABLES
  body,   \* the statements
  code,   \* the blocks they were lowered to
  stack,  \* the regions and tries being run, innermost last
  flow,   \* how the innermost region ended, or Running
  regs,   \* registers that hold a value
  slots,  \* variables that hold a value
  picks   \* the answers given

vars == <<body, code, stack, flow, regs, slots, picks>>

Running == [t |-> "running", v |-> NoneValue]
Flow(t, v) == [t |-> t, v |-> v]
Normal == Flow("normal", NoneValue)

Region(path) == [kind |-> "region", path |-> path, block |-> 1, ip |-> 1]
TryFrame(path) == [kind |-> "try", path |-> path, stage |-> "body", pending |-> Normal]

blocks(path) ==
  FoldLeft(LAMBDA bs, p : bs[p.block].instrs[p.ip][p.part], code, path)
top == Last(stack)
current == blocks(top.path)[top.block]
InRegion == flow = Running /\ stack # <<>> /\ top.kind = "region"
AtInstr == InRegion /\ top.ip <= Len(current.instrs)
AtTerm == InRegion /\ top.ip > Len(current.instrs)
instr == current.instrs[top.ip]
SetTop(frame) == Append(Front(stack), frame)
Advanced == SetTop([top EXCEPT !.ip = @ + 1])

HasLeaf(i) == i.op \in {"leaf", "hasnext"}
AtLeaf == AtInstr /\ HasLeaf(instr)

Slot(s) == IF s \in DOMAIN slots THEN slots[s] ELSE Uninit
Operands(rs) == [i \in DOMAIN rs |-> regs[rs[i]]]
IndexOf(p) == [i \in DOMAIN p.index |-> regs[p.index[i]].n]

PendingEvent ==
  IF instr.op = "hasnext" THEN Event("hasnext", 0, <<Slot(instr.iter)>>)
  ELSE IF Len(instr.id) = 2 THEN Event(instr.id[1], instr.id[2], Operands(instr.args))
       ELSE Event(instr.id[1], 0, Operands(instr.args))
Outcome == IF instr.op = "hasnext" THEN "bool" ELSE instr.outcome

Init ==
  /\ body \in Programs
  /\ code = lower_cfg(build_fn(<<>>, body)).blocks
  /\ stack = <<Region(<<>>)>>
  /\ flow = Running
  /\ regs = <<>>
  /\ slots = <<>>
  /\ picks = <<>>

SetReg(r, v) == regs' = (r :> v) @@ regs /\ UNCHANGED slots
SetSlot(s, v) == slots' = (s :> v) @@ slots /\ UNCHANGED regs

-----------------------------------------------------------------------------
(* A call, a test, or an iterator's question is answered.                  *)
AnswerLeaf(pick) ==
  /\ AtLeaf
  /\ Len(picks) < MaxPicks
  /\ picks' = Append(picks, pick)
  /\ IF pick = "raise"
     THEN flow' = Flow("raise", Answer(PendingEvent.id, pick)) /\ UNCHANGED <<regs, slots, stack>>
     ELSE SetReg(instr.dest, Answer(PendingEvent.id, pick)) /\ stack' = Advanced /\ UNCHANGED flow
  /\ UNCHANGED <<body, code>>

(* The instructions that only move values.                                 *)
ReadPlace(p) == ReadAt(Slot(p.root), IndexOf(p))
ExecInstr ==
  /\ AtInstr
  /\ \/ instr.op = "const" /\ SetReg(instr.dest, IF instr.k = "int" THEN IntValue(instr.n)
                                                 ELSE NoneValue)
     \/ instr.op = "usevar" /\ SetReg(instr.dest, Slot(instr.var))
     \/ instr.op = "defvar" /\ SetSlot(instr.var, regs[instr.src])
     \/ instr.op = "load" /\ SetReg(instr.dest, ReadPlace(instr.place))
     \/ /\ instr.op = "store"
        /\ SetSlot(instr.place.root,
                   WriteAt(Slot(instr.place.root), IndexOf(instr.place), regs[instr.src]))
     \/ instr.op = "prim" /\ SetReg(instr.dest, Primitive(instr.n, Operands(instr.args)))
     \/ /\ instr.op = "insert"
        /\ SetSlot(instr.var, [slots[instr.var] EXCEPT !.parts = Append(@, regs[instr.src])])
     \/ instr.op = "getiter" /\ UNCHANGED <<regs, slots>>
     \/ instr.op = "next" /\ SetReg(instr.dest, Item(Slot(instr.iter)))
  /\ stack' = Advanced
  /\ UNCHANGED <<body, code, flow, picks>>

ExecRaise ==
  /\ AtInstr
  /\ \/ instr.op = "raise" /\ flow' = Flow("raise", regs[instr.src])
     \/ instr.op = "unsupported" /\ flow' = Flow("fault", NoneValue)
  /\ UNCHANGED <<body, code, stack, regs, slots, picks>>

(* exec_try: the body runs first.                                          *)
PartPath(part) == Append(top.path, [block |-> top.block, ip |-> top.ip, part |-> part])
ExecTryInstr ==
  /\ AtInstr
  /\ instr.op = "try"
  /\ stack' = stack \o <<TryFrame(top.path), Region(PartPath("body"))>>
  /\ UNCHANGED <<body, code, flow, regs, slots, picks>>

ExecTerm ==
  /\ AtTerm
  /\ LET t == current.term
         Go(b) == /\ stack' = SetTop([top EXCEPT !.block = b, !.ip = 1])
                  /\ UNCHANGED flow
         End(f) == flow' = f /\ UNCHANGED stack
     IN  CASE t.op = "jump"    -> Go(t.to)
           [] t.op = "branch"  -> Go(IF True(regs[t.cond]) THEN t.then_b ELSE t.else_b)
           [] t.op = "return"  -> End(Flow("return", regs[t.src]))
           [] t.op = "escape"  -> End(Flow("jump", IntValue(t.to)))
           [] t.op = "falloff" -> End(Normal)
  /\ UNCHANGED <<body, code, regs, slots, picks>>

-----------------------------------------------------------------------------
(* The end of a region.  In the function's own blocks a jump that left a   *)
(* try goes on at its target, and anything else ends the function.         *)
try == stack[Len(stack) - 1]
owner == stack[Len(stack) - 2]
tryInstr == blocks(try.path)[owner.block].instrs[owner.ip]
Stopped == flow # Running /\ stack # <<>>

Escape ==
  /\ Stopped
  /\ Len(stack) = 1
  /\ flow.t = "jump"
  /\ stack' = SetTop([top EXCEPT !.block = flow.v.n, !.ip = 1])
  /\ flow' = Running
  /\ UNCHANGED <<body, code, regs, slots, picks>>

Finish ==
  /\ Stopped
  /\ Len(stack) = 1
  /\ flow.t # "jump"
  /\ stack' = <<>>
  /\ UNCHANGED <<body, code, flow, regs, slots, picks>>

RunStage(stage, pending) ==
  /\ stack' = SubSeq(stack, 1, Len(stack) - 2)
       \o <<[try EXCEPT !.stage = stage, !.pending = pending],
            Region(Append(try.path, [block |-> owner.block, ip |-> owner.ip, part |-> stage]))>>
  /\ flow' = Running

EndOfRegion(stage) == Stopped /\ Len(stack) > 1 /\ try.stage = stage

HandleRaise ==
  /\ EndOfRegion("body")
  /\ flow.t = "raise" /\ tryInstr.handles
  /\ slots' = IF tryInstr.slot = 0 THEN slots ELSE (tryInstr.slot :> flow.v) @@ slots
  /\ RunStage("handler", Normal)
  /\ UNCHANGED <<body, code, regs, picks>>

RunElse ==
  /\ EndOfRegion("body")
  /\ flow = Normal
  /\ RunStage("orelse", Normal)
  /\ UNCHANGED <<body, code, regs, slots, picks>>

RunFinally ==
  /\ \/ EndOfRegion("body") /\ flow # Normal /\ ~(flow.t = "raise" /\ tryInstr.handles)
     \/ EndOfRegion("handler") \/ EndOfRegion("orelse")
  /\ RunStage("final", flow)
  /\ UNCHANGED <<body, code, regs, slots, picks>>

LeaveTry ==
  /\ EndOfRegion("final")
  /\ LET outcome == IF flow = Normal THEN try.pending ELSE flow
         around == SubSeq(stack, 1, Len(stack) - 2)
     IN  IF outcome = Normal
         THEN /\ stack' = [around EXCEPT ![Len(around)].ip = @ + 1]
              /\ flow' = Running
         ELSE /\ stack' = around
              /\ flow' = outcome
  /\ UNCHANGED <<body, code, regs, slots, picks>>

Internal ==
  \/ ExecInstr \/ ExecRaise \/ ExecTryInstr \/ ExecTerm \/ Escape \/ Finish
  \/ HandleRaise \/ RunElse \/ RunFinally \/ LeaveTry
Next == Internal \/ (AtLeaf /\ \E pick \in Answers(Outcome) : AnswerLeaf(pick))

Spec == Init /\ [][Next]_vars /\ WF_vars(Next)

-----------------------------------------------------------------------------
Done == stack = <<>>
Asked == AtLeaf

(* The limit that mir/ir.rs states: a break or continue that leaves a try  *)
(* for a loop inside the region of another try.  A loop absorbs those of   *)
(* its body, not those of its `else`.                                      *)
RECURSIVE Leaves(_)
Leaves(b) ==
  \E i \in DOMAIN b :
    LET s == b[i] IN
    CASE s.k \in {"break", "continue"} -> TRUE
      [] s.k \in {"while", "for"} -> Leaves(s.orelse)
      [] OTHER -> \E c \in SubBodies(s) : Leaves(c)
RECURSIVE LeavesTryInTry(_, _, _)
LeavesTryInTry(b, in_try, in_loop) ==
  \E i \in DOMAIN b :
    LET s == b[i] IN
    CASE s.k = "try" -> (in_try /\ in_loop /\ Leaves(<<s>>))
                        \/ \E c \in SubBodies(s) : LeavesTryInTry(c, TRUE, FALSE)
      [] s.k \in {"while", "for"} ->
           LeavesTryInTry(s.body, in_try, TRUE) \/ LeavesTryInTry(s.orelse, in_try, in_loop)
      [] OTHER -> \E c \in SubBodies(s) : LeavesTryInTry(c, in_try, in_loop)

(* Lowered code means what its statements mean: with the same answers it   *)
(* comes to the same call, test or iterator with the same operands, and it *)
(* ends in the same way with the same value, never with a fault.           *)
MeansTheSame ==
  ~LeavesTryInTry(body, FALSE, FALSE) =>
    LET m == Meaning(body, picks)
    IN  /\ Asked => m.out = "stop" /\ m.event = PendingEvent
        /\ Done => m.out = flow.t /\ m.val = flow.v

(* Between two answers the code takes finitely many steps: a run ends or   *)
(* asks until no more answers are given.                                   *)
AnswersSuffice == <>[](Done \/ (Asked /\ Len(picks) = MaxPicks))
=============================================================================
