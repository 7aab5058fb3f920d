------------------------------ MODULE VmFrames ------------------------------
(***************************************************************************)
(* The virtual machine's frame stack, src/src/backend/vm.rs: direct calls  *)
(* push a frame that the same driver goes on to run; every other call      *)
(* (constructors, destructors, dunders, any call inside a try region)      *)
(* starts a nested driver while the caller's frame is off the stack, held  *)
(* by the instruction being executed; errors travel as the Err results of  *)
(* the drivers and are met by exec_try.                                    *)
(*                                                                         *)
(* What a function does is left open: at each point the running code may   *)
(* call, enter a try, raise, return, or end its region.  `caller` of a     *)
(* frame and `leaked` record what the machine itself does not: which       *)
(* frame made the call, and which frames a failing driver left behind.     *)
(***************************************************************************)
EXTENDS Integers, Sequences, SequencesExt, FiniteSets

CONSTANTS
  MaxFrames,  \* bound on frames created in a run
  MaxTries    \* bound on try statements entered and not left

ASSUME BoundsAssumption == MaxFrames \in Nat \ {0} /\ MaxTries \in Nat

VARIABLES
  frames,   \* `frames`
  drivers,  \* the active calls of drive_frames, innermost last
  nextId,   \* `next_frame_id`
  signal,   \* the outcome being handed up, or "none" while code runs
  delivery, \* the last value delivered: the frame that got it, and who asked
  leaked    \* frames left on the stack by a driver that failed

vars == <<frames, drivers, nextId, signal, delivery, leaked>>

Ids == 1 .. MaxFrames
Errors == {"Raised", "Fault"}          \* RuntimeError::Raised, any other
Outcomes == {"Normal", "Return", "Jump"} \union Errors

Frame == [id : Ids, caller : 0 .. MaxFrames, direct : BOOLEAN, refs : SUBSET Ids]
NoFrame == [id |-> 0]

Stages == {"body", "cleanup", "handler", "else", "finally"}
TryContext ==
  [stage : Stages, final : BOOLEAN, pending : Outcomes \union {"none"}]

Driver == [target : Ids, base : 0 .. MaxFrames, held : Frame \union {NoFrame},
           tries : Seq(TryContext)]

top == Last(drivers)
SetTop(d) == [drivers EXCEPT ![Len(drivers)] = d]

(* Code runs either in the frame on top of the stack or, held by a try, in  *)
(* the region of the innermost try.                                         *)
Direct == signal = "none" /\ drivers # <<>> /\ top.held = NoFrame
InTry == signal = "none" /\ drivers # <<>> /\ top.held # NoFrame
current == IF top.held = NoFrame THEN Last(frames) ELSE top.held

(* `make_frame`; a caller hands out handles to its own slots and passes on  *)
(* those it was given, also to the constructors and closures that run in a  *)
(* nested driver.  The calls here hand on as many as they can.              *)
NewFrame(caller, direct, refs) ==
  [id |-> nextId, caller |-> caller, direct |-> direct, refs |-> refs]
NewDriver(base) ==
  [target |-> nextId, base |-> base, held |-> NoFrame, tries |-> <<>>]
Handles == {current.id} \union current.refs

Init ==
  /\ frames = <<[id |-> 1, caller |-> 0, direct |-> FALSE, refs |-> {}]>>
  /\ drivers = <<[target |-> 1, base |-> 0, held |-> NoFrame, tries |-> <<>>]>>
  /\ nextId = 2
  /\ signal = "none"
  /\ delivery = [to |-> 0, due |-> 0]
  /\ leaked = {}

-----------------------------------------------------------------------------
(* Mutant: the caller's frame is not put back. *)
DirectCallDropsCaller ==
  /\ Direct /\ nextId <= MaxFrames
  /\ frames' = Append(Front(frames), NewFrame(current.id, TRUE, Handles))
  /\ nextId' = nextId + 1
  /\ UNCHANGED <<drivers, signal, delivery, leaked>>

(* `prepare_direct_call`: the caller's frame goes back, the child on top. *)
DirectCall ==
  /\ Direct /\ nextId <= MaxFrames
  /\ frames' = Append(frames, NewFrame(current.id, TRUE, Handles))
  /\ nextId' = nextId + 1
  /\ UNCHANGED <<drivers, signal, delivery, leaked>>

(* `call_frame` out of an instruction: the caller's frame is not on the     *)
(* stack while the nested driver runs.                                      *)
NestedCall ==
  /\ Direct \/ InTry
  /\ nextId <= MaxFrames
  /\ LET rest == IF Direct THEN Front(frames) ELSE frames IN
     /\ frames' = Append(rest, NewFrame(current.id, FALSE, Handles))
     /\ drivers' = Append(SetTop([top EXCEPT !.held = current]),
                          NewDriver(Len(rest)))
  /\ nextId' = nextId + 1
  /\ UNCHANGED <<signal, delivery, leaked>>

OpenTries == FoldLeft(LAMBDA n, d : n + Len(d.tries), 0, drivers)

(* `exec_try`: run the body region with the frame held.  Whether the try    *)
(* has a `finally` is fixed here; whether it has a handler or an else part  *)
(* is left to the moment that matters.                                      *)
EnterTry ==
  /\ Direct \/ (InTry /\ Last(top.tries).stage # "cleanup")
  /\ OpenTries < MaxTries
  /\ \E final \in BOOLEAN :
       drivers' = SetTop([top EXCEPT
         !.held = current,
         !.tries = Append(@, [stage |-> "body", final |-> final, pending |-> "none"])])
  /\ frames' = IF Direct THEN Front(frames) ELSE frames
  /\ UNCHANGED <<nextId, signal, delivery, leaked>>

(* An instruction of the frame being driven fails: `?` leaves the popped    *)
(* frame behind.                                                            *)
FrameFails ==
  /\ Direct
  /\ signal' \in Errors
  /\ frames' = Front(frames)
  /\ UNCHANGED <<drivers, nextId, delivery, leaked>>

(* `run_region` comes to an end, a destructor of `run_cleanup` included. *)
RegionEnds ==
  /\ InTry
  /\ signal' \in IF Last(top.tries).stage = "cleanup"
                 THEN {"Normal"} \union Errors ELSE Outcomes
  /\ UNCHANGED <<frames, drivers, nextId, delivery, leaked>>

-----------------------------------------------------------------------------
(* The driver below goes on: with the held frame back on the stack when it  *)
(* was executing a plain instruction, else in the region of its try.        *)
Resume(ds) ==
  IF ds # <<>> /\ Last(ds).tries = <<>>
  THEN [ds EXCEPT ![Len(ds)].held = NoFrame] ELSE ds
(* Mutant: a frame held by a try goes back as well. *)
ResumeStackAlways(ds, stack) ==
  IF ds # <<>> THEN Append(stack, Last(ds).held) ELSE stack
ResumeStack(ds, stack) ==
  IF ds # <<>> /\ Last(ds).tries = <<>> THEN Append(stack, Last(ds).held) ELSE stack

(* Mutant: any frame's return ends the driver. *)
FinishAny(frame, stack) ==
  LET below == Front(drivers) IN
  /\ drivers' = Resume(below) /\ frames' = ResumeStack(below, stack)
  /\ delivery' = IF below = <<>> THEN delivery
                 ELSE [to |-> Last(below).held.id, due |-> frame.caller]
  /\ signal' = "none"
  /\ UNCHANGED <<nextId, leaked>>

(* `finish_frame` of the target: the driver returns to the frame that is    *)
(* held below it.                                                           *)
FinishTarget(frame, stack) ==
  LET below == Front(drivers) IN
  /\ frame.id = top.target
  /\ drivers' = Resume(below) /\ frames' = ResumeStack(below, stack)
  /\ delivery' = IF below = <<>> THEN delivery
                 ELSE [to |-> Last(below).held.id, due |-> frame.caller]
  /\ signal' = "none"
  /\ UNCHANGED <<nextId, leaked>>

(* `finish_frame` of another frame: its value goes to the frame that is now *)
(* on top of the stack.                                                     *)
FinishChild(frame, stack) ==
  /\ frame.id # top.target /\ frame.direct /\ stack # <<>>
  /\ frames' = stack
  /\ drivers' = SetTop([top EXCEPT !.held = NoFrame])
  /\ delivery' = [to |-> Last(stack).id, due |-> frame.caller]
  /\ signal' = "none"
  /\ UNCHANGED <<nextId, leaked>>

(* `finish_frame` finds no continuation or no frame to return to. *)
FinishLost(frame, stack) ==
  /\ frame.id # top.target /\ (~frame.direct \/ stack = <<>>)
  /\ frames' = stack
  /\ drivers' = SetTop([top EXCEPT !.held = NoFrame])
  /\ signal' = "Fault"
  /\ UNCHANGED <<nextId, delivery, leaked>>

Finish(frame, stack) ==
  \/ FinishTarget(frame, stack)
  \/ FinishChild(frame, stack)
  \/ FinishLost(frame, stack)

(* The frame being driven reaches a Return terminator. *)
FrameReturns == Direct /\ Finish(Last(frames), Front(frames))

(* The try of the held frame was the outermost: the driver acts on its flow. *)
TryOver == drivers # <<>> /\ top.held # NoFrame /\ top.tries = <<>>

TryReturns == TryOver /\ signal = "Return" /\ Finish(top.held, frames)

TryContinues ==
  /\ TryOver /\ signal \in {"Normal", "Jump"}
  /\ frames' = Append(frames, top.held)
  /\ drivers' = SetTop([top EXCEPT !.held = NoFrame])
  /\ signal' = "none"
  /\ UNCHANGED <<nextId, delivery, leaked>>

(* An error leaves `drive_frames`: the frame in hand is dropped, the frames *)
(* that wait for it below stay on the stack, and the instruction that       *)
(* called the driver fails.                                                 *)
DriverFails ==
  /\ drivers # <<>> /\ top.tries = <<>> /\ signal \in Errors
  /\ drivers' = Front(drivers)
  /\ leaked' = leaked \union {frames[i].id : i \in top.base + 1 .. Len(frames)}
  /\ UNCHANGED <<frames, nextId, signal, delivery>>

-----------------------------------------------------------------------------
(* `exec_try`: what follows the end of each region. *)
context == Last(top.tries)
Ended(stage) ==
  /\ drivers # <<>> /\ top.tries # <<>> /\ signal # "none"
  /\ context.stage = stage

(* Go on in this try. *)
Enter(stage, pending) ==
  /\ drivers' = SetTop([top EXCEPT !.tries =
       Append(Front(@), [context EXCEPT !.stage = stage, !.pending = pending])])
  /\ signal' = "none"
  /\ UNCHANGED <<frames, nextId, delivery, leaked>>

(* Leave this try; an enclosing region goes on after a normal end. *)
Leave(outcome) ==
  /\ drivers' = SetTop([top EXCEPT !.tries = Front(@)])
  /\ signal' = IF outcome = "Normal" /\ Len(top.tries) > 1 THEN "none" ELSE outcome
  /\ UNCHANGED <<frames, nextId, delivery, leaked>>

(* `finally` runs, and the outcome waits for it. *)
ToFinally(outcome) ==
  IF context.final THEN Enter("finally", outcome) ELSE Leave(outcome)

(* Mutant: an error that is not a raise skips `finally`. *)
BodyEndsFaultSkips ==
  /\ Ended("body")
  /\ IF signal = "Fault" THEN Leave("Fault") ELSE Enter("cleanup", signal)

(* A body that raised or completed has its locals destroyed; another error  *)
(* propagates.                                                              *)
BodyEnds ==
  /\ Ended("body")
  /\ IF signal = "Fault" THEN ToFinally("Fault") ELSE Enter("cleanup", signal)

(* Then the handler or the else part, if there is one, or what is pending;  *)
(* a try without `finally` has a handler.                                   *)
CleanupEnds ==
  /\ Ended("cleanup") /\ signal = "Normal"
  /\ \/ context.pending = "Raised" /\ Enter("handler", "none")
     \/ context.pending = "Normal" /\ Enter("else", "none")
     \/ /\ context.pending = "Raised" => context.final
        /\ ToFinally(context.pending)

(* A destructor fails: `?` leaves exec_try. *)
CleanupFails == Ended("cleanup") /\ signal \in Errors /\ Leave(signal)

HandlerEnds == (Ended("handler") \/ Ended("else")) /\ ToFinally(signal)

(* An outcome of `finally` other than normal wins over the pending one. *)
FinallyEnds ==
  /\ Ended("finally")
  /\ Leave(IF signal = "Normal" THEN context.pending ELSE signal)

(* No driver is left: the program has ended. *)
Over == drivers = <<>> /\ UNCHANGED vars

Code == DirectCall \/ NestedCall \/ EnterTry \/ FrameFails \/ RegionEnds \/ FrameReturns
Unwind ==
  \/ TryReturns \/ TryContinues \/ DriverFails
  \/ BodyEnds \/ CleanupEnds \/ CleanupFails \/ HandlerEnds \/ FinallyEnds

Next == Code \/ Unwind \/ Over

Spec == Init /\ [][Next]_vars

-----------------------------------------------------------------------------

OnStack == {frames[i].id : i \in DOMAIN frames}
HeldIds == {drivers[d].held.id : d \in {e \in DOMAIN drivers : drivers[e].held # NoFrame}}

(* A frame is in one place only: once on the stack, or held by one driver.  *)
(* Popping and pushing it back around every instruction never copies it.    *)
EachFrameOnce ==
  /\ \A i, j \in DOMAIN frames : frames[i].id = frames[j].id => i = j
  /\ \A d, e \in DOMAIN drivers :
       drivers[d].held # NoFrame /\ drivers[d].held = drivers[e].held => d = e
  /\ OnStack \cap HeldIds = {}

(* A driver that runs a frame finds one that was pushed since it started:   *)
(* it never eats into the frames of the driver below ("frame stack          *)
(* underflow").  Every driver below it waits in an instruction.             *)
DriversKeepApart ==
  /\ Direct => Len(frames) > top.base
  /\ \A d \in 1 .. Len(drivers) - 1 :
       /\ drivers[d].held # NoFrame
       /\ drivers[d].base <= drivers[d + 1].base
       /\ drivers[d + 1].base <= Len(frames)

(* Every frame has one owner: the stack segment of one driver, or the       *)
(* instruction that holds it.                                               *)
FramesAreOwned == EachFrameOnce /\ DriversKeepApart

(* A value is delivered to the frame that made the call, in a run in which  *)
(* no driver has failed with frames left over.                              *)
ReturnsReachCallerUnlessLeaked == leaked = {} => delivery.to = delivery.due

(* In a run in which no driver has failed with frames left over, a handle   *)
(* that running code holds leads to a frame that is alive: on the stack,    *)
(* where it resolves, or held by an instruction that waits for a nested     *)
(* call, where it is the only way to get "stale reference to frame".  What  *)
(* was called directly finds the frame that called it on the stack.         *)
RefsResolveUnlessHeldOrLeaked ==
  leaked = {} /\ (Direct \/ InTry) =>
    /\ current.refs \subseteq OnStack \union HeldIds
    /\ current.direct => current.caller \in OnStack

(* `finally` runs whatever the outcome, save that of a failing destructor.  *)
TryLeft(d) ==
  d \notin DOMAIN drivers' \/ Len(drivers'[d].tries) < Len(drivers[d].tries)
LeftOnlyFrom(stages) ==
  \A d \in DOMAIN drivers :
    drivers[d].tries # <<>> /\ TryLeft(d) /\ Last(drivers[d].tries).final
      => Last(drivers[d].tries).stage \in stages
FinallyRunsUnlessCleanupFails == [][LeftOnlyFrom({"finally", "cleanup"})]_vars

=============================================================================
