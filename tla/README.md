# Verification of mojito

`mojito` compiles and runs a subset of Mojo: source text is lexed, parsed,
linked with the modules it imports, elaborated at compile time, type-checked,
lowered to a control-flow graph (HIR) and to register code (MIR), verified,
analysed for ownership, given destructor calls, and executed by a register
virtual machine. This directory holds TLA+ models of the parts of that pipeline
whose behaviour is hardest to test, the TLC configurations that check them, and
TLAPS proofs. File names below are relative to the repository.

## The system

| Component | State it keeps | Operations | What is hard | What makes it correct | Module |
|---|---|---|---|---|---|
| Lexer, `src/lexer.rs` | indents, delimiter depth, queue | one token a call | blank lines, brackets, end of input | blocks follow the offside rule | `Lexer` |
| Parser, `src/parser.rs` | token cursor, errors | recursive descent, recovery | lookahead, what a bracket means, one error hiding another | text parses to the tree it is written for; each mistake is reported once; the report ends | `Parser`, `Frontend` |
| Module linking, `src/module.rs` | loaded files, exports, hoisted declarations | depth-first loading | recursion into half-filled tables | each module once, dependencies first, names resolve | `ModuleLinker` |
| Compile-time elaboration, `src/comptime.rs` | constants, fuel, jobs | elaborate, evaluate on the machine, specialise | shared fuel, templates requested from everywhere | the elaborated program means the same; templates once, before their callers | `Comptime` |
| Checker, `src/checker.rs`, and call matching, `src/call.rs` | scopes, candidates | overloads, conversions, borrow check of a call, binding | limits, collectors, aliases | a parameter gets the argument the declaration says | `CallMatching` |
| Explicit destruction, `src/explicit_destroy.rs` | obligations per variable | structured dataflow | partial moves, branches, loops | a linear value is destroyed once by name | `ExplicitDestroy` |
| HIR lowering, `src/hir/mod.rs` | blocks, slots, loop frames | statements to blocks | jumps through loops and tries, shadowing | the graph runs the statements | `HirLowering` |
| MIR lowering, `src/mir/mod.rs` | registers, regions, aliases | expressions to instructions | order and number of evaluations | the same | `MirLowering` |
| MIR verifier, `src/mir/verify.rs` | none | one pass | regions in regions | it accepts what lowering makes and rejects what the machine cannot run | `MirVerifier` |
| Move analysis, `src/analysis/mod.rs` | a place tree per variable and block | sweeps to a fixpoint, reporting | merges with blocks not visited, partial moves | accepted code never meets a moved value | `MoveAnalysis`, `PlaceTree` |
| Loan analysis and drop elaboration, same file | liveness and loans per block | backward sweeps, drops, split edges, try cleanups | several ways into a block, jumps out of tries | destroyed once, after the last use; references stay exclusive | `LoanAnalysis`, `DropElaboration` |
| Machine: frames, `src/backend/vm.rs` | frame stack, drivers, outcome | calls, tries, returns | errors across frames | a return reaches its caller, `finally` runs | `VmFrames` |
| Machine: calls | the caller's store, the callee's frame | four ways to call | write-back, references | the caller's store is what the declaration means | `Calls` |
| Machine: values | slots, registers | move, copy, insert, take, destroy | tombstones by hand | one owner, destroyed once, in order | `Values` |

How they interact: every stage hands a value to the next and keeps nothing, with
three exceptions. The linker recurses into itself while its tables are half
filled; compile-time elaboration calls the machine, with shared fuel; and the
backend lowers and elaborates the checked program a second time, so that the MIR
that was analysed and the MIR that runs are two values made by one function.
Inside the machine, the frame stack, the drivers and the reference handles are
shared by all the calls in progress. There are no threads, no persistence and no
timeouts; what makes the code hard is the order of long chains of legal steps,
failures in the middle of them, and fixpoints.

The models compose along the pipeline: `MCLowering` puts statements through
`HirLowering`, `MirLowering` and `MirVerifier` and runs the result on
`LoweredMachine`; `MoveAnalysis`, `DropElaboration` and `ExplicitDestroy` hold an
analysis and the execution of what it let through; `Comptime` elaborates and runs
the result next to the source; `Calls` checks, lowers and makes a call.

## Modules

A definition whose comment begins with "Mutant" is the definition after it as a
plausible bug would have it; the specifications do not use it. Each property of a
passing run is refuted when its mutant takes the definition's place, so that none
holds by the shape of a model.

### Lexer, parser and report: `Lexer`, `Parser`, `Unparse`, `Frontend`

A turn of the lexer's `next` is an action: pending tokens (Drain), the end of
input, blank lines, the offside rule at a line's start, line ends, brackets,
continuations, a lexeme, a mistake. One character of the model is a blank, a line
end, a bracket or a whole lexeme; a T-string is one whose interpolations parse, or one
in which some do not. The parser's functions are sequences of parts
on a stack of trees, decided by one token of lookahead as in the code. `Frontend`
runs the strict parse, which stops at the first error, and the report of
`mojito parse`, which discards, skips to a boundary and goes on.

`Unparse` is the reference: trees are printed, with brackets where the documented
precedences need them, in five layouts, and must be read back, except exactly where a
transfer does not bind as documented (ReadsBackUnlessTransferred). The
blocks of lines must be those an independent reading of their indentation gives
(OffsideRule). Of lines some of which are wrong each mistake must be reported
once and the other lines kept, and the report must have no errors exactly when
the strict parse succeeds (ReportIsFaithful). The report ends, the lexer panics or
recovery stands still at one character, each exactly where it is said to
(ReportEndsUnlessStuckInside).

### Linking: `ModuleLinker`

The stack of `load_module` activations with the bindings of each, `loaded`,
`exports`, the names of `namespace_exports` and the hoisted modules. LoadModule
is the recursive call, Hoist its end; BindNamespace, BindWildcard and BindName
bind an import when all it loads is loaded; LoadFails, RejectName and IndexFails
end linking, the last by a panic. An import comes with the files it resolves to.
LinkerReference defines from the import graph what a module has to export
(Provides), to be compared (ExportsAreExact), and which programs there are to link:
LinkedUnlessCyclicOrWrong says that exactly the programs without a cycle, an unreadable
file or a missing name are linked, and ties each way to fail to its reason, the panic to
a cycle through the stack (ImportCycle). Two of the run's files have paths that are
mangled alike.

### Compile time: `ProgramMeaning`, `Comptime`

Programs are trees of one shape. Comptime's actions are one top-level statement
elaborated, the materialisation of constants, and one specialisation job; each
returns what fuel is left.
`ProgramMeaning` is the reference: the source is run as staged code, in which the
compile-time constructs are ordinary ones that see compile-time names only, and
must behave as the elaborated program does on the machine
(MeaningIsKeptUnlessLeftOver), where the checker, which takes definitions in their
order, can take it (CalleesComeFirstUnlessShared says when it cannot).

### Calls: `CallMatching`, `Calls`

`CallMatching` has the matcher of `call.rs` with markers, defaults and both
collectors, the candidates' conversions, ranks and ambiguity of `checker.rs`, the
borrow check of one call, and the binder of the machine. `Calls` takes one call
through Check, the evaluation of receiver, arguments and keywords in the order
that they are lowered, Bind, the callee's writes and Return, in the four ways the
machine has. MCCalls says from the declaration alone which argument a parameter
means and what the caller's places hold afterwards.

### Explicit destruction: `ExplicitDestroy`

An action checks one statement of a function's body; the environments are the
code's scopes of obligations. MCExplicitDestroy executes the same statements on
values, and compares what is owed with what is held at the same point of every
execution (ObligationsAreExact): it is a reference, not a translation.

### Lowering: `HirLowering`, `MirLowering`, `StructuredMeaning`, `LoweredMachine`, `MirVerifier`

The lowerings are pure operators that thread the code's cursors (`Lower`,
`Flatten`) through the statements and expressions in the order the code visits
them. `StructuredMeaning` is the abstract specification: what statements mean by
lexical scope. A call or test is a leaf whose answer is open; `LoweredMachine`
executes the blocks one instruction at a time with the answers given so far, and
with the same answers the statements must ask the same next question with the
same operands, or end in the same way (MeansTheSame). What is lowered must pass
the verifier, and what raises must fail it in a function declared not to
(VerifierAgrees).

### Moves: `PlaceState`, `MoveAnalysis`, `MoveReference`, `PlacePaths`, `PlaceTree`

A node of the graph is one instruction and a block a chain of nodes, so that
`cursor` is the position in a sweep, `visited`, `ins` and `outs` are `in_states`
and `out_states` with their `Option`, and `changed` is the loop's flag. SkipNode,
KeepNode and UpdateNode are the three ways through the body of the `for`;
NextSweep and EndFixpoint are the test of the `while`; ReportClean,
ReportViolation and Accept are the reporting pass. The same module then runs the
accepted function: `tombs` are the places of each slot that hold `Value::Moved`,
and TouchMoved is the machine meeting one. `MoveReference` says what there is to find
out: the tombstones with which executions that take every path and stop at no fault
arrive at each node (`Arrivals`), and their summary in the analysis' three states.

In `PlaceState` a state is a total function from places, which are paths of keys
(`PlacePaths`). The code stores a tree with a base state and only some children.
`PlaceTree` models that: a tree is the
function from the places that have a node to the bases of these nodes, an operation
that recurs along a path visits the nodes on its way, and a missing node has the base of
the nearest one around it. The total function runs beside it: TreeDenotesMap is the
refinement that allows `MoveAnalysis` to work with functions. `MCMoveAnalysis` runs the
trees beside the analysis, for the simplest function.

### Loans and drops: `LoanAnalysis`, `DropElaboration`

`LoanAnalysis` says what an instruction uses, defines, moves and accesses, and
when an access conflicts with a loan. In `DropElaboration` the backward sweeps
run node by node; then the drops after last uses, at block entries, on split
edges and in the cleanups of tries are placed, and the machine runs the function
with them. UsesFindValues, DestroyedInTime and ReferencesAreExclusive compare
destructions and accesses with the uses of that execution.

### Frames: `VmFrames`

`frames` is the stack, `drivers` the Rust activations of `drive_frames` with the
frame each holds while an instruction executes and the `exec_try` contexts open
in it. Program code is left open: wherever code runs it may call directly (a frame
on the same driver), call nested (a new driver), enter a try, fail, return or end
its region. Unwind actions are forced: what a driver or an `exec_try` does with
the outcome (`signal`) it is given. `caller` and `leaked` are recorded by the
model only.

### Values: `Values`

One frame's variables and the registers not read yet. A struct with a destructor
carries the identity of the object it is, which the code does not have; with it,
a copy that runs no `__copyinit__` or a value left in two places shows. Each
instruction that moves, builds, takes apart or destroys a value is an action, in
any order that the checker's guarantees to that instruction allow; `dead` lists
whose `__del__` the last instruction ran, in order. OwnedOnce says that ownership
is unique, TransfersLoseNothing that objects are conserved, DestructionOrder in
which order they die.

## Runs

| Run | Shows |
|---|---|
| `moves` | acceptance is sound for functions that hide no move, the reporting pass sees a fixpoint, facts of accepted functions are exact, rejections have an execution that faults, the sweeps end unless stores meet moves in a slow cycle; trees denote the functions that the analysis is modelled with |
| `move_in_try` (violation) | a move inside a try or closure and a use after it are accepted and fault |
| `sweeps_end` (violation) | the sweeps over a loop in a branch in a loop need not end |
| `drops` | drops come after the last use and no later on every path and edge; accepted references stay exclusive; a try's locals do not survive it; the sweeps end |
| `vm_frames` | frames are never lost, doubled or eaten by another driver; values reach callers while no failing driver has left frames; handles lead to frames that are alive; `finally` runs unless a destructor fails |
| `values` | one owner per object, none lost but by the three instructions that forget, destroyed whole, outermost first, later parts first |
| `calls` | the candidate, the frame and the caller's store are what the declarations mean; the writes of an accepted call are exclusive |
| `lowering` | lowered bodies mean what their statements mean, pass the verifier, and come to an end |
| `explicit_destroy` | obligations are what executions hold; accepted functions lose none, rejected ones would |
| `comptime` | elaboration keeps the meaning, rejects with reason, defines specialisations once, before their callers unless shared |
| `frontend` | printed programs are read back but for loose transfers, blocks follow the offside rule, reports are faithful, and end but where recovery hangs or the lexer panics |
| `module_linker` | modules once and after their imports, exports exact, linked exactly when acyclic and complete, linking ends |

The runs that expect a violation check what a comment of the machine says of the
analysis and what a comment of the analysis says of itself. They are among the
`findings` in `PROJECT.json`, which also has the disagreements that a guard of a passing
run leaves out.

### Bounds

- `moves`: one variable (variables do not interact in the analysis), the fields
  `a`, `b`, `a.c` and an index of `a`, so that enclosing, inner, sibling and
  dynamic places occur; a branch whose join is numbered before its arms, a loop
  with an early exit, code after a return, and a loop in a branch in a loop, with
  every filling of the marked slots: moves, definitions, uses, and moves and stores of a
  field. The theorems hold of every function; the shapes matter to exactness,
  justification and termination. The trees are explored beside the simplest of the
  functions: the root, two fields and a field of a field, completely, so that the number
  of operations on them has no bound.
- `sweeps_end`: the loop in a branch in a loop with a move, a definition, a store or nothing
  at each of three nodes, which is enough for two facts to chase one another.
- `drops`: two values and a reference; a branch, a loop with an early exit,
  straight lines and loops of loans, and a loop around a try with escapes; lines of
  five instructions with two references, one of them with several loans, taken in
  either order.
- `vm_frames`: five frames in a run and two open tries. A driver that fails with
  frames left needs three frames and the delivery to a wrong one four; a nested
  driver inside a region inside a nested driver needs two tries.
- `values`: four objects held at a time, so that a dictionary entry meets another
  with its key and value; three registers or variables in use; five values, parts
  included; one variable, since no instruction moves between variables but through
  registers. Elements are structs, or variants in a set; fields have no parts.
  Identities are used again, so that sequences of instructions have no bound.
- `calls`: two candidates, three positional arguments, two keywords, one forwarded
  dictionary, two writes by a callee (`MaxWrites`): what a marker, collector or
  default shifts is one parameter before or behind it.
- `lowering`: bodies that nest two constructs, or three where tries are involved,
  seven answers (`MaxPicks`), which is two turns of a loop with its body's leaves.
- `explicit_destroy`: a linear pair of linear fields; two or three statements of
  each kind in a row, in branches, scopes, loops, tries and expressions.
- `comptime`: integers to 50 (`MaxInt`), 36 units of fuel, call depth 20
  (`MaxDeep`), 300 steps for the reference (`RunFuel`): more than the programs
  need, except those that run on, for which the fuel has to end it.
- `frontend`: every form of expression in every operand of every other; layouts
  with every small indentation; three mistaken or correct lines; at most four
  errors (`MaxErrors`), so that the report is also cut short.
- `module_linker`: an entry, three modules and a file that cannot be read; two
  imports a file; all forms of import, also inside bodies; a dotted import whose
  prefix is a package; a file under two paths; cycles of length one to three.

### Fairness

`MoveAnalysis`, `DropElaboration`, `ModuleLinker`, `Frontend` and the lowered
machine have weak fairness of their next step: each is a loop, or a recursion, of
one thread, which takes its next step as long as there is one. It is what
SweepsEndUnlessUnsteady, LivenessReached, LinkingEnds, ReportEndsUnlessStuckInside and
AnswersSuffice rest on; the last says that a body asks for ever more answers or ends, which are open
only in number. No fairness is assumed of code that the machine runs in `VmFrames`,
`Values` and `Calls`, which claim no liveness; `Comptime` replaces it by fuel.

### What the guards of the properties leave out

The code does less in some places than its text promises. There the properties
have a guard, so that the rest can be checked; each guard is named here.

- *Moves.* `Transparent`: no move in a try or closure (the run `move_in_try`).
  NoDeadCode: facts at unreachable blocks count in merges
  (`src/analysis/mod.rs:1282`, though 1271-1272 says otherwise), so that code after
  a return may get a live function rejected. ElementsStay: all elements are one place,
  which no store by index makes whole again (`src/analysis/mod.rs:1222-1224` says so), so
  that moving an element of a variant out (`src/mir/mod.rs:1417`) and storing to
  another is rejected though no execution fails. UnsteadyFunctions: the sweeps need not
  end (`src/analysis/mod.rs:1277`). A store to a field does nothing where the variable
  is Moved, but leaves the field Owned where it is MaybeMoved, so that facts do not only
  grow: an early one can circulate in a cycle that one sweep does not get around and
  be renewed on each turn (`while c: if d: consume(x^); while e: x = new(); x.f = 1`).
  SweepsEndUnlessUnsteady leaves out the functions that store into a place they move and
  have a cycle with two edges back; the run `sweeps_end` shows such functions, for which
  the compiler hangs.
- *Drops.* Each of the guards was found necessary: TLC refutes a property without it.
  OwnLocals: a try's cleanup also drops outer variables that its body only reassigns
  (`src/analysis/mod.rs:159`). EscapesSeen: an escape is no edge for the liveness, so
  that what only its target needs is dropped before. OwnersSeen: the cleanup of an
  escape spares what the `finally` uses (`src/analysis/mod.rs:286-297`) but not the
  owner behind a reference that it uses, and loans that begin in a region are not
  followed to their owners (399-413). For the end of values: EscapesDropped, as what the
  `finally` uses, or another region moves, is in no cleanup of the escape and stays,
  unless the entry of its target drops it; RegionsClean, as a handler's, an else's or a
  finally's definitions are in no cleanup, and a second definition in a body overwrites
  the first; WritebacksUsed, ParametersUsed, NoLeave and Outliving, for places written
  back and parameters that nothing uses, returns from inside a try, and owners behind
  references. A borrowed parameter is the caller's to destroy.
  Receivers and argument places are not accessed through a reference (`IsInstr`): a
  method call counts no use of it (`src/analysis/mod.rs:107`), so that the reference may
  die between the load of the receiver and the call. A receiver consumed by a named destructor is
  dropped before its fields are destroyed (`src/backend/vm.rs:2640` with 2643,
  `src/mir/mod.rs:1571`).
- *Frames.* A raise that a nested driver's handler catches leaves the frames of
  direct calls behind (`src/backend/vm.rs:459`; docs/vm-instruction-set.md:562-564
  say they are unwound): ReturnsReachCallerUnlessLeaked. A nested constructor cannot
  use a handle to its caller's frame (`src/backend/vm.rs:824`; 1754-1756 expect it),
  which its caller holds: RefsResolveUnlessHeldOrLeaked. A destructor that fails between a body and its handler
  skips `finally` (`src/backend/vm.rs:2734`; 2710, 2761).
- *Values.* The code has no check against them, and the model takes the steps:
  the elements of a cleared list, an element added to a set that has it, and a field
  that is overwritten are lost without their destructors (TransfersLoseNothing says
  that these are all). `Set(a, b)` fails on structs, which the literal `{a, b}`
  compares, though the comment above it (`src/backend/vm.rs:3334`) says they insert
  alike. The `__del__` of a struct with a field moved out runs and sees the hole.
  Not in the model: a dictionary store over an existing key and `free` forget what
  they replace, and reads of structs with `__copyinit__` in borrowed positions make
  copies that nothing destroys (`src/backend/vm.rs:1693`).
- *Calls.* Undisturbed and References: an argument that is loaded before a later one
  writes it keeps the old value in a try (`f(x, bump(x))`; docs/vm-instruction-set.md:226-227),
  the receiver's write-back covers what the arguments did
  (`src/mir/mod.rs:1555`, `src/backend/vm.rs:3086`), an alias of the receiver is not
  compared (`src/checker/places.rs:51-79`; README.md:332), and constructors make
  references by position (`src/backend/vm.rs:1772`). An `out` parameter before a
  marker shifts the limits (`src/call.rs:108`; `src/mir/mod.rs:3519-3522`). A raise
  in a write-back call loses all its writes. A `mut` parameter whose argument is a
  default, a temporary or a keyword fails when run.
- *Lowering.* The bodies shadow no name in a loop's body or at the top of a try
  (`src/hir/mod.rs:1088` opens no scope; `src/checker.rs:2086`,
  conformance/parity.tsv:36), have no statement that is kept whole, as `x += 1`, in a
  scope that hides its variable (`src/hir/mod.rs:1395` keeps the source's name, and the
  outer variable changes), no `continue` in a `for ref` (`src/hir/mod.rs:1194`
  jumps past the increment), no reference taken twice from an expression that changes
  (`src/mir/mod.rs:2537`), and no receiver that its arguments change. LeavesTryInTry:
  a jump from a try in a try out of a loop around both is Unsupported, as
  `src/mir/ir.rs:12` says; `finally` runs all the same.
- *Explicit destruction.* Programs that use a value already moved are excluded (the
  move analysis rejects them). Named exceptions: `break` and `continue` check only the
  innermost scope (jumped), calls that raise do not check what is live (interrupted,
  given, handled), a live linear field may be overwritten (replaced), an aggregate made
  whole by field stores owes its fields only (rebuilt). Branches that declare linear
  values are joined by index. `if a: (if b: return else: return)` panics
  (`src/explicit_destroy.rs:862`, 278, 83); the run's functions have no such `if`.
- *Compile time.* The programs do not nest `comptime for` over one name
  (`src/comptime.rs:481`), divide by a negative number (`src/comptime.rs:1225`), shadow a
  top-level constant, redefine one, or call templates in the `else` of a loop.
  Specialisations are emitted in the reverse order of requests, not by dependencies
  (`src/comptime.rs:2132`, against 2124-2126): CalleesComeFirstUnlessShared says that one
  that two definitions call is the only one that can follow a caller, and
  MeaningIsKeptUnlessLeftOver leaves out programs where one does. Substitution does not
  enter T-strings, calls of values, brace literals and comprehensions
  (`src/comptime/rewrite.rs:503`, 576-582), nor specialisation the first two
  (`src/comptime.rs:2394`, 2529), against `src/comptime.rs:28-29`: a constant used there stops
  the program, and nothing else does. The fuel does not bound all work: a `range`
  (`src/comptime.rs:1276`) and doubled operands (1198, 1208) are free, against 47-49.
- *Front end.* In a statement, a character that starts no token is never consumed, and
  recovery meets the same error for ever (`src/parser.rs:257` with 224, against 228-229);
  between statements it fills the report. A last line of blanks at the current
  indentation panics (`src/lexer.rs:537`). ReportEndsUnlessStuckInside says that the
  report ends in all other cases and what happens in these two. Postfix `^` binds as a
  sum does, and after a group not at all, against docs/frontend.md:510-512:
  ReadsBackUnlessTransferred says that exactly the programs in which that matters are
  misread or rejected. `xs[ys[0] + 1]` is a syntax error and `xs[ys[0]]` a type
  application: the printer brackets them. An error found at a line's end takes the next
  line with it; `return;` is rejected; an error after an `if` block takes the `if` along.
- *Linking.* No import cycle is broken: each panics (`src/module.rs:308`) or ends with a
  name that is not found, although `src/module.rs:189` and docs/architecture.md:161-162
  promise that cycles are broken; LinkedUnlessCyclicOrWrong says so, and is named for it.
  Paths that differ only in separators, and relative paths of equal names, share linked
  names (`src/module.rs:666`, 628; against 3 and docs/architecture.md:160), so that no
  property says that linked names are unique; ClashesAreMangled says when they are.

## Proofs

`MoveAnalysisProofs` proves theorems of `MoveAnalysis` for every set of variables,
of places and of functions, from two assumptions: `PathsAssumption` (the places form a
tree under `Under`: a partial order in which the places around one lie on one path,
each but the whole variable has a nearest one around it, and the whole variable is
above them all) and `FunctionsAssumption` (nothing jumps to node 0, the entry block).

- `TypeCorrect`: type correctness.
- `Invariant`: the inductive invariant `IInv` below.
- `AcceptedIsSound`: a function that the analysis accepts never touches a moved
  value, unless it moves inside a try or into a closure.
- `FixpointIsConsistent`: the reporting pass and the machine only see facts that
  agree with one another.

Soundness is not inductive: that no fault has occurred says nothing about the next
instruction. `IInv` adds, in the order of the argument, that visited nodes have a
visited predecessor (`VisitedReached`); that in a sweep without changes the nodes
behind the cursor are consistent, and all are once it is over (`SweepConsistent`);
that the reporting pass found nothing behind its cursor (`ReportedClean`); and that
the tombstones of the running machine are covered by the facts of its node, so that
a place with a tombstone is not Owned (`MachineCovered`). The lemmas `TouchSound`
(where the check finds Owned the machine touches no tombstone), `EffectSound` (an
instruction keeps coverage) and `JoinCovers` (a join keeps it) are the transfer
functions' part of the simulation; the steps of `MachineCoveredStep` put them
together.

`MoveExactProofs` proves the other direction, for the same functions and finitely many
variables and places (`FiniteAssumption`): `RejectionsHaveReasons` (a rejected function
has an execution that touches a moved value where the verdict says) and `FactsAreExact`
(the facts of a function that passes are the summary of its arrivals, though the
transfer function is not even monotone). The invariant (`ExactInvariant`) says
that each fact is brought about at every point of the sweeps, not only at the fixpoint:
where it does not say Owned some arrival finds the place gone, where it does not say
Moved some arrival finds it there (`Witnessed`). A store under a Moved place is what
makes that delicate: do_def leaves the place alone, because the arrivals that prove the
outer place gone cannot reach it, and otherwise the nearest place around it has an
arrival that finds all of them there (`StoreReaches`). Exactness then needs that the
facts hold of every arrival (`FactsHold`): the sets of tombstones of which they hold are
closed under steps, and the arrivals are the least such sets. That `Arrivals`, which is
defined by recursion, is this least fixpoint is proved in `LeastFixpoint`: a function
that follows a step exists, and from the empty family a monotone step on finite families
reaches its least fixpoint, by well-founded descent on what is missing.

`PlaceTreeProofs` connects these theorems to the trees that the code stores, for every
set of keys and every set of paths of keys that is closed under prefixes
(`PlacesAssumption`). `PlacesFormATree` shows that such paths satisfy
`PathsAssumption`. `TreesRefineMaps` is the refinement: its invariant (`TreesDenote`)
says that a tree denotes the function beside it, which gives each place the base of the
innermost node around it. One lemma per operation shows that it commutes with
denotation: what is removed and created along a path (`ReplaceDenotes`), the inherited
bases of a merge (`JoinDenotes`), the outermost node that refuses a read or write
(`RefusalsAgree`). `MovedIsUniform` is what do_def relies on where it returns at a Moved
node: the comment at `src/analysis/mod.rs:969` says that such a node has no children,
which a field moved after the whole makes false (a program that is rejected, but only
after the sweeps); its children are then Moved too.

`VmFramesHand` and `VmFramesProofs` prove the safety of `VmFrames` for every bound on
frames and tries; `BoundsAssumption` only says what those bounds are. `FramesStayOwned`,
`HandlesResolve`, `ReturnsReachCaller` and `FinallyRuns` are the run's four safety
properties.

That each frame has one owner does not follow from itself: a step could hand out an id
again, or pop a frame that another driver waits for. `IInv` (theorem `FramesInvariant`)
adds that ids are fresh and in one place (`Fresh`, `Once`), that a driver that holds
nothing is the innermost and in no try (`Waiting`), that the drivers' bases are ordered
and within the stack (`Bases`), and that the frame a driver waits for is in its hand or
in its segment (`Targets`). Along with it holds, while nothing has leaked, that each
frame was called by the one below it, in its driver's segment or in the hand of the
driver below, and has no other handles than its caller had or is (`Chain`).
HandlesResolve follows by induction up the stack (`AllResolve`). The actions are instances of seven steps
on the frame in hand: call directly, hold, resume, drop, leave the driver, nest, return.
For each step, lemmas say what happens to owners and callers, and each action is
reduced to its step. FinallyRuns needs besides that the tries of waiting drivers stay.

`ModuleLinkerProofs` proves, for every set of files and programs and every mangling
(`LinkerAssumption` only types them), that dependencies come first
(`DependenciesComeFirst`), that the names bound and exported stand for hoisted
declarations (`NamesAreLinked`), that only an import cycle panics (`PanicsAreCycles`)
and that two declarations can share a linked name only if two paths are mangled alike
(`ClashesAreMangled`). The invariant (`LinkerInvariant`) adds that what the bound imports
of an activation load is hoisted (`ImportsDone`), so that a module whose imports are over
may be hoisted; that a loaded file is hoisted or has one activation (`LoadedOnce`); and
that an activation was started by an import of the one below (`Chained`), which with
LoadedOnce is the cycle: what is loaded and not hoisted is on the stack. TLC checked
these invariants on the runs' programs first.

Its second half compares the linker with its reference, for the same programs:
`LinkingIsExact` (a program is linked exactly when its entry reaches no cycle, no file
that cannot be read and no name that is not provided, and each failure has its reason)
and `ExportsAreAsProvided` (a hoisted module exports exactly what it provides). Provides is defined
by recursion along the imports, which has no base in a cyclic graph; so the
invariant (`ExactInvariant`) speaks of every solution of its equation: hoisted modules
export, and activations have bound so far, the names of each solution (`NamesProvided`).
That Provides is a solution is an instance of MonotoneHasFixpoint in `LeastFixpoint`: a
module provides no less when others provide more. `StackReached` gives each cycle: an
activation is reached from those below it, so that an import of any file of the stack
leads back to the module on top. That what is linked has no cycle follows from the order
of hoisting (`HoistedAcyclic`), and that it lacks no file and no name from a last
invariant (`LinksChecked`): loaded files are readable, and the names that bound imports
ask for are exported.

`DropElaborationProofs` proves the three safety properties of the run `drops`,
`ReferencesStayExclusive`, `ValuesAreFound` and `DestroyedOnTime`, for every
graph, every set of variables, any number of references and loans, and tries with
regions of any length. `FunctionsAssumption` types the instructions and says how the
lowering begins loans: a reference statement begins one, and one reference only
(`src/mir/mod.rs:2539-2549`, its variable being its own, `src/hir/mod.rs:1339`); an
aggregate or the result of a call is defined first, and its loans begin one after the
other behind the definition (`src/mir/mod.rs:2024-2040`, 2495-2537). The assumption
matters: TLC refutes ReferencesAreExclusive when the run's functions include others,
since a loan is checked against those of live references only, and a reference is not
live before its last loan has begun.

That no stale reference is used does not follow from the check at one node. The
invariant (`DropsInvariant`) adds, first, what the sweeps leave: nodes behind the cursor
of a sweep without changes are consistent, and all are at the end. Second
(`LoansKept`), there is a liveness by which the function was accepted, such that at the
machine's node no live reference is stale, the loans of two live references are apart,
and the earlier loans of a reference that is about to get one more are apart from those
of the live ones (`Covered`); CoveredStep is the step of that argument, and needs that a
reference has no loans at the nodes where its loans start (`GroupsCovered`). Third, for
the drops: what is live is used on some path (`AllNeeded`, by which a value that is held
no longer than it is live is held no longer than needed), what is live was not dropped
(`LiveFound`), and what is held is live (`HeldLive`). What links these is that the
drops of an edge are not live behind it (`DropsNotLive`) and include all that dies on it
(`DyingIsDropped`), wherever they are spliced.

A node with a try is one step of the machine, however long its regions are. `run_region`
is a recursive function over the positions of a region, so that what a region does is
shown by induction over the frames it passes (`RangeInduction`; `RegionSlots`,
`RegionReads`, `RegionLosesNothing`). Every way through a try has one form (`Path`): a
prefix of the body, a cleanup, the handler or the else or neither, a cleanup on an
escape, and the finally (`TryPath`). From it follow what one node needs: its regions
read nothing that was dropped (`TryReads`), what is live where it goes is still there
(`TryFound`), its locals are gone (`TryLocalsGone`, the conjunct `LocalsEnded` of the
invariant), it overwrites nothing (`TryLosesNothing`), and what it leaves held is live,
or dropped, where it goes (`TryHeldUsed`, `EscapeDrops`). Trying to prove the case of
tries is what found OwnersSeen, EscapesDropped and the parts of RegionsClean and
WritebacksUsed that are about regions.

Only model-checked: liveness, which the prover does not reach; everything stated
with recursive operators (values, syntax trees, lowerings, the parser, the references that
execute source programs), for which it has no induction; the calls, whose parameter
lists are selected and flattened and whose values are written back by a fold, so that
what `CallMatching` computes for every list takes induction too. Loans in functions with
a try are in no property: `analyze_loans` checks no access inside a region.

## Not modelled

`PROJECT.json` lists every component with its status. Symbols and the compiler's
driver are string formatting and a straight sequence of stages. The overlap of
origins is not modelled by itself: loans come with the origins that lowering gives
them, so `src/origin.rs:140` is checked on those only. The type rules, generics and
traits of the checker are functions of the syntax tree whose inputs are too broad to
enumerate; of them the calls are modelled. Of the machine, the pointer arena
(`src/backend/vm.rs:291-372`: offsets, use after free and double free are reported
as errors), slices, SIMD, strings and hashing are left out, of MIR lowering closures,
slices and the closing of register types (`src/mir/mod.rs:3101-3396`), of compile
time reflection and type packs.
