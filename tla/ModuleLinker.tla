---------------------------- MODULE ModuleLinker ----------------------------
(***************************************************************************)
(* The linker of src/src/module.rs: modules are loaded depth first as the  *)
(* entry program imports them, each file once, and the declarations of a   *)
(* module are hoisted, under names qualified with the path by which it was *)
(* first imported, when all its imports are bound.                         *)
(*                                                                         *)
(* A frame of the stack is an activation of load_module; the bottom one is *)
(* resolve_entry.  The entry file is not in `loaded`.                      *)
(*                                                                         *)
(* A program gives each file its imports, those inside bodies (`scoped`)   *)
(* after those at top level, and the names it declares, `main` left out.   *)
(* An import lists the files it loads: the module, then the existing       *)
(* initializers of its proper prefixes.  A module with a keyword-variadic  *)
(* parameter has the import of the StringDict module as its first.  An     *)
(* alias is the name it stands for, and a namespace has no contents.       *)
(***************************************************************************)
EXTENDS Integers, Sequences

CONSTANTS
  Files,     \* canonical paths
  Readable,  \* those that can be read and parsed
  Entry,     \* the entry program's own file
  Names,     \* names of declarations and of namespaces
  Public,    \* those without a leading underscore
  Paths,     \* module paths as written in imports
  Mangle,    \* `qualified` on a module path: not injective
  Programs   \* the programs considered

Forms == {"namespace", "names", "wildcard"}
Loads == [file : Files, path : Paths]
Import == [form : Forms, loads : Seq(Loads), name : Names, scoped : BOOLEAN]

IsProgram(p) ==
  /\ p.imports \in [Files -> Seq(Import)]
  /\ p.declares \in [Files -> SUBSET Names]
  /\ \A f \in Files : \A k \in DOMAIN p.imports[f] :
       LET import == p.imports[f][k] IN
       /\ import.loads # <<>>
       /\ import.form # "namespace" => Len(import.loads) = 1

ASSUME LinkerAssumption ==
  /\ Readable \subseteq Files /\ Entry \in Readable
  /\ Public \subseteq Names
  /\ Paths # {} /\ Mangle \in [Paths -> Nat]
  /\ \A p \in Programs : IsProgram(p)

VARIABLES
  program,
  stack,    \* the activations of load_module
  loaded,   \* `loaded`
  exports,  \* `exports`, for the files that have them
  spaces,   \* `namespace_exports`: names only
  decls,    \* `decls`: the modules hoisted, with the path that named them
  outcome   \* "linking", "linked" or what ended it

vars == <<program, stack, loaded, exports, spaces, decls, outcome>>

Linked == Nat \X Names
(* A linked name: the mangled path and the name. *)
qualified(path, name) == <<Mangle[path], name>>

Override(b, c) ==
  [n \in DOMAIN b \union DOMAIN c |-> IF n \in DOMAIN c THEN c[n] ELSE b[n]]
Only(b, S) == [n \in DOMAIN b \cap S |-> b[n]]

Activation(load) ==
  [file |-> load.file, path |-> load.path, next |-> 1,
   bindings |-> [n \in {} |-> <<0, n>>], names |-> {}]

top == stack[Len(stack)]
Below == SubSeq(stack, 1, Len(stack) - 1)
SetTop(frame) == [stack EXCEPT ![Len(stack)] = frame]

imports == program.imports[top.file]
Importing == outcome = "linking" /\ top.next <= Len(imports)
current == imports[top.next]
target == current.loads[1].file

HasExports(f) == f \in DOMAIN exports

Init ==
  /\ program \in Programs
  /\ stack = <<Activation([file |-> Entry, path |-> CHOOSE path \in Paths : TRUE])>>
  /\ loaded = {} /\ decls = <<>>
  /\ exports = [f \in {} |-> {}] /\ spaces = [f \in {} |-> {}]
  /\ outcome = "linking"

-----------------------------------------------------------------------------
(* The first file of the import that is still to be loaded; a prefix is     *)
(* bound, and so must have exports, before the next one is loaded.          *)
Missing == {i \in DOMAIN current.loads : current.loads[i].file \notin loaded}
IsNext(i) ==
  /\ i \in Missing /\ \A j \in Missing : i <= j
  /\ \A j \in 2 .. i - 1 : HasExports(current.loads[j].file)

(* `load_module` of a file that is new. *)
LoadModule(i) ==
  /\ Importing /\ IsNext(i) /\ current.loads[i].file \in Readable
  /\ stack' = Append(stack, Activation(current.loads[i]))
  /\ loaded' = loaded \union {current.loads[i].file}
  /\ UNCHANGED <<program, exports, spaces, decls, outcome>>

(* Mutant: the error is dropped, and the import tried again. *)
LoadFailsSilently(i) ==
  /\ Importing /\ IsNext(i) /\ current.loads[i].file \notin Readable
  /\ UNCHANGED vars
(* It cannot be read or parsed. *)
LoadFails(i) ==
  /\ Importing /\ IsNext(i) /\ current.loads[i].file \notin Readable
  /\ outcome' = "Unreadable"
  /\ UNCHANGED <<program, stack, loaded, exports, spaces, decls>>

(* `&self.exports[&canon]` of a file whose load_module has not come to its  *)
(* end.                                                                     *)
Unfinished(i) == current.loads[i].file \in loaded /\ ~HasExports(current.loads[i].file)
IndexFails ==
  /\ Importing /\ current.form # "names"
  /\ \/ Missing = {} /\ Unfinished(1)
     \/ \E i \in 2 .. Len(current.loads) :
          Unfinished(i) /\ \A j \in Missing : i < j
  /\ outcome' = "Panic"
  /\ UNCHANGED <<program, stack, loaded, exports, spaces, decls>>

(* An import inside a body binds in a copy of the module's bindings. *)
Bound(bindings, names) ==
  /\ stack' = SetTop(IF current.scoped
                     THEN [top EXCEPT !.next = @ + 1]
                     ELSE [top EXCEPT !.next = @ + 1, !.bindings = bindings,
                                      !.names = names])
  /\ UNCHANGED <<program, loaded, exports, spaces, decls, outcome>>

AllBindable ==
  /\ Importing
  /\ \A i \in DOMAIN current.loads :
       current.loads[i].file \in loaded /\ HasExports(current.loads[i].file)

(* `apply_import`, and `from . import m`. *)
BindNamespace ==
  /\ AllBindable /\ current.form = "namespace"
  /\ Bound(top.bindings, top.names \union {current.name})

(* `from m import *`. *)
BindWildcard ==
  /\ AllBindable /\ current.form = "wildcard"
  /\ Bound(Override(top.bindings, Only(exports[target], Public)),
           top.names \union (spaces[target] \cap Public))

(* Mutant: a namespace that the module passes on is not known. *)
KnownDeclared == HasExports(target) /\ current.name \in DOMAIN exports[target]
(* `check_names`. *)
Known ==
  /\ HasExports(target)
  /\ current.name \in DOMAIN exports[target] \union spaces[target]

(* `from m import name`. *)
BindName ==
  /\ Importing /\ current.form = "names" /\ Missing = {} /\ Known
  /\ IF current.name \in DOMAIN exports[target]
     THEN Bound(Override(top.bindings, Only(exports[target], {current.name})), top.names)
     ELSE Bound(top.bindings, top.names \union {current.name})

RejectName ==
  /\ Importing /\ current.form = "names" /\ Missing = {} /\ ~Known
  /\ outcome' = "NameNotFound"
  /\ UNCHANGED <<program, stack, loaded, exports, spaces, decls>>

-----------------------------------------------------------------------------
(* What a module exports: its own names, over the public ones it has        *)
(* imported.                                                                *)
Local == [n \in program.declares[top.file] |-> qualified(top.path, n)]
(* Mutant: names passed on are qualified as the module's own. *)
ExportedAsOwn ==
  [n \in program.declares[top.file] \union (DOMAIN top.bindings \cap Public) |->
     qualified(top.path, n)]
Exported == Override(Only(top.bindings, Public), Local)
Extend(f, k, v) == [j \in DOMAIN f \union {k} |-> IF j = k THEN v ELSE f[j]]

(* Mutant: the last import is skipped. *)
HoistEarly ==
  /\ outcome = "linking" /\ top.next >= Len(imports) /\ Len(stack) > 1
  /\ decls' = Append(decls, [file |-> top.file, path |-> top.path])
  /\ exports' = Extend(exports, top.file, Exported)
  /\ spaces' = Extend(spaces, top.file, top.names \cap Public)
  /\ stack' = Below
  /\ UNCHANGED <<program, loaded, outcome>>
(* The end of `load_module`. *)
Hoist ==
  /\ outcome = "linking" /\ top.next > Len(imports) /\ Len(stack) > 1
  /\ decls' = Append(decls, [file |-> top.file, path |-> top.path])
  /\ exports' = Extend(exports, top.file, Exported)
  /\ spaces' = Extend(spaces, top.file, top.names \cap Public)
  /\ stack' = Below
  /\ UNCHANGED <<program, loaded, outcome>>

(* The end of `resolve_entry`. *)
FinishEntry ==
  /\ outcome = "linking" /\ top.next > Len(imports) /\ Len(stack) = 1
  /\ outcome' = "linked"
  /\ UNCHANGED <<program, stack, loaded, exports, spaces, decls>>

Over == outcome # "linking" /\ UNCHANGED vars

Load == \E i \in DOMAIN current.loads : LoadModule(i) \/ LoadFails(i)
Link ==
  \/ Importing /\ Load
  \/ IndexFails \/ BindNamespace \/ BindWildcard \/ BindName \/ RejectName
  \/ Hoist \/ FinishEntry

Next == Link \/ Over

(* The linker is one thread of the compiler. *)
Spec == Init /\ [][Next]_vars /\ WF_vars(Link)

-----------------------------------------------------------------------------

Hoisted == {decls[i].file : i \in DOMAIN decls}

(* What a file imports is hoisted before it, and the entry is linked only   *)
(* when all it imports is.  ("the imported declarations, dependencies       *)
(* first").                                                                 *)
ImportedBy(f) ==
  UNION {{program.imports[f][k].loads[i].file :
            i \in DOMAIN program.imports[f][k].loads}
         : k \in DOMAIN program.imports[f]}
DependenciesFirst ==
  /\ \A i \in DOMAIN decls : \A f \in ImportedBy(decls[i].file) :
       \E j \in 1 .. i - 1 : decls[j].file = f
  /\ outcome = "linked" => ImportedBy(Entry) \subseteq Hoisted

(* Every name that a module exports, or that the module being loaded has    *)
(* bound, is the linked name of a declaration that is already hoisted.      *)
LinkedNames ==
  UNION {{qualified(decls[i].path, n) : n \in program.declares[decls[i].file]}
         : i \in DOMAIN decls}
NamesResolve ==
  /\ \A f \in DOMAIN exports : \A n \in DOMAIN exports[f] : exports[f][n] \in LinkedNames
  /\ \A s \in DOMAIN stack : \A n \in DOMAIN stack[s].bindings :
       stack[s].bindings[n] \in LinkedNames

(* An import panics only for an import cycle: the activations lead from a   *)
(* file that the module on top imports to that module.                      *)
ImportCycle ==
  \E s \in DOMAIN stack :
    /\ stack[s].file \in ImportedBy(top.file)
    /\ \A t \in s + 1 .. Len(stack) : stack[t].file \in ImportedBy(stack[t - 1].file)
PanicShowsCycle == outcome = "Panic" => ImportCycle

(* Linking comes to an end. *)
LinkingEnds == <>(outcome # "linking")

(* Declarations of different modules have different linked names.           *)
LinkedNamesUnique ==
  \A i, j \in DOMAIN decls :
    i # j => {qualified(decls[i].path, n) : n \in program.declares[decls[i].file]}
               \cap {qualified(decls[j].path, n) : n \in program.declares[decls[j].file]} = {}
=============================================================================
