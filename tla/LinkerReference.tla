--------------------------- MODULE LinkerReference ---------------------------
(***************************************************************************)
(* What the linker has to find out: the files that an import graph         *)
(* reaches, and the names that a module provides to its importers.         *)
(***************************************************************************)
EXTENDS ModuleLinker

(* The least set of files that holds those of S and all they import. *)
Complete(T) == \A f \in T : ImportedBy(f) \subseteq T
ReachFrom(S) ==
  {f \in Files : \A T \in SUBSET Files : S \subseteq T /\ Complete(T) => f \in T}
Cyclic == \E f \in ReachFrom({Entry}) : f \in ReachFrom(ImportedBy(f))

(* The names that an import binds at the top level of its module, if the    *)
(* module it imports provides `names`.                                     *)
Brings(import, names) ==
  IF import.scoped THEN {}
  ELSE IF import.form = "wildcard" THEN names \cap Public
  ELSE {import.name}

(* A module provides what it declares and the public names that it binds. *)
BroughtTo(P, f, k) ==
  Brings(program.imports[f][k], P[program.imports[f][k].loads[1].file])
ProvidedBy(P, f) ==
  program.declares[f]
    \union ((UNION {BroughtTo(P, f, k) : k \in DOMAIN program.imports[f]}) \cap Public)
Provides[f \in Files] == ProvidedBy(Provides, f)

(* A module exports what it provides; in a graph without cycles, where that *)
(* is defined by recursion along the imports.                              *)
ExportsAreProvided ==
  \A f \in DOMAIN exports :
    Cyclic \/ DOMAIN exports[f] \union spaces[f] = Provides[f]

(* The exports that importers bind from are these names and no others, each *)
(* standing for a declaration that has been hoisted before: nothing that is *)
(* private or never bound leaks out, and nothing that is re-exported gets a *)
(* name under which no declaration is to be found.                          *)
ExportsAreExact == NamesResolve /\ ExportsAreProvided

(* The files that linking has to go through, and the names asked of them.  *)
Reached == ReachFrom({Entry})
AllNamesProvided ==
  \A f \in Reached : \A k \in DOMAIN program.imports[f] :
    LET import == program.imports[f][k] IN
    import.form = "names" => import.name \in Provides[import.loads[1].file]

(* What the linker accepts.  It links a program exactly when all the files  *)
(* that its entry file reaches can be read, all the names asked for are     *)
(* provided, and no file reaches itself: no cycle is broken, as "already    *)
(* loaded (or a cycle)" in load_module promises, but each one ends linking, *)
(* by a panic where an import that closes it wants the exports, and else by *)
(* a name that is not found.  And each way to fail has the reason it gives. *)
LinkedUnlessCyclicOrWrong ==
  /\ outcome # "linking" =>
       (outcome = "linked" <=> ~Cyclic /\ Reached \subseteq Readable /\ AllNamesProvided)
  /\ outcome = "Panic" => ImportCycle /\ Cyclic
  /\ outcome = "NameNotFound" => Cyclic \/ current.name \notin Provides[target]
  /\ outcome = "Unreadable" => ~(Reached \subseteq Readable)
=============================================================================
