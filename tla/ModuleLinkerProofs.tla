------------------------- MODULE ModuleLinkerProofs -------------------------
(***************************************************************************)
(* The theorems of ModuleLinker, for every program, every set of files and *)
(* every way to mangle paths.  The stack of activations changes in three   *)
(* ways: an import pushes one, a binding moves the one on top to its next  *)
(* import, and hoisting pops it; a lemma for each shows what it keeps.     *)
(* The second half compares the linker with its reference.                 *)
(***************************************************************************)
EXTENDS LinkerReference, LeastFixpoint, SequenceTheorems, TLAPS

Bindings == UNION {[S -> Linked] : S \in SUBSET Names}
Act == [file : Files, path : Paths, next : Nat \ {0}, bindings : Bindings,
        names : SUBSET Names]
Decl == [file : Files, path : Paths]

Types ==
  /\ program \in Programs
  /\ stack \in Seq(Act) /\ stack # <<>> /\ stack[1].file = Entry
  /\ loaded \subseteq Files /\ decls \in Seq(Decl)
  /\ exports \in [Hoisted -> Bindings] /\ spaces \in [Hoisted -> SUBSET Names]

(* An activation has bound the imports before its next one: what they load *)
(* is hoisted.                                                             *)
LoadsOf(f, k) == {program.imports[f][k].loads[i].file :
                    i \in DOMAIN program.imports[f][k].loads}
Done(act) ==
  \A k \in DOMAIN program.imports[act.file] :
    k < act.next => LoadsOf(act.file, k) \subseteq Hoisted
ImportsDone == \A s \in DOMAIN stack : Done(stack[s])

(* A module that is loaded is hoisted or has an activation, and only one.  *)
Active == {stack[s].file : s \in 2 .. Len(stack)}
LoadedOnce ==
  /\ loaded = Hoisted \union Active
  /\ Hoisted \cap Active = {}
  /\ \A s, t \in 2 .. Len(stack) : stack[s].file = stack[t].file => s = t
  /\ \A i, j \in DOMAIN decls : decls[i].file = decls[j].file => i = j

(* Each activation was started by an import of the one below.              *)
Chained ==
  \A s \in 2 .. Len(stack) : stack[s].file \in ImportedBy(stack[s - 1].file)

IInv ==
  /\ Types /\ ImportsDone /\ DependenciesFirst /\ LoadedOnce /\ Chained
  /\ NamesResolve /\ PanicShowsCycle

-----------------------------------------------------------------------------
LEMMA StackFacts ==
  ASSUME Types
  PROVE  /\ Len(stack) \in Nat \ {0} /\ DOMAIN stack = 1 .. Len(stack)
         /\ \A s \in 1 .. Len(stack) : stack[s] \in Act
         /\ top \in Act /\ Len(stack) \in 1 .. Len(stack)
         /\ Len(decls) \in Nat /\ DOMAIN decls = 1 .. Len(decls)
         /\ \A i \in 1 .. Len(decls) : decls[i] \in Decl
<1>1. stack \in Seq(Act) /\ stack # <<>> /\ decls \in Seq(Decl)
  BY DEF Types
<1>2. Len(stack) \in Nat \ {0} /\ DOMAIN stack = 1 .. Len(stack)
  BY <1>1, EmptySeq
<1>3. \A s \in 1 .. Len(stack) : stack[s] \in Act
  BY <1>1, ElementOfSeq
<1>4. Len(stack) \in 1 .. Len(stack)
  BY <1>2
<1>5. /\ Len(decls) \in Nat /\ DOMAIN decls = 1 .. Len(decls)
      /\ \A i \in 1 .. Len(decls) : decls[i] \in Decl
  BY <1>1, ElementOfSeq
<1> QED
  BY <1>2, <1>3, <1>4, <1>5 DEF top

LEMMA ProgramFacts ==
  ASSUME Types, NEW f \in Files
  PROVE  /\ program.imports[f] \in Seq(Import) /\ program.declares[f] \subseteq Names
         /\ \A k \in DOMAIN program.imports[f] :
              LET import == program.imports[f][k] IN
              /\ import \in Import /\ import.loads \in Seq(Loads)
              /\ 1 \in DOMAIN import.loads
              /\ import.form # "namespace" => DOMAIN import.loads = {1}
<1>1. IsProgram(program)
  BY LinkerAssumption DEF Types
<1>2. program.imports[f] \in Seq(Import) /\ program.declares[f] \subseteq Names
  BY <1>1 DEF IsProgram
<1>3. ASSUME NEW k \in DOMAIN program.imports[f]
      PROVE  LET import == program.imports[f][k] IN
             /\ import \in Import /\ import.loads \in Seq(Loads)
             /\ 1 \in DOMAIN import.loads
             /\ import.form # "namespace" => DOMAIN import.loads = {1}
  <2> DEFINE import == program.imports[f][k]
  <2>1. import \in Import
    BY <1>2, ElementOfSeq, LenProperties
  <2>2. import.loads \in Seq(Loads)
    BY <2>1 DEF Import
  <2>3. import.loads # <<>> /\ (import.form # "namespace" => Len(import.loads) = 1)
    BY <1>1 DEF IsProgram
  <2> HIDE DEF import
  <2>4. 1 \in DOMAIN import.loads
    BY <2>2, <2>3, EmptySeq
  <2>5. Len(import.loads) = 1 => DOMAIN import.loads = {1}
    BY <2>2
  <2> QED
    BY <2>1, <2>2, <2>3, <2>4, <2>5 DEF import
<1> QED
  BY <1>2, <1>3

LEMMA CurrentFacts ==
  ASSUME Types, Importing
  PROVE  /\ top.file \in Files /\ top.next \in DOMAIN program.imports[top.file]
         /\ current = program.imports[top.file][top.next]
         /\ current \in Import /\ current.loads \in Seq(Loads)
         /\ \A i \in DOMAIN current.loads : current.loads[i] \in Loads
         /\ 1 \in DOMAIN current.loads
         /\ current.form # "namespace" => DOMAIN current.loads = {1}
<1>1. top \in Act
  BY StackFacts
<1>2. top.file \in Files /\ top.next \in Nat \ {0}
  BY <1>1 DEF Act
<1>3. imports \in Seq(Import)
  BY <1>2, ProgramFacts DEF imports
<1>4. top.next \in DOMAIN imports
  BY <1>2, <1>3 DEF Importing
<1>5. current.loads \in Seq(Loads)
  BY <1>2, <1>4, ProgramFacts DEF imports, current
<1>6. \A i \in DOMAIN current.loads : current.loads[i] \in Loads
  BY <1>5, ElementOfSeq
<1> QED
  BY <1>2, <1>4, <1>5, <1>6, ProgramFacts DEF imports, current

-----------------------------------------------------------------------------
(* The stack and the declarations after each kind of step.                 *)
LEMMA SetTopFacts ==
  ASSUME Types, NEW a \in Act
  PROVE  /\ SetTop(a) \in Seq(Act) /\ Len(SetTop(a)) = Len(stack)
         /\ \A s \in 1 .. Len(stack) :
              SetTop(a)[s] = IF s = Len(stack) THEN a ELSE stack[s]
<1>1. Len(stack) \in 1 .. Len(stack) /\ stack \in Seq(Act)
  BY StackFacts DEF Types
<1> QED
  BY <1>1, ExceptSeq DEF SetTop

LEMMA BelowFacts ==
  ASSUME Types
  PROVE  /\ Below \in Seq(Act) /\ Len(Below) = Len(stack) - 1
         /\ \A s \in 1 .. Len(stack) - 1 : Below[s] = stack[s]
<1> DEFINE n == Len(stack) - 1
<1>1. /\ stack \in Seq(Act) /\ n \in Nat /\ Len(stack) \in Nat
      /\ \A i \in 1 .. n : stack[i] \in Act
  BY StackFacts DEF Types
<1> HIDE DEF n
<1>2. /\ SubSeq(stack, 1, n) \in Seq(Act) /\ Len(SubSeq(stack, 1, n)) = n
      /\ \A i \in 1 .. n : SubSeq(stack, 1, n)[i] = stack[i]
  BY <1>1
<1> QED
  BY <1>2 DEF Below, n

(* The same modules stay hoisted, and the same names linked.               *)
LEMMA SameDecls ==
  ASSUME decls' = decls, program' = program
  PROVE  /\ Hoisted' = Hoisted /\ LinkedNames' = LinkedNames
         /\ \A f : ImportedBy(f)' = ImportedBy(f)
         /\ \A f, k : LoadsOf(f, k)' = LoadsOf(f, k)
BY DEF Hoisted, LinkedNames, ImportedBy, LoadsOf

(* An activation in which every name resolves.                             *)
Resolves(act) == \A n \in DOMAIN act.bindings : act.bindings[n] \in LinkedNames
ExportsResolve ==
  \A f \in DOMAIN exports : \A n \in DOMAIN exports[f] : exports[f][n] \in LinkedNames

LEMMA NamesResolveBy ==
  NamesResolve <=> ExportsResolve /\ \A s \in DOMAIN stack : Resolves(stack[s])
BY DEF NamesResolve, Resolves, ExportsResolve

(* Linking ends: only the outcome changes.                                 *)
LEMMA StopStep ==
  ASSUME IInv, UNCHANGED <<program, stack, loaded, exports, spaces, decls>>,
         outcome' = "linked" => ImportedBy(Entry) \subseteq Hoisted,
         outcome' = "Panic" => ImportCycle
  PROVE  IInv'
<1>1. /\ Hoisted' = Hoisted /\ LinkedNames' = LinkedNames
      /\ \A f : ImportedBy(f)' = ImportedBy(f)
      /\ \A f, k : LoadsOf(f, k)' = LoadsOf(f, k)
  BY SameDecls
<1>2. Types' /\ Chained' /\ NamesResolve'
  BY <1>1 DEF IInv, Types, Chained, NamesResolve
<1>3. ImportsDone'
  BY <1>1 DEF IInv, ImportsDone, Done
<1>4. DependenciesFirst'
  BY <1>1 DEF IInv, DependenciesFirst
<1>5. LoadedOnce'
  BY <1>1 DEF IInv, LoadedOnce, Active
<1>6. PanicShowsCycle'
  <2>1. top' = top
    BY DEF top
  <2> QED
    BY <1>1, <2>1 DEF PanicShowsCycle, ImportCycle
<1> QED
  BY <1>2, <1>3, <1>4, <1>5, <1>6 DEF IInv

(* A new file is loaded for an import of the module on top.                *)
LEMMA PushStep ==
  ASSUME IInv, NEW load \in Loads, load.file \in ImportedBy(top.file), load.file \notin loaded,
         stack' = Append(stack, Activation(load)), loaded' = loaded \union {load.file},
         outcome = "linking", UNCHANGED <<program, exports, spaces, decls, outcome>>
  PROVE  IInv'
<1> DEFINE n == Len(stack)
           a == Activation(load)
<1>1. /\ Hoisted' = Hoisted /\ LinkedNames' = LinkedNames
      /\ \A f : ImportedBy(f)' = ImportedBy(f)
      /\ \A f, k : LoadsOf(f, k)' = LoadsOf(f, k)
  BY SameDecls
<1>2. a \in Act /\ a.file = load.file /\ a.next = 1 /\ DOMAIN a.bindings = {}
  <2>1. load.file \in Files /\ load.path \in Paths
    BY DEF Loads
  <2>2. [m \in {} |-> <<0, m>>] \in [{} -> Linked]
    OBVIOUS
  <2>3. [m \in {} |-> <<0, m>>] \in Bindings
    BY <2>2 DEF Bindings
  <2> QED
    BY <2>1, <2>3 DEF Activation, Act
<1>3. /\ n \in Nat \ {0} /\ DOMAIN stack = 1 .. n /\ stack \in Seq(Act) /\ top = stack[n]
      /\ n \in 1 .. n
  BY StackFacts DEF IInv, Types, top
<1> HIDE DEF n, a
<1>4. /\ stack' \in Seq(Act) /\ Len(stack') = n + 1 /\ DOMAIN stack' = 1 .. n + 1
      /\ \A s \in 1 .. n : stack'[s] = stack[s]
      /\ stack'[n + 1] = a
  BY <1>2, <1>3, AppendProperties, LenProperties DEF n, a
<1>5. \A s \in 1 .. n + 1 : s # n + 1 => s \in 1 .. n
  BY <1>3
<1>6. Types'
  <2>1. stack' # <<>> /\ stack'[1].file = Entry
    BY <1>3, <1>4 DEF IInv, Types
  <2>2. load.file \in Files
    BY DEF Loads
  <2> QED
    BY <1>1, <1>4, <2>1, <2>2 DEF IInv, Types
<1>7. ImportsDone'
  <2>1. \A s \in 1 .. n : Done(stack[s])'
    BY <1>1, <1>3, <1>4 DEF IInv, ImportsDone, Done
  <2>2. Done(a)'
    <3>1. program' = program /\ load.file \in Files
      BY DEF Loads
    <3>2. program.imports[load.file] \in Seq(Import)
      BY <3>1, ProgramFacts DEF IInv
    <3>3. \A k \in DOMAIN program.imports[load.file] : ~(k < 1)
      BY <3>2
    <3> QED
      BY <1>2, <3>1, <3>3 DEF Done
  <2>3. \A s \in 1 .. n + 1 : Done(stack[s])'
    BY <1>4, <1>5, <2>1, <2>2
  <2> QED
    BY <1>4, <2>3 DEF ImportsDone
<1>8. DependenciesFirst'
  BY <1>1 DEF IInv, DependenciesFirst
<1>9. LoadedOnce'
  <2>1. Active' = Active \union {load.file}
    <3>1. \A s : s \in 2 .. n + 1 <=> s \in 2 .. n \/ s = n + 1
      BY <1>3
    <3>2. \A s \in 2 .. n : s \in 1 .. n
      BY <1>3
    <3> QED
      BY <1>2, <1>4, <3>1, <3>2 DEF Active, n
  <2>2. load.file \notin Hoisted /\ load.file \notin Active
    BY DEF IInv, LoadedOnce
  <2>3. \A s, t \in 2 .. n + 1 : stack'[s].file = stack'[t].file => s = t
    <3>1. \A s \in 2 .. n + 1 : s # n + 1 => s \in 2 .. n /\ stack'[s] = stack[s]
      BY <1>3, <1>4
    <3>2. \A s \in 2 .. n : stack[s].file # load.file
      BY <2>2 DEF Active, n
    <3> QED
      BY <1>2, <1>4, <3>1, <3>2 DEF IInv, LoadedOnce, n
  <2> QED
    BY <1>1, <1>4, <2>1, <2>2, <2>3 DEF IInv, LoadedOnce
<1>10. Chained'
  <2>1. \A s \in 2 .. n + 1 : s - 1 \in 1 .. n /\ (s # n + 1 => s \in 2 .. n /\ s \in 1 .. n)
    BY <1>3
  <2>2. (n + 1) - 1 = n
    BY <1>3
  <2>3. stack'[n + 1].file \in ImportedBy(stack'[n].file)
    BY <1>2, <1>3, <1>4
  <2>4. \A s \in 2 .. n + 1 : stack'[s].file \in ImportedBy(stack'[s - 1].file)
    BY <1>4, <2>1, <2>2, <2>3 DEF IInv, Chained, n
  <2> QED
    BY <1>1, <1>4, <2>4 DEF Chained
<1>11. NamesResolve'
  <2>1. ExportsResolve'
    BY <1>1, NamesResolveBy DEF IInv, ExportsResolve
  <2>2. \A s \in 1 .. n : Resolves(stack[s])'
    BY <1>1, <1>3, NamesResolveBy DEF IInv, Resolves
  <2>3. \A s \in 1 .. n + 1 : Resolves(stack[s])'
    <3>1. Resolves(a)'
      BY <1>2 DEF Resolves
    <3> QED
      BY <1>4, <1>5, <2>2, <3>1 DEF Resolves
  <2> QED
    BY <1>4, <2>1, <2>3 DEF NamesResolve, ExportsResolve, Resolves
<1>12. PanicShowsCycle'
  BY DEF PanicShowsCycle
<1> QED
  BY <1>6, <1>7, <1>8, <1>9, <1>10, <1>11, <1>12 DEF IInv

(* The module on top has bound its next import.                            *)
LEMMA AdvanceStep ==
  ASSUME IInv, Importing, LoadsOf(top.file, top.next) \subseteq Hoisted,
         NEW bindings \in Bindings, NEW names \in SUBSET Names,
         \A m \in DOMAIN bindings : bindings[m] \in LinkedNames, Bound(bindings, names)
  PROVE  IInv'
<1> DEFINE n == Len(stack)
<1>1. /\ Hoisted' = Hoisted /\ LinkedNames' = LinkedNames
      /\ \A f : ImportedBy(f)' = ImportedBy(f)
      /\ \A f, k : LoadsOf(f, k)' = LoadsOf(f, k)
      /\ UNCHANGED <<program, loaded, exports, spaces, decls, outcome>>
      /\ outcome = "linking"
  BY SameDecls DEF Bound, Importing
<1>2. /\ n \in Nat \ {0} /\ DOMAIN stack = 1 .. n /\ stack \in Seq(Act)
      /\ top = stack[n] /\ n \in 1 .. n /\ top \in Act
  BY StackFacts DEF IInv, Types, top
<1>3. Resolves(top) /\ Done(top)
  BY <1>2, NamesResolveBy DEF IInv, ImportsDone
<1>4. PICK a \in Act : /\ stack' = SetTop(a) /\ Resolves(a)
                       /\ a.file = top.file /\ a.next = top.next + 1
  <2> DEFINE b == [top EXCEPT !.next = @ + 1]
             c == [top EXCEPT !.next = @ + 1, !.bindings = bindings, !.names = names]
  <2>1. top.next + 1 \in Nat \ {0}
    BY <1>2 DEF Act
  <2>2. /\ b \in Act /\ b.file = top.file /\ b.next = top.next + 1 /\ b.bindings = top.bindings
        /\ c \in Act /\ c.file = top.file /\ c.next = top.next + 1 /\ c.bindings = bindings
    BY <1>2, <2>1 DEF Act
  <2>3. stack' = SetTop(IF current.scoped THEN b ELSE c)
    BY DEF Bound
  <2> HIDE DEF b, c
  <2>4. Resolves(b) /\ Resolves(c)
    BY <1>3, <2>2 DEF Resolves
  <2> QED
    BY <2>2, <2>3, <2>4
<1>5. /\ stack' \in Seq(Act) /\ Len(stack') = n /\ DOMAIN stack' = 1 .. n
      /\ \A s \in 1 .. n : stack'[s] = IF s = n THEN a ELSE stack[s]
  BY <1>2, <1>4, SetTopFacts, LenProperties DEF IInv
<1>6. \A s \in 1 .. n : stack'[s].file = stack[s].file
  BY <1>2, <1>4, <1>5
<1> HIDE DEF n
<1>7. Types'
  <2>1. stack' # <<>> /\ 1 \in 1 .. n
    BY <1>2, <1>5
  <2>2. stack'[1].file = Entry
    BY <1>6, <2>1 DEF IInv, Types
  <2> QED
    BY <1>1, <1>5, <2>1, <2>2 DEF IInv, Types
<1>8. ImportsDone'
  <2>1. \A s \in 1 .. n : s # n => Done(stack[s])'
    BY <1>1, <1>2, <1>5 DEF IInv, ImportsDone, Done
  <2>2. Done(a)'
    <3>1. top.file \in Files /\ top.next \in Nat
      BY <1>2 DEF Act
    <3>2. \A k \in DOMAIN program.imports[top.file] : k < top.next + 1 => k < top.next \/ k = top.next
      BY <3>1, ProgramFacts DEF IInv
    <3>3. \A k \in DOMAIN program.imports[top.file] :
            k < top.next + 1 => LoadsOf(top.file, k) \subseteq Hoisted
      BY <1>3, <3>2 DEF Done
    <3> QED
      BY <1>1, <1>4, <3>3 DEF Done
  <2>3. \A s \in 1 .. n : Done(stack[s])'
    BY <1>5, <2>1, <2>2 DEF Done
  <2> QED
    BY <1>5, <2>3 DEF ImportsDone
<1>9. DependenciesFirst'
  BY <1>1 DEF IInv, DependenciesFirst
<1>10. LoadedOnce'
  <2>1. \A s \in 2 .. n : s \in 1 .. n
    BY <1>2
  <2>2. Active' = Active
    BY <1>5, <1>6, <2>1 DEF Active, n
  <2> QED
    BY <1>1, <1>5, <1>6, <2>1, <2>2 DEF IInv, LoadedOnce, n
<1>11. Chained'
  <2>1. \A s \in 2 .. n : s \in 1 .. n /\ s - 1 \in 1 .. n
    BY <1>2
  <2> QED
    BY <1>1, <1>5, <1>6, <2>1 DEF IInv, Chained, n
<1>12. NamesResolve'
  <2>1. ExportsResolve'
    BY <1>1, NamesResolveBy DEF IInv, ExportsResolve
  <2>2. \A s \in 1 .. n : Resolves(stack'[s])
    BY <1>2, <1>4, <1>5, NamesResolveBy DEF IInv
  <2> QED
    BY <1>1, <1>5, <2>1, <2>2 DEF NamesResolve, ExportsResolve, Resolves
<1>13. PanicShowsCycle'
  BY <1>1 DEF PanicShowsCycle
<1> QED
  BY <1>7, <1>8, <1>9, <1>10, <1>11, <1>12, <1>13 DEF IInv

(* All that a module imports is hoisted when its last import is bound.     *)
LEMMA AllDone ==
  ASSUME IInv, NEW act \in Act, Done(act), act.next > Len(program.imports[act.file])
  PROVE  ImportedBy(act.file) \subseteq Hoisted
<1>1. act.file \in Files /\ act.next \in Nat
  BY DEF Act
<1>2. program.imports[act.file] \in Seq(Import)
  BY <1>1, ProgramFacts DEF IInv
<1>3. \A k \in DOMAIN program.imports[act.file] : k < act.next
  BY <1>1, <1>2
<1>4. \A k \in DOMAIN program.imports[act.file] : LoadsOf(act.file, k) \subseteq Hoisted
  BY <1>3 DEF Done
<1> QED
  BY <1>4 DEF ImportedBy, LoadsOf

(* What a module exports: names it imported, or its own.                   *)
LEMMA ExportedFacts ==
  ASSUME IInv
  PROVE  /\ Exported \in Bindings /\ top.names \cap Public \in SUBSET Names
         /\ \A m \in DOMAIN Exported :
              \/ Exported[m] \in LinkedNames
              \/ m \in program.declares[top.file] /\ Exported[m] = qualified(top.path, m)
<1>1. /\ top \in Act /\ top.file \in Files /\ top.path \in Paths
      /\ program.declares[top.file] \subseteq Names
      /\ Len(stack) \in DOMAIN stack
  BY StackFacts, ProgramFacts DEF IInv, Act
<1>2. PICK S \in SUBSET Names : top.bindings \in [S -> Linked]
  BY <1>1 DEF Act, Bindings
<1>3. \A m \in program.declares[top.file] :
        Local[m] = qualified(top.path, m) /\ Local[m] \in Linked
  BY <1>1, LinkerAssumption DEF Local, qualified, Linked
<1>4. DOMAIN Local = program.declares[top.file]
  BY DEF Local
<1>5. \A m \in S \cap Public : Only(top.bindings, Public)[m] = top.bindings[m]
  BY <1>2 DEF Only
<1>6. DOMAIN Only(top.bindings, Public) = S \cap Public
  BY <1>2 DEF Only
<1>7. /\ DOMAIN Exported = (S \cap Public) \union program.declares[top.file]
      /\ \A m \in DOMAIN Exported :
           Exported[m] = IF m \in program.declares[top.file]
                         THEN qualified(top.path, m) ELSE top.bindings[m]
  BY <1>3, <1>4, <1>5, <1>6 DEF Exported, Override
<1>8. \A m \in S : top.bindings[m] \in LinkedNames /\ top.bindings[m] \in Linked
  BY <1>1, <1>2, NamesResolveBy DEF IInv, Resolves, top
<1>9. Exported \in [DOMAIN Exported -> Linked] /\ DOMAIN Exported \subseteq Names
  <2>1. \A m \in DOMAIN Exported : Exported[m] \in Linked
    BY <1>3, <1>7, <1>8
  <2>2. Exported = [m \in DOMAIN Exported |-> Exported[m]]
    BY DEF Exported, Override
  <2> QED
    BY <1>1, <1>7, <2>1, <2>2
<1> QED
  BY <1>1, <1>7, <1>8, <1>9 DEF Bindings, Act

(* The module on top is hoisted.                                           *)
LEMMA PopStep ==
  ASSUME IInv, Hoist
  PROVE  IInv'
<1> DEFINE n == Len(stack)
           m == Len(decls)
           f == top.file
           d == [file |-> f, path |-> top.path]
<1>1. /\ n \in Nat \ {0} /\ DOMAIN stack = 1 .. n /\ stack \in Seq(Act)
      /\ top = stack[n] /\ n \in 1 .. n /\ top \in Act /\ n > 1
      /\ m \in Nat /\ DOMAIN decls = 1 .. m /\ decls \in Seq(Decl)
      /\ stack[1].file = Entry
  BY StackFacts DEF IInv, Types, top, Hoist
<1>2. f \in Files /\ d \in Decl /\ d.file = f /\ d.path = top.path
  BY <1>1 DEF Act, Decl
<1>3. /\ decls' = Append(decls, d) /\ stack' = Below
      /\ exports' = Extend(exports, f, Exported)
      /\ spaces' = Extend(spaces, f, top.names \cap Public)
      /\ program' = program /\ loaded' = loaded /\ outcome' = outcome
      /\ outcome = "linking" /\ top.next > Len(program.imports[f])
  BY DEF Hoist, imports
<1>4. f \in Active /\ f \notin Hoisted
  <2>1. n \in 2 .. n
    BY <1>1
  <2> QED
    BY <1>1, <2>1 DEF Active, IInv, LoadedOnce
<1>5. ImportedBy(f) \subseteq Hoisted
  <2>1. Done(top)
    BY <1>1 DEF IInv, ImportsDone
  <2> QED
    BY <1>1, <1>3, <2>1, AllDone
<1>6. \A e \in DOMAIN Exported :
        \/ Exported[e] \in LinkedNames
        \/ e \in program.declares[f] /\ Exported[e] = qualified(d.path, e)
  BY <1>2, ExportedFacts
<1> HIDE DEF n, m, f, d
<1>7. /\ decls' \in Seq(Decl) /\ Len(decls') = m + 1 /\ DOMAIN decls' = 1 .. m + 1
      /\ \A i \in 1 .. m : decls'[i] = decls[i]
      /\ decls'[m + 1] = d
  BY <1>1, <1>2, <1>3, AppendProperties, LenProperties DEF m
<1>8. \A i : i \in 1 .. m + 1 <=> i \in 1 .. m \/ i = m + 1
  BY <1>1
<1>9. Hoisted' = Hoisted \union {f}
  BY <1>1, <1>2, <1>7, <1>8 DEF Hoisted
<1>10. /\ \A g : ImportedBy(g)' = ImportedBy(g)
       /\ \A g, k : LoadsOf(g, k)' = LoadsOf(g, k)
  BY <1>3 DEF ImportedBy, LoadsOf
<1>11. /\ LinkedNames \subseteq LinkedNames'
       /\ \A e \in program.declares[f] : qualified(d.path, e) \in LinkedNames'
  <2>1. \A i \in 1 .. m + 1 : \A e \in program.declares[decls'[i].file] :
          qualified(decls'[i].path, e) \in LinkedNames'
    <3>1. LinkedNames' =
            UNION {{qualified(decls'[i].path, e) : e \in program.declares[decls'[i].file]}
                   : i \in 1 .. m + 1}
      BY <1>3, <1>7 DEF LinkedNames, qualified
    <3> QED
      BY <3>1
  <2>2. LinkedNames \subseteq LinkedNames'
    <3>1. ASSUME NEW i \in 1 .. m, NEW e \in program.declares[decls[i].file]
          PROVE  qualified(decls[i].path, e) \in LinkedNames'
      <4>1. decls'[i] = decls[i] /\ i \in 1 .. m + 1
        BY <1>7, <1>8
      <4> QED
        BY <2>1, <4>1
    <3>2. \A x \in LinkedNames : \E i \in DOMAIN decls :
            \E e \in program.declares[decls[i].file] : x = qualified(decls[i].path, e)
      BY DEF LinkedNames
    <3> QED
      BY <1>1, <3>1, <3>2
  <2> QED
    BY <1>2, <1>7, <1>8, <2>1, <2>2
<1>12. /\ stack' \in Seq(Act) /\ Len(stack') = n - 1 /\ DOMAIN stack' = 1 .. n - 1
       /\ \A s \in 1 .. n - 1 : stack'[s] = stack[s]
  BY <1>3, BelowFacts, LenProperties DEF IInv, n
<1>13. /\ \A s \in 1 .. n - 1 : s \in 1 .. n /\ s # n
       /\ \A s \in 2 .. n - 1 : s \in 2 .. n /\ s \in 1 .. n - 1 /\ s - 1 \in 1 .. n - 1 /\ s # n
       /\ \A s \in 2 .. n : s \in 2 .. n - 1 \/ s = n
       /\ n \in 2 .. n /\ 1 \in 1 .. n - 1 /\ n - 1 # 0
  BY <1>1
<1>14. Types'
  <2>1. stack' # <<>> /\ stack'[1].file = Entry
    BY <1>1, <1>12, <1>13
  <2>2. exports' \in [Hoisted' -> Bindings]
    BY <1>3, <1>9, ExportedFacts DEF IInv, Types, Extend
  <2>3. spaces' \in [Hoisted' -> SUBSET Names]
    BY <1>3, <1>9, ExportedFacts DEF IInv, Types, Extend
  <2> QED
    BY <1>3, <1>7, <1>12, <2>1, <2>2, <2>3 DEF IInv, Types
<1>15. ImportsDone'
  <2>1. \A s \in 1 .. n - 1 : Done(stack[s])'
    BY <1>1, <1>3, <1>9, <1>10, <1>12, <1>13 DEF IInv, ImportsDone, Done
  <2> QED
    BY <1>12, <2>1 DEF ImportsDone
<1>16. DependenciesFirst'
  <2>1. \A i \in 1 .. m : \A g \in ImportedBy(decls[i].file) :
          \E j \in 1 .. i - 1 : j \in 1 .. m /\ decls[j].file = g
    <3>1. \A i \in 1 .. m : \A j \in 1 .. i - 1 : j \in 1 .. m
      BY <1>1
    <3> QED
      BY <1>1, <3>1 DEF IInv, DependenciesFirst
  <2>2. \A g \in ImportedBy(f) : \E j \in 1 .. (m + 1) - 1 : j \in 1 .. m /\ decls[j].file = g
    <3>1. (m + 1) - 1 = m
      BY <1>1
    <3> QED
      BY <1>1, <1>5, <3>1 DEF Hoisted
  <2>3. \A i \in 1 .. m + 1 : \A g \in ImportedBy(decls'[i].file) :
          \E j \in 1 .. i - 1 : decls'[j].file = g
    <3>1. ASSUME NEW i \in 1 .. m, NEW g \in ImportedBy(decls'[i].file)
          PROVE  \E j \in 1 .. i - 1 : decls'[j].file = g
      <4>1. decls'[i].file = decls[i].file
        BY <1>7
      <4>2. PICK j \in 1 .. i - 1 : j \in 1 .. m /\ decls[j].file = g
        BY <2>1, <4>1
      <4> QED
        BY <1>7, <4>2
    <3>2. ASSUME NEW g \in ImportedBy(decls'[m + 1].file)
          PROVE  \E j \in 1 .. (m + 1) - 1 : decls'[j].file = g
      BY <1>2, <1>7, <2>2
    <3> QED
      BY <1>8, <3>1, <3>2
  <2> QED
    <3>1. \A i \in DOMAIN decls' : \A g \in ImportedBy(decls[i].file)' :
            \E j \in 1 .. i - 1 : decls'[j].file = g
      <4>1. \A i \in DOMAIN decls' : ImportedBy(decls[i].file)' = ImportedBy(decls'[i].file)
        BY <1>3 DEF ImportedBy
      <4> QED
        BY <1>7, <2>3, <4>1
    <3>2. outcome' # "linked"
      BY <1>3
    <3> QED
      BY <3>1, <3>2 DEF DependenciesFirst
<1>17. LoadedOnce'
  <2>1. Active = Active' \union {f}
    <3>1. Active = {stack[s].file : s \in 2 .. n}
      BY DEF Active, n
    <3>2. Active' = {stack[s].file : s \in 2 .. n - 1}
      <4>1. Active' = {stack'[s].file : s \in 2 .. n - 1}
        BY <1>12 DEF Active
      <4>2. \A s \in 2 .. n - 1 : stack'[s] = stack[s]
        BY <1>12, <1>13
      <4> QED
        BY <4>1, <4>2
    <3>3. stack[n].file = f
      BY <1>1 DEF f
    <3> QED
      BY <1>13, <3>1, <3>2, <3>3
  <2>2. f \notin Active'
    <3>1. \A s \in 2 .. n - 1 : stack[s].file # stack[n].file
      BY <1>1, <1>13 DEF IInv, LoadedOnce, n
    <3> QED
      BY <1>1, <1>12, <1>13, <3>1 DEF Active, f
  <2>3. \A s, t \in 2 .. n - 1 : stack'[s].file = stack'[t].file => s = t
    BY <1>12, <1>13 DEF IInv, LoadedOnce, n
  <2>4. \A i, j \in 1 .. m + 1 : decls'[i].file = decls'[j].file => i = j
    <3>1. \A i \in 1 .. m : decls[i].file # f
      BY <1>1, <1>4 DEF Hoisted
    <3> QED
      <4>1. \A i, j \in 1 .. m : decls'[i].file = decls'[j].file => i = j
        BY <1>1, <1>7 DEF IInv, LoadedOnce
      <4>2. \A i \in 1 .. m : decls'[i].file # decls'[m + 1].file
        BY <1>2, <1>7, <3>1
      <4> QED
        BY <1>8, <4>1, <4>2
  <2>5. loaded' = Hoisted' \union Active' /\ Hoisted' \cap Active' = {}
    BY <1>3, <1>4, <1>9, <2>1, <2>2 DEF IInv, LoadedOnce
  <2> QED
    BY <1>7, <1>12, <2>3, <2>4, <2>5 DEF LoadedOnce
<1>18. Chained'
  BY <1>10, <1>12, <1>13 DEF IInv, Chained, n
<1>19. NamesResolve'
  <2>1. /\ \A g \in DOMAIN exports : \A e \in DOMAIN exports[g] : exports[g][e] \in LinkedNames
        /\ \A s \in 1 .. n : Resolves(stack[s])
    BY <1>1, NamesResolveBy DEF IInv, ExportsResolve
  <2>2. \A e \in DOMAIN Exported : Exported[e] \in LinkedNames'
    BY <1>6, <1>11
  <2>3. ExportsResolve'
    BY <1>3, <1>11, <2>1, <2>2 DEF ExportsResolve, Extend
  <2>4. \A s \in 1 .. n - 1 : \A e \in DOMAIN stack'[s].bindings :
          stack'[s].bindings[e] \in LinkedNames'
    BY <1>11, <1>12, <1>13, <2>1 DEF Resolves
  <2> QED
    BY <1>12, <2>3, <2>4 DEF NamesResolve, ExportsResolve
<1>20. PanicShowsCycle'
  BY <1>3 DEF PanicShowsCycle
<1> QED
  BY <1>14, <1>15, <1>16, <1>17, <1>18, <1>19, <1>20 DEF IInv

-----------------------------------------------------------------------------
(* The actions.                                                            *)
LEMMA LoadInImport ==
  ASSUME IInv, Importing, NEW i \in DOMAIN current.loads
  PROVE  current.loads[i] \in Loads /\ current.loads[i].file \in ImportedBy(top.file)
<1>1. /\ top.next \in DOMAIN program.imports[top.file]
      /\ current = program.imports[top.file][top.next]
      /\ current.loads[i] \in Loads
  BY CurrentFacts DEF IInv
<1> DEFINE f == top.file
           k == top.next
<1>2. ImportedBy(f) = UNION {LoadsOf(f, j) : j \in DOMAIN program.imports[f]}
  BY DEF ImportedBy, LoadsOf
<1>3. current.loads[i].file \in LoadsOf(f, k)
  BY <1>1 DEF LoadsOf
<1> HIDE DEF f, k
<1>4. current.loads[i].file \in ImportedBy(f)
  BY <1>1, <1>2, <1>3 DEF f, k
<1> QED
  BY <1>1, <1>4 DEF f

LEMMA LoadModuleStep ==
  ASSUME IInv, NEW i \in DOMAIN current.loads, LoadModule(i)
  PROVE  IInv'
<1>1. /\ Importing /\ outcome = "linking"
      /\ current.loads[i].file \notin loaded
      /\ stack' = Append(stack, Activation(current.loads[i]))
      /\ loaded' = loaded \union {current.loads[i].file}
      /\ UNCHANGED <<program, exports, spaces, decls, outcome>>
  BY DEF LoadModule, IsNext, Missing, Importing
<1>2. current.loads[i] \in Loads /\ current.loads[i].file \in ImportedBy(top.file)
  BY <1>1, LoadInImport
<1> QED
  BY <1>1, <1>2, PushStep

(* The panic: a file that is loaded and not hoisted is being loaded, and   *)
(* each activation above its own was started by the one below it.          *)
LEMMA IndexFailsStep ==
  ASSUME IInv, IndexFails
  PROVE  IInv'
<1>1. PICK i \in DOMAIN current.loads : Unfinished(i)
  <2>1. 1 \in DOMAIN current.loads /\ current.loads \in Seq(Loads)
    BY CurrentFacts DEF IInv, IndexFails
  <2>2. \A i \in 2 .. Len(current.loads) : i \in DOMAIN current.loads
    BY <2>1
  <2> QED
    BY <2>1, <2>2 DEF IndexFails
<1> DEFINE g == current.loads[i].file
<1>2. g \in ImportedBy(top.file)
  BY LoadInImport DEF IndexFails
<1>3. g \in Active
  BY <1>1 DEF Unfinished, HasExports, IInv, Types, LoadedOnce
<1> HIDE DEF g
<1>4. PICK s \in 2 .. Len(stack) : stack[s].file = g
  BY <1>3 DEF Active
<1>5. /\ s \in DOMAIN stack
      /\ \A t \in s + 1 .. Len(stack) : t \in 2 .. Len(stack)
  BY StackFacts DEF IInv
<1>6. ImportCycle
  BY <1>2, <1>4, <1>5 DEF ImportCycle, IInv, Chained
<1>7. outcome' = "Panic" /\ UNCHANGED <<program, stack, loaded, exports, spaces, decls>>
  BY DEF IndexFails
<1> QED
  BY <1>6, <1>7, StopStep

(* What an import loads is hoisted when its names are bound.               *)
LEMMA ImportHoisted ==
  ASSUME IInv, Importing, \A i \in DOMAIN current.loads : HasExports(current.loads[i].file)
  PROVE  LoadsOf(top.file, top.next) \subseteq Hoisted
<1>1. current = program.imports[top.file][top.next]
  BY CurrentFacts DEF IInv
<1>2. DOMAIN exports = Hoisted
  BY DEF IInv, Types
<1> QED
  BY <1>1, <1>2 DEF LoadsOf, HasExports

(* Names taken from the exports of a module, over those already bound.     *)
LEMMA TakenFacts ==
  ASSUME IInv, HasExports(target), NEW S
  PROVE  LET bindings == Override(top.bindings, Only(exports[target], S)) IN
         /\ bindings \in Bindings
         /\ \A m \in DOMAIN bindings : bindings[m] \in LinkedNames
<1> DEFINE taken == Only(exports[target], S)
           bindings == Override(top.bindings, taken)
<1>1. top.bindings \in Bindings /\ Resolves(top)
  <2>1. top \in Act /\ top = stack[Len(stack)] /\ Len(stack) \in DOMAIN stack
    BY StackFacts DEF IInv, top
  <2> QED
    BY <2>1, NamesResolveBy DEF IInv, Act
<1>2. exports[target] \in Bindings
  BY DEF HasExports, IInv, Types
<1>3. PICK B \in SUBSET Names : top.bindings \in [B -> Linked]
  BY <1>1 DEF Bindings
<1>4. PICK C \in SUBSET Names : exports[target] \in [C -> Linked]
  BY <1>2 DEF Bindings
<1>5. /\ DOMAIN taken = C \cap S
      /\ \A m \in C \cap S : taken[m] = exports[target][m]
  BY <1>4 DEF Only
<1>6. \A m \in C : exports[target][m] \in Linked /\ exports[target][m] \in LinkedNames
  BY <1>4, NamesResolveBy DEF IInv, ExportsResolve, HasExports
<1>7. \A m \in B : top.bindings[m] \in Linked /\ top.bindings[m] \in LinkedNames
  BY <1>1, <1>3 DEF Resolves
<1> HIDE DEF taken
<1>8. /\ DOMAIN bindings = B \union (C \cap S)
      /\ \A m \in DOMAIN bindings :
           bindings[m] = IF m \in C \cap S THEN taken[m] ELSE top.bindings[m]
  BY <1>3, <1>5 DEF Override
<1>9. bindings = [m \in DOMAIN bindings |-> bindings[m]]
  BY DEF Override
<1> HIDE DEF bindings
<1>10. \A m \in DOMAIN bindings : bindings[m] \in Linked /\ bindings[m] \in LinkedNames
  BY <1>5, <1>6, <1>7, <1>8
<1>11. bindings \in [DOMAIN bindings -> Linked] /\ DOMAIN bindings \in SUBSET Names
  BY <1>8, <1>9, <1>10
<1>12. bindings \in Bindings
  BY <1>11 DEF Bindings
<1> QED
  BY <1>10, <1>12 DEF bindings, taken

LEMMA TopFacts ==
  ASSUME IInv
  PROVE  /\ top.bindings \in Bindings /\ top.names \in SUBSET Names
         /\ \A m \in DOMAIN top.bindings : top.bindings[m] \in LinkedNames
<1>1. top \in Act /\ top = stack[Len(stack)] /\ Len(stack) \in DOMAIN stack
  BY StackFacts DEF IInv, top
<1> QED
  BY <1>1, NamesResolveBy DEF IInv, Act, Resolves

LEMMA BindNamespaceStep ==
  ASSUME IInv, BindNamespace
  PROVE  IInv'
<1>1. /\ Importing /\ Bound(top.bindings, top.names \union {current.name})
      /\ \A i \in DOMAIN current.loads : HasExports(current.loads[i].file)
  BY DEF BindNamespace, AllBindable
<1>2. LoadsOf(top.file, top.next) \subseteq Hoisted
  BY <1>1, ImportHoisted
<1>3. current.name \in Names
  BY <1>1, CurrentFacts DEF IInv, Import
<1>4. /\ top.bindings \in Bindings /\ top.names \union {current.name} \in SUBSET Names
      /\ \A m \in DOMAIN top.bindings : top.bindings[m] \in LinkedNames
  BY <1>3, TopFacts
<1> QED
  BY <1>1, <1>2, <1>4, AdvanceStep

LEMMA BindWildcardStep ==
  ASSUME IInv, BindWildcard
  PROVE  IInv'
<1> DEFINE bindings == Override(top.bindings, Only(exports[target], Public))
           names == top.names \union (spaces[target] \cap Public)
<1>1. /\ Importing /\ Bound(bindings, names)
      /\ \A i \in DOMAIN current.loads : HasExports(current.loads[i].file)
  BY DEF BindWildcard, AllBindable
<1>2. LoadsOf(top.file, top.next) \subseteq Hoisted
  BY <1>1, ImportHoisted
<1>3. HasExports(target)
  BY <1>1, CurrentFacts DEF IInv, target
<1>4. bindings \in Bindings /\ \A m \in DOMAIN bindings : bindings[m] \in LinkedNames
  BY <1>3, TakenFacts
<1>5. names \in SUBSET Names
  BY TopFacts, LinkerAssumption
<1> HIDE DEF bindings, names
<1> QED
  BY <1>1, <1>2, <1>4, <1>5, AdvanceStep

LEMMA BindNameStep ==
  ASSUME IInv, BindName
  PROVE  IInv'
<1> DEFINE bindings == Override(top.bindings, Only(exports[target], {current.name}))
           names == top.names \union {current.name}
<1>1. /\ Importing /\ current.form = "names" /\ HasExports(target)
      /\ Bound(bindings, top.names) \/ Bound(top.bindings, names)
  BY DEF BindName, Known
<1>2. DOMAIN current.loads = {1} /\ current.name \in Names
  BY <1>1, CurrentFacts DEF IInv, Import
<1>3. LoadsOf(top.file, top.next) \subseteq Hoisted
  BY <1>1, <1>2, ImportHoisted DEF target
<1>4. bindings \in Bindings /\ \A m \in DOMAIN bindings : bindings[m] \in LinkedNames
  BY <1>1, TakenFacts
<1>5. /\ top.bindings \in Bindings /\ top.names \in SUBSET Names /\ names \in SUBSET Names
      /\ \A m \in DOMAIN top.bindings : top.bindings[m] \in LinkedNames
  BY <1>2, TopFacts
<1> HIDE DEF bindings, names
<1>6. CASE Bound(bindings, top.names)
  BY <1>1, <1>3, <1>4, <1>5, <1>6, AdvanceStep
<1>7. CASE Bound(top.bindings, names)
  BY <1>1, <1>3, <1>5, <1>7, AdvanceStep
<1> QED
  BY <1>1, <1>6, <1>7

LEMMA FinishEntryStep ==
  ASSUME IInv, FinishEntry
  PROVE  IInv'
<1>1. Len(stack) = 1 /\ top = stack[1] /\ stack[1] \in Act /\ 1 \in DOMAIN stack
  BY StackFacts DEF FinishEntry, top, IInv
<1>2. stack[1].file = Entry /\ Done(stack[1]) /\ top.next > Len(program.imports[top.file])
  BY <1>1 DEF IInv, Types, ImportsDone, FinishEntry, imports
<1>3. ImportedBy(Entry) \subseteq Hoisted
  BY <1>1, <1>2, AllDone
<1>4. outcome' = "linked" /\ UNCHANGED <<program, stack, loaded, exports, spaces, decls>>
  BY DEF FinishEntry
<1> QED
  BY <1>3, <1>4, StopStep

(* The entry program is being linked, and nothing is loaded.               *)
LEMMA InitStep ==
  ASSUME Init
  PROVE  IInv
<1> DEFINE load == [file |-> Entry, path |-> CHOOSE path \in Paths : TRUE]
           a == Activation(load)
<1>1. load.file = Entry /\ load.path \in Paths /\ Entry \in Files
  BY LinkerAssumption
<1>2. a \in Act /\ a.file = Entry /\ a.next = 1 /\ DOMAIN a.bindings = {}
  <2>1. [m \in {} |-> <<0, m>>] \in [{} -> Linked]
    OBVIOUS
  <2>2. [m \in {} |-> <<0, m>>] \in Bindings
    BY <2>1 DEF Bindings
  <2> HIDE DEF load
  <2> QED
    BY <1>1, <2>2 DEF Activation, Act
<1>3. /\ stack = <<a>> /\ program \in Programs /\ outcome = "linking"
      /\ loaded = {} /\ decls = <<>> /\ DOMAIN exports = {} /\ DOMAIN spaces = {}
      /\ exports = [f \in {} |-> {}] /\ spaces = [f \in {} |-> {}]
  BY DEF Init
<1> HIDE DEF a, load
<1>4. /\ stack \in Seq(Act) /\ Len(stack) = 1 /\ stack[1] = a /\ stack # <<>>
      /\ DOMAIN stack = {1}
  BY <1>2, <1>3
<1>5. Hoisted = {} /\ DOMAIN decls = {} /\ decls \in Seq(Decl)
  BY <1>3 DEF Hoisted
<1>6. 2 .. Len(stack) = {}
  BY <1>4
<1>7. Types
  BY <1>2, <1>3, <1>4, <1>5 DEF Types
<1>8. ImportsDone
  <2>1. program.imports[Entry] \in Seq(Import)
    BY <1>1, <1>7, ProgramFacts
  <2>2. \A k \in DOMAIN program.imports[Entry] : ~(k < 1)
    BY <2>1
  <2> QED
    BY <1>2, <1>4, <2>2 DEF ImportsDone, Done
<1>9. LoadedOnce /\ Chained
  BY <1>3, <1>5, <1>6 DEF LoadedOnce, Active, Chained
<1>10. DependenciesFirst /\ PanicShowsCycle
  BY <1>3, <1>5 DEF DependenciesFirst, PanicShowsCycle
<1>11. NamesResolve
  BY <1>2, <1>3, <1>4 DEF NamesResolve
<1> QED
  BY <1>7, <1>8, <1>9, <1>10, <1>11 DEF IInv

LEMMA StepPreserves ==
  ASSUME IInv, [Next]_vars
  PROVE  IInv'
<1>1. CASE Importing /\ Load
  <2>1. PICK i \in DOMAIN current.loads : LoadModule(i) \/ LoadFails(i)
    BY <1>1 DEF Load
  <2>2. CASE LoadModule(i)
    BY <2>2, LoadModuleStep
  <2>3. CASE LoadFails(i)
    BY <2>3, StopStep DEF LoadFails
  <2> QED
    BY <2>1, <2>2, <2>3
<1>2. CASE IndexFails
  BY <1>2, IndexFailsStep
<1>3. CASE BindNamespace
  BY <1>3, BindNamespaceStep
<1>4. CASE BindWildcard
  BY <1>4, BindWildcardStep
<1>5. CASE BindName
  BY <1>5, BindNameStep
<1>6. CASE RejectName
  BY <1>6, StopStep DEF RejectName
<1>7. CASE Hoist
  BY <1>7, PopStep
<1>8. CASE FinishEntry
  BY <1>8, FinishEntryStep
<1>9. CASE UNCHANGED vars
  <2>1. UNCHANGED <<program, stack, loaded, exports, spaces, decls>> /\ outcome' = outcome
    BY <1>9 DEF vars
  <2>2. /\ outcome' = "linked" => ImportedBy(Entry) \subseteq Hoisted
        /\ outcome' = "Panic" => ImportCycle
    BY <2>1 DEF IInv, DependenciesFirst, PanicShowsCycle
  <2> QED
    BY <2>1, <2>2, StopStep
<1> QED
  BY <1>1, <1>2, <1>3, <1>4, <1>5, <1>6, <1>7, <1>8, <1>9 DEF Next, Link, Over

(* While a program is linked, every file is loaded once and is hoisted or  *)
(* has one activation; an activation has hoisted what its bound imports    *)
(* load; and each was started by an import of the one below.               *)
THEOREM LinkerInvariant == Spec => []IInv
<1>1. Init => IInv
  BY InitStep
<1>2. IInv /\ [Next]_vars => IInv'
  BY StepPreserves
<1> QED
  BY <1>1, <1>2, PTL DEF Spec

(* What a module imports is hoisted before it, and the entry program is    *)
(* linked only when all it imports is.                                     *)
THEOREM DependenciesComeFirst == Spec => []DependenciesFirst
<1>1. IInv => DependenciesFirst
  BY DEF IInv
<1> QED
  BY <1>1, LinkerInvariant, PTL

(* A name a module exports or has bound is the linked name of a            *)
(* declaration that is hoisted already.                                    *)
THEOREM NamesAreLinked == Spec => []NamesResolve
<1>1. IInv => NamesResolve
  BY DEF IInv
<1> QED
  BY <1>1, LinkerInvariant, PTL

(* `&self.exports[&canon]` panics only in an import cycle.                 *)
THEOREM PanicsAreCycles == Spec => []PanicShowsCycle
<1>1. IInv => PanicShowsCycle
  BY DEF IInv
<1> QED
  BY <1>1, LinkerInvariant, PTL

(* Two declarations are linked under one name only when the paths of two   *)
(* modules are mangled alike: were they kept apart, names would be unique. *)
PathsApart ==
  \A i, j \in DOMAIN decls :
    decls[i].file # decls[j].file => Mangle[decls[i].path] # Mangle[decls[j].path]
THEOREM ClashesAreMangled == Spec => [](PathsApart => LinkedNamesUnique)
<1>1. IInv => (PathsApart => LinkedNamesUnique)
  <2> SUFFICES ASSUME IInv, PathsApart,
                      NEW i \in DOMAIN decls, NEW j \in DOMAIN decls, i # j,
                      NEW m \in program.declares[decls[i].file],
                      NEW o \in program.declares[decls[j].file],
                      qualified(decls[i].path, m) = qualified(decls[j].path, o)
               PROVE  FALSE
    BY DEF LinkedNamesUnique
  <2>1. decls[i].file # decls[j].file
    BY DEF IInv, LoadedOnce
  <2> QED
    BY <2>1 DEF PathsApart, qualified
<1> QED
  BY <1>1, LinkerInvariant, PTL

-----------------------------------------------------------------------------
(* The linker against its reference: it fails only for a reason, and what  *)
(* it exports is what a module provides.                                   *)

(* The files that an import graph reaches.                                 *)
LEMMA ImportsAreFiles ==
  ASSUME Types, NEW f \in Files
  PROVE  ImportedBy(f) \subseteq Files
<1> SUFFICES ASSUME NEW k \in DOMAIN program.imports[f],
                    NEW i \in DOMAIN program.imports[f][k].loads
             PROVE  program.imports[f][k].loads[i].file \in Files
  BY DEF ImportedBy
<1>1. program.imports[f][k].loads \in Seq(Loads)
  BY ProgramFacts
<1>2. program.imports[f][k].loads[i] \in Loads
  BY <1>1, ElementOfSeq
<1> QED
  BY <1>2 DEF Loads

LEMMA ReachFacts ==
  ASSUME Types, NEW S \in SUBSET Files
  PROVE  /\ S \subseteq ReachFrom(S)
         /\ \A f \in ReachFrom(S) : f \in Files /\ ImportedBy(f) \subseteq ReachFrom(S)
<1>1. S \subseteq ReachFrom(S)
  BY DEF ReachFrom
<1>2. ASSUME NEW f \in ReachFrom(S), NEW g \in ImportedBy(f)
      PROVE  g \in ReachFrom(S)
  <2>1. f \in Files /\ g \in Files
    BY <1>2, ImportsAreFiles DEF ReachFrom
  <2>2. ASSUME NEW T \in SUBSET Files, S \subseteq T, Complete(T)
        PROVE  g \in T
    <3>1. f \in T
      BY <1>2, <2>2 DEF ReachFrom
    <3> QED
      BY <1>2, <2>2, <3>1 DEF Complete
  <2> QED
    BY <2>1, <2>2 DEF ReachFrom
<1> QED
  BY <1>1, <1>2 DEF ReachFrom

(* What is imported by a file that is reached leads nowhere else.          *)
LEMMA ReachFurther ==
  ASSUME Types, NEW S \in SUBSET Files, NEW f \in ReachFrom(S)
  PROVE  ReachFrom(ImportedBy(f)) \subseteq ReachFrom(S)
<1>1. ImportedBy(f) \subseteq ReachFrom(S) /\ ReachFrom(S) \in SUBSET Files
  BY ReachFacts
<1>2. Complete(ReachFrom(S))
  BY ReachFacts DEF Complete
<1> HIDE DEF ReachFrom
<1>3. \A T \in SUBSET Files : ImportedBy(f) \subseteq T /\ Complete(T)
        => ReachFrom(ImportedBy(f)) \subseteq T
  BY DEF ReachFrom
<1> QED
  BY <1>1, <1>2, <1>3

-----------------------------------------------------------------------------
(* The inductive invariant.                                                *)

(* Every activation is reached from the entry file, and from the imports of *)
(* each one below it.                                                      *)
StackReached ==
  /\ \A s \in DOMAIN stack : stack[s].file \in ReachFrom({Entry})
  /\ \A s, t \in DOMAIN stack :
       s < t => stack[t].file \in ReachFrom(ImportedBy(stack[s].file))

(* The solutions of the equation that defines Provides.                    *)
Solves(P) == P \in [Files -> SUBSET Names] /\ \A f \in Files : P[f] = ProvidedBy(P, f)

(* An activation has the public names that its bound imports bring.        *)
BroughtBefore(P, f, n) ==
  UNION {BroughtTo(P, f, k) : k \in {j \in DOMAIN program.imports[f] : j < n}}
BoundAsProvided(P, act) ==
  (DOMAIN act.bindings \union act.names) \cap Public
    = BroughtBefore(P, act.file, act.next) \cap Public

ExportsSolve(P) == \A f \in DOMAIN exports : DOMAIN exports[f] \union spaces[f] = P[f]
NamesProvided ==
  \A P \in [Files -> SUBSET Names] : Solves(P) =>
    /\ ExportsSolve(P)
    /\ \A s \in DOMAIN stack : BoundAsProvided(P, stack[s])

(* The outcomes other than a panic have their reason.                      *)
OutcomeJustified ==
  /\ outcome = "NameNotFound" =>
       \/ Cyclic
       \/ \A P \in [Files -> SUBSET Names] : Solves(P) => current.name \notin P[target]
  /\ outcome = "Unreadable" => ReachFrom({Entry}) \cap (Files \ Readable) # {}

ExactInv == IInv /\ StackReached /\ NamesProvided /\ OutcomeJustified

(* Nothing but the program decides what is reached and provided.           *)
LEMMA SameReference ==
  ASSUME program' = program
  PROVE  /\ \A f : ImportedBy(f)' = ImportedBy(f)
         /\ \A S : ReachFrom(S)' = ReachFrom(S)
         /\ Cyclic' = Cyclic
         /\ \A P : Solves(P)' = Solves(P)
         /\ \A P, f, n : BroughtBefore(P, f, n)' = BroughtBefore(P, f, n)
<1>1. \A f : ImportedBy(f)' = ImportedBy(f)
  BY DEF ImportedBy
<1>2. \A S : ReachFrom(S)' = ReachFrom(S)
  BY <1>1 DEF ReachFrom, Complete
<1>3. Cyclic' = Cyclic
  BY <1>1, <1>2 DEF Cyclic
<1>4. \A P, f, n : BroughtBefore(P, f, n)' = BroughtBefore(P, f, n)
  BY DEF BroughtBefore, BroughtTo
<1>5. \A P : Solves(P)' = Solves(P)
  BY DEF Solves, ProvidedBy, BroughtTo
<1> QED
  BY <1>1, <1>2, <1>3, <1>4, <1>5

(* An import of a file that has an activation closes a cycle.              *)
LEMMA BackEdge ==
  ASSUME IInv, StackReached, NEW s \in DOMAIN stack, stack[s].file \in ImportedBy(top.file)
  PROVE  Cyclic
<1>1. /\ Len(stack) \in DOMAIN stack /\ top = stack[Len(stack)] /\ top \in Act
      /\ Len(stack) \in Nat /\ DOMAIN stack = 1 .. Len(stack) /\ Types
  BY StackFacts DEF IInv, top
<1>2. top.file \in Files /\ stack[s].file \in Files /\ top.file \in ReachFrom({Entry})
  BY <1>1, StackFacts DEF Act, StackReached
<1>3. ImportedBy(top.file) \in SUBSET Files
  BY <1>1, <1>2, ImportsAreFiles
<1>4. stack[s].file \in ReachFrom(ImportedBy(top.file))
  BY <1>1, <1>3, ReachFacts
<1>5. top.file \in ReachFrom(ImportedBy(top.file))
  <2>1. CASE s = Len(stack)
    BY <1>1, <1>4, <2>1
  <2>2. CASE s # Len(stack)
    <3>1. s < Len(stack)
      BY <1>1, <2>2
    <3>2. top.file \in ReachFrom(ImportedBy(stack[s].file))
      BY <1>1, <3>1 DEF StackReached
    <3> QED
      BY <1>1, <1>3, <1>4, <3>2, ReachFurther
  <2> QED
    BY <2>1, <2>2
<1> QED
  BY <1>2, <1>5 DEF Cyclic

-----------------------------------------------------------------------------
(* How a step of each kind keeps the invariant.                            *)

(* The stack after an import has loaded a file.                            *)
LEMMA PushedStack ==
  ASSUME Types, NEW load \in Loads, stack' = Append(stack, Activation(load))
  PROVE  LET n == Len(stack) IN
         /\ n \in Nat \ {0} /\ DOMAIN stack = 1 .. n /\ DOMAIN stack' = 1 .. n + 1
         /\ \A s \in 1 .. n : stack'[s] = stack[s] /\ s # n + 1
         /\ \A s \in 1 .. n + 1 : s \in 1 .. n \/ s = n + 1
         /\ stack'[n + 1] = Activation(load) /\ Activation(load) \in Act
         /\ top = stack[n] /\ n \in 1 .. n
<1> DEFINE n == Len(stack)
           a == Activation(load)
<1>1. a \in Act
  <2>1. [m \in {} |-> <<0, m>>] \in [{} -> Linked]
    OBVIOUS
  <2>2. [m \in {} |-> <<0, m>>] \in Bindings
    BY <2>1 DEF Bindings
  <2> QED
    BY <2>2 DEF Activation, Act, Loads
<1>2. n \in Nat \ {0} /\ DOMAIN stack = 1 .. n /\ stack \in Seq(Act) /\ n \in 1 .. n
      /\ top = stack[n]
  BY StackFacts DEF Types, top
<1> HIDE DEF n, a
<1>3. /\ stack' \in Seq(Act) /\ Len(stack') = n + 1 /\ DOMAIN stack' = 1 .. n + 1
      /\ \A s \in 1 .. n : stack'[s] = stack[s]
      /\ stack'[n + 1] = a
  BY <1>1, <1>2, AppendProperties, LenProperties DEF n, a
<1> QED
  BY <1>1, <1>2, <1>3 DEF n, a

LEMMA PushExact ==
  ASSUME ExactInv, NEW load \in Loads, load.file \in ImportedBy(top.file),
         stack' = Append(stack, Activation(load)),
         outcome = "linking", UNCHANGED <<program, exports, spaces, decls, outcome>>
  PROVE  StackReached' /\ NamesProvided' /\ OutcomeJustified'
<1> DEFINE n == Len(stack)
           a == Activation(load)
<1>1. /\ \A f : ImportedBy(f)' = ImportedBy(f)
      /\ \A S : ReachFrom(S)' = ReachFrom(S)
      /\ \A P : Solves(P)' = Solves(P)
      /\ \A P, f, i : BroughtBefore(P, f, i)' = BroughtBefore(P, f, i)
  BY SameReference
<1>2. Types
  BY DEF ExactInv, IInv
<1>3. /\ n \in Nat \ {0} /\ DOMAIN stack = 1 .. n /\ DOMAIN stack' = 1 .. n + 1
      /\ \A s \in 1 .. n : stack'[s] = stack[s] /\ s # n + 1
      /\ \A s \in 1 .. n + 1 : s \in 1 .. n \/ s = n + 1
      /\ stack'[n + 1] = a /\ a \in Act /\ top = stack[n] /\ n \in 1 .. n
  BY <1>2, PushedStack
<1>4. a.file = load.file /\ a.next = 1 /\ DOMAIN a.bindings = {} /\ a.names = {}
  BY DEF Activation
<1> HIDE DEF n, a
<1>5. \A s \in 1 .. n : stack[s] \in Act /\ stack[s].file \in Files
                        /\ ImportedBy(stack[s].file) \in SUBSET Files
  BY <1>2, <1>3, StackFacts, ImportsAreFiles DEF Act
<1>6. Entry \in Files
  BY LinkerAssumption
<1>7. \A s \in 1 .. n : load.file \in ReachFrom(ImportedBy(stack[s].file))
  <2>1. ASSUME NEW s \in 1 .. n
        PROVE  load.file \in ReachFrom(ImportedBy(stack[s].file))
    <3>1. CASE s = n
      BY <1>2, <1>3, <1>5, <3>1, ReachFacts
    <3>2. CASE s # n
      <4>1. s < n
        BY <1>3, <3>2
      <4>2. top.file \in ReachFrom(ImportedBy(stack[s].file))
        BY <1>3, <4>1 DEF ExactInv, StackReached
      <4> QED
        BY <1>2, <1>5, <4>2, ReachFacts
    <3> QED
      BY <3>1, <3>2
  <2> QED
    BY <2>1
<1>8. load.file \in ReachFrom({Entry})
  <2>1. top.file \in ReachFrom({Entry})
    BY <1>3 DEF ExactInv, StackReached
  <2> QED
    BY <1>2, <1>6, <2>1, ReachFacts
<1>9. StackReached'
  <2>1. \A s \in 1 .. n + 1 : stack'[s].file \in ReachFrom({Entry})
    BY <1>3, <1>4, <1>8 DEF ExactInv, StackReached
  <2>2. \A s, t \in 1 .. n + 1 :
          s < t => stack'[t].file \in ReachFrom(ImportedBy(stack'[s].file))
    <3>1. ASSUME NEW s \in 1 .. n + 1, NEW t \in 1 .. n + 1, s < t
          PROVE  stack'[t].file \in ReachFrom(ImportedBy(stack'[s].file))
      <4>1. s \in 1 .. n /\ stack'[s] = stack[s]
        BY <1>3, <3>1
      <4>2. CASE t = n + 1
        BY <1>3, <1>4, <1>7, <4>1, <4>2
      <4>3. CASE t # n + 1
        BY <1>3, <3>1, <4>1, <4>3 DEF ExactInv, StackReached
      <4> QED
        BY <4>2, <4>3
    <3> QED
      BY <3>1
  <2> QED
    BY <1>1, <1>3, <2>1, <2>2 DEF StackReached
<1>10. NamesProvided'
  <2> SUFFICES ASSUME NEW P \in [Files -> SUBSET Names], Solves(P)
               PROVE  /\ ExportsSolve(P)'
                      /\ \A s \in 1 .. n + 1 : BoundAsProvided(P, stack'[s])
    BY <1>1, <1>3 DEF NamesProvided, BoundAsProvided
  <2>1. ExportsSolve(P)'
    BY DEF ExactInv, NamesProvided, ExportsSolve
  <2>2. \A s \in 1 .. n : BoundAsProvided(P, stack'[s])
    BY <1>3 DEF ExactInv, NamesProvided
  <2>3. BoundAsProvided(P, a)
    <3>1. load.file \in Files
      BY DEF Loads
    <3>2. program.imports[load.file] \in Seq(Import)
      BY <1>2, <3>1, ProgramFacts
    <3>3. \A k \in DOMAIN program.imports[load.file] : ~(k < 1)
      BY <3>2
    <3>4. BroughtBefore(P, load.file, 1) = {}
      BY <3>3 DEF BroughtBefore
    <3> QED
      BY <1>4, <3>4 DEF BoundAsProvided
  <2> QED
    BY <1>3, <2>1, <2>2, <2>3
<1>11. OutcomeJustified'
  BY DEF OutcomeJustified
<1> QED
  BY <1>9, <1>10, <1>11

(* The names of the module on top after its next import is bound.          *)
LEMMA AdvanceExact ==
  ASSUME ExactInv, Importing, NEW bindings, NEW names, Bound(bindings, names),
         ~current.scoped => \A P \in [Files -> SUBSET Names] : Solves(P) =>
           (DOMAIN bindings \union names) \cap Public
             = ((DOMAIN top.bindings \union top.names)
                  \union BroughtTo(P, top.file, top.next)) \cap Public
  PROVE  StackReached' /\ NamesProvided' /\ OutcomeJustified'
<1> DEFINE n == Len(stack)
           a == IF current.scoped
                THEN [top EXCEPT !.next = @ + 1]
                ELSE [top EXCEPT !.next = @ + 1, !.bindings = bindings, !.names = names]
<1>1. /\ \A f : ImportedBy(f)' = ImportedBy(f)
      /\ \A S : ReachFrom(S)' = ReachFrom(S)
      /\ \A P : Solves(P)' = Solves(P)
      /\ \A P, f, i : BroughtBefore(P, f, i)' = BroughtBefore(P, f, i)
      /\ UNCHANGED <<program, exports, spaces, outcome>> /\ outcome = "linking"
  BY SameReference DEF Bound, Importing
<1>2. Types
  BY DEF ExactInv, IInv
<1>3. /\ n \in Nat \ {0} /\ DOMAIN stack = 1 .. n /\ top = stack[n] /\ n \in 1 .. n
      /\ top \in Act /\ stack \in Seq(Act)
  BY <1>2, StackFacts DEF top, Types
<1>4. stack' = SetTop(a)
  BY DEF Bound
<1>5. /\ a.file = top.file /\ a.next = top.next + 1
      /\ a.bindings = IF current.scoped THEN top.bindings ELSE bindings
      /\ a.names = IF current.scoped THEN top.names ELSE names
  BY <1>3 DEF Act
<1> HIDE DEF a, n
<1>6. /\ DOMAIN stack' = 1 .. n
      /\ \A s \in 1 .. n : stack'[s] = IF s = n THEN a ELSE stack[s]
  BY <1>3, <1>4 DEF SetTop, n
<1>7. \A s \in 1 .. n : stack'[s].file = stack[s].file
  BY <1>3, <1>5, <1>6
<1>8. StackReached'
  BY <1>1, <1>3, <1>6, <1>7 DEF ExactInv, StackReached
<1>9. NamesProvided'
  <2> SUFFICES ASSUME NEW P \in [Files -> SUBSET Names], Solves(P)
               PROVE  /\ ExportsSolve(P)'
                      /\ \A s \in 1 .. n : BoundAsProvided(P, stack'[s])
    BY <1>1, <1>6 DEF NamesProvided, BoundAsProvided
  <2>1. ExportsSolve(P)'
    BY <1>1 DEF ExactInv, NamesProvided, ExportsSolve
  <2>2. \A s \in 1 .. n : BoundAsProvided(P, stack[s])
    BY <1>3 DEF ExactInv, NamesProvided
  <2>3. BroughtBefore(P, top.file, top.next + 1)
          = BroughtBefore(P, top.file, top.next) \union BroughtTo(P, top.file, top.next)
    <3>1. top.next \in DOMAIN program.imports[top.file] /\ top.file \in Files
      BY <1>2, CurrentFacts
    <3>2. program.imports[top.file] \in Seq(Import) /\ top.next \in Nat
      BY <1>2, <1>3, <3>1, ProgramFacts DEF Act
    <3>3. \A k \in DOMAIN program.imports[top.file] :
            k < top.next + 1 <=> k < top.next \/ k = top.next
      BY <3>2
    <3>4. {j \in DOMAIN program.imports[top.file] : j < top.next + 1}
            = {j \in DOMAIN program.imports[top.file] : j < top.next} \union {top.next}
      BY <3>1, <3>3
    <3> QED
      BY <3>4 DEF BroughtBefore
  <2>4. current.scoped => BroughtTo(P, top.file, top.next) = {}
    BY <1>2, CurrentFacts DEF BroughtTo, Brings
  <2>5. BoundAsProvided(P, top)
    BY <1>3, <2>2
  <2>6. BoundAsProvided(P, a)
    <3>1. CASE current.scoped
      BY <1>5, <2>3, <2>4, <2>5, <3>1 DEF BoundAsProvided
    <3>2. CASE ~current.scoped
      BY <1>5, <2>3, <2>5, <3>2 DEF BoundAsProvided
    <3> QED
      BY <3>1, <3>2
  <2> QED
    BY <1>6, <2>1, <2>2, <2>6
<1>10. OutcomeJustified'
  BY <1>1 DEF OutcomeJustified
<1> QED
  BY <1>8, <1>9, <1>10

(* A module is hoisted with what it provides.                              *)
LEMMA HoistExact ==
  ASSUME ExactInv, Hoist
  PROVE  StackReached' /\ NamesProvided' /\ OutcomeJustified'
<1> DEFINE n == Len(stack)
           f == top.file
<1>1. /\ \A g : ImportedBy(g)' = ImportedBy(g)
      /\ \A S : ReachFrom(S)' = ReachFrom(S)
      /\ \A P : Solves(P)' = Solves(P)
      /\ \A P, g, i : BroughtBefore(P, g, i)' = BroughtBefore(P, g, i)
      /\ exports' = Extend(exports, f, Exported)
      /\ spaces' = Extend(spaces, f, top.names \cap Public)
      /\ stack' = Below /\ outcome' = "linking"
  BY SameReference DEF Hoist
<1>2. Types
  BY DEF ExactInv, IInv
<1>3. /\ n \in Nat \ {0} /\ DOMAIN stack = 1 .. n /\ top = stack[n] /\ n \in 1 .. n
      /\ top \in Act /\ n > 1 /\ f \in Files /\ top.next \in Nat
      /\ top.next > Len(program.imports[f])
  BY <1>2, StackFacts DEF top, Hoist, Act, imports
<1>4. /\ DOMAIN stack' = 1 .. n - 1
      /\ \A s \in 1 .. n - 1 : s \in 1 .. n /\ stack'[s] = stack[s]
  <2>1. Len(Below) = n - 1 /\ Below \in Seq(Act)
        /\ \A s \in 1 .. n - 1 : Below[s] = stack[s]
    BY <1>2, BelowFacts
  <2>2. \A s \in 1 .. n - 1 : s \in 1 .. n
    BY <1>3
  <2> HIDE DEF n
  <2> QED
    BY <1>1, <2>1, <2>2, LenProperties
<1> HIDE DEF n
<1>5. StackReached'
  BY <1>1, <1>3, <1>4 DEF ExactInv, StackReached
<1>6. NamesProvided'
  <2> SUFFICES ASSUME NEW P \in [Files -> SUBSET Names], Solves(P)
               PROVE  /\ ExportsSolve(P)'
                      /\ \A s \in 1 .. n - 1 : BoundAsProvided(P, stack'[s])
    BY <1>1, <1>4 DEF NamesProvided, BoundAsProvided
  <2>1. \A s \in 1 .. n : BoundAsProvided(P, stack[s])
    BY <1>3 DEF ExactInv, NamesProvided
  <2>2. BroughtBefore(P, f, top.next)
          = UNION {BroughtTo(P, f, k) : k \in DOMAIN program.imports[f]}
    <3>1. program.imports[f] \in Seq(Import)
      BY <1>2, <1>3, ProgramFacts
    <3>2. \A k \in DOMAIN program.imports[f] : k < top.next
      BY <1>3, <3>1
    <3>3. {j \in DOMAIN program.imports[f] : j < top.next} = DOMAIN program.imports[f]
      BY <3>2
    <3> QED
      BY <3>3 DEF BroughtBefore
  <2>3. DOMAIN Exported \union (top.names \cap Public) = P[f]
    <3>1. DOMAIN Exported = (DOMAIN top.bindings \cap Public) \union program.declares[f]
      BY DEF Exported, Override, Only, Local
    <3>2. (DOMAIN top.bindings \union top.names) \cap Public
            = BroughtBefore(P, f, top.next) \cap Public
      BY <1>3, <2>1 DEF BoundAsProvided
    <3>3. P[f] = ProvidedBy(P, f)
      BY <1>3 DEF Solves
    <3> DEFINE all == UNION {BroughtTo(P, f, k) : k \in DOMAIN program.imports[f]}
    <3>4. ProvidedBy(P, f) = program.declares[f] \union (all \cap Public)
      BY DEF ProvidedBy
    <3>5. BroughtBefore(P, f, top.next) = all
      BY <2>2
    <3> HIDE DEF all, f
    <3> QED
      BY <3>1, <3>2, <3>3, <3>4, <3>5
  <2>4. ExportsSolve(P)'
    <3>1. DOMAIN exports = Hoisted /\ DOMAIN spaces = Hoisted
      BY <1>2 DEF Types
    <3>2. ExportsSolve(P)
      BY DEF ExactInv, NamesProvided
    <3> QED
      BY <1>1, <2>3, <3>1, <3>2 DEF ExportsSolve, Extend
  <2> QED
    BY <1>4, <2>1, <2>4
<1>7. OutcomeJustified'
  BY <1>1 DEF OutcomeJustified
<1> QED
  BY <1>5, <1>6, <1>7

(* Linking ends, or nothing happens.                                       *)
LEMMA StopExact ==
  ASSUME ExactInv, UNCHANGED <<program, stack, exports, spaces>>, OutcomeJustified'
  PROVE  StackReached' /\ NamesProvided' /\ OutcomeJustified'
<1>1. /\ \A f : ImportedBy(f)' = ImportedBy(f)
      /\ \A S : ReachFrom(S)' = ReachFrom(S)
      /\ \A P : Solves(P)' = Solves(P)
      /\ \A P, f, i : BroughtBefore(P, f, i)' = BroughtBefore(P, f, i)
  BY SameReference
<1>2. StackReached'
  BY <1>1 DEF ExactInv, StackReached
<1>3. NamesProvided'
  BY <1>1 DEF ExactInv, NamesProvided, ExportsSolve, BoundAsProvided
<1> QED
  BY <1>2, <1>3

-----------------------------------------------------------------------------
(* The actions.                                                            *)
LEMMA ImportedIsReached ==
  ASSUME ExactInv, NEW f \in ImportedBy(top.file)
  PROVE  f \in ReachFrom({Entry})
<1>1. Types /\ top = stack[Len(stack)] /\ Len(stack) \in DOMAIN stack /\ {Entry} \in SUBSET Files
  BY StackFacts, LinkerAssumption DEF ExactInv, IInv, top
<1>2. top.file \in ReachFrom({Entry})
  BY <1>1 DEF ExactInv, StackReached
<1> QED
  BY <1>1, <1>2, ReachFacts

LEMMA LoadModuleExact ==
  ASSUME ExactInv, Importing, NEW i \in DOMAIN current.loads, LoadModule(i)
  PROVE  StackReached' /\ NamesProvided' /\ OutcomeJustified'
<1>1. /\ outcome = "linking" /\ stack' = Append(stack, Activation(current.loads[i]))
      /\ UNCHANGED <<program, exports, spaces, decls, outcome>>
  BY DEF LoadModule, Importing
<1>2. current.loads[i] \in Loads /\ current.loads[i].file \in ImportedBy(top.file)
  BY LoadInImport DEF ExactInv
<1> QED
  BY <1>1, <1>2, PushExact

LEMMA LoadFailsExact ==
  ASSUME ExactInv, Importing, NEW i \in DOMAIN current.loads, LoadFails(i)
  PROVE  StackReached' /\ NamesProvided' /\ OutcomeJustified'
<1> DEFINE f == current.loads[i].file
<1>1. /\ outcome' = "Unreadable" /\ f \notin Readable
      /\ UNCHANGED <<program, stack, exports, spaces>>
  BY DEF LoadFails
<1>2. f \in Files /\ f \in ImportedBy(top.file)
  BY LoadInImport DEF ExactInv, Loads
<1> HIDE DEF f
<1>3. f \in ReachFrom({Entry})
  BY <1>2, ImportedIsReached
<1>4. ReachFrom({Entry})' = ReachFrom({Entry})
  BY <1>1, SameReference
<1>5. OutcomeJustified'
  BY <1>1, <1>2, <1>3, <1>4 DEF OutcomeJustified
<1> QED
  BY <1>1, <1>5, StopExact

LEMMA IndexFailsExact ==
  ASSUME ExactInv, IndexFails
  PROVE  StackReached' /\ NamesProvided' /\ OutcomeJustified'
<1>1. outcome' = "Panic" /\ UNCHANGED <<program, stack, exports, spaces>>
  BY DEF IndexFails
<1>2. OutcomeJustified'
  BY <1>1 DEF OutcomeJustified
<1> QED
  BY <1>1, <1>2, StopExact

(* What a module that has exports provides.                                *)
LEMMA TargetProvides ==
  ASSUME ExactInv, HasExports(target), NEW P \in [Files -> SUBSET Names], Solves(P)
  PROVE  DOMAIN exports[target] \union spaces[target] = P[target]
BY DEF ExactInv, NamesProvided, ExportsSolve, HasExports

(* What the next import brings.                                            *)
LEMMA CurrentBrings ==
  ASSUME ExactInv, Importing, ~current.scoped, NEW P
  PROVE  BroughtTo(P, top.file, top.next)
           = IF current.form = "wildcard" THEN P[target] \cap Public ELSE {current.name}
BY CurrentFacts DEF ExactInv, IInv, BroughtTo, Brings, target

LEMMA BindNamespaceExact ==
  ASSUME ExactInv, BindNamespace
  PROVE  StackReached' /\ NamesProvided' /\ OutcomeJustified'
<1> DEFINE names == top.names \union {current.name}
<1>1. Importing /\ current.form = "namespace" /\ Bound(top.bindings, names)
  BY DEF BindNamespace, AllBindable
<1>2. ~current.scoped => \A P \in [Files -> SUBSET Names] : Solves(P) =>
        (DOMAIN top.bindings \union names) \cap Public
          = ((DOMAIN top.bindings \union top.names)
               \union BroughtTo(P, top.file, top.next)) \cap Public
  BY <1>1, CurrentBrings
<1> HIDE DEF names
<1> QED
  BY <1>1, <1>2, AdvanceExact

LEMMA BindWildcardExact ==
  ASSUME ExactInv, BindWildcard
  PROVE  StackReached' /\ NamesProvided' /\ OutcomeJustified'
<1> DEFINE bindings == Override(top.bindings, Only(exports[target], Public))
           names == top.names \union (spaces[target] \cap Public)
<1>1. /\ Importing /\ current.form = "wildcard" /\ Bound(bindings, names)
      /\ \A i \in DOMAIN current.loads : HasExports(current.loads[i].file)
  BY DEF BindWildcard, AllBindable
<1>2. HasExports(target)
  BY <1>1, CurrentFacts DEF ExactInv, IInv, target
<1>3. DOMAIN bindings = DOMAIN top.bindings \union (DOMAIN exports[target] \cap Public)
  BY DEF Override, Only
<1>4. ~current.scoped => \A P \in [Files -> SUBSET Names] : Solves(P) =>
        (DOMAIN bindings \union names) \cap Public
          = ((DOMAIN top.bindings \union top.names)
               \union BroughtTo(P, top.file, top.next)) \cap Public
  <2> SUFFICES ASSUME ~current.scoped, NEW P \in [Files -> SUBSET Names], Solves(P)
               PROVE  (DOMAIN bindings \union names) \cap Public
                        = ((DOMAIN top.bindings \union top.names)
                             \union BroughtTo(P, top.file, top.next)) \cap Public
    OBVIOUS
  <2>1. DOMAIN exports[target] \union spaces[target] = P[target]
    BY <1>2, TargetProvides
  <2>2. BroughtTo(P, top.file, top.next) = P[target] \cap Public
    BY <1>1, CurrentBrings
  <2> HIDE DEF bindings
  <2> QED
    BY <1>3, <2>1, <2>2
<1> HIDE DEF bindings, names
<1> QED
  BY <1>1, <1>4, AdvanceExact

LEMMA BindNameExact ==
  ASSUME ExactInv, BindName
  PROVE  StackReached' /\ NamesProvided' /\ OutcomeJustified'
<1> DEFINE bindings == Override(top.bindings, Only(exports[target], {current.name}))
           names == top.names \union {current.name}
<1>1. Importing /\ current.form = "names"
  BY DEF BindName
<1>2. ~current.scoped => \A P : BroughtTo(P, top.file, top.next) = {current.name}
  BY <1>1, CurrentBrings
<1>3. CASE current.name \in DOMAIN exports[target]
  <2>1. Bound(bindings, top.names)
    BY <1>3 DEF BindName
  <2>2. DOMAIN bindings = DOMAIN top.bindings \union {current.name}
    BY <1>3 DEF Override, Only
  <2> HIDE DEF bindings
  <2> QED
    BY <1>1, <1>2, <2>1, <2>2, AdvanceExact
<1>4. CASE current.name \notin DOMAIN exports[target]
  <2>1. Bound(top.bindings, names)
    BY <1>4 DEF BindName
  <2>2. ~current.scoped => \A P \in [Files -> SUBSET Names] : Solves(P) =>
          (DOMAIN top.bindings \union names) \cap Public
            = ((DOMAIN top.bindings \union top.names)
                 \union BroughtTo(P, top.file, top.next)) \cap Public
    BY <1>2
  <2> HIDE DEF names
  <2> QED
    BY <1>1, <2>1, <2>2, AdvanceExact
<1> QED
  BY <1>3, <1>4

(* A name is rejected that the module does not provide, or because it is   *)
(* still being loaded.                                                     *)
LEMMA RejectNameExact ==
  ASSUME ExactInv, RejectName
  PROVE  StackReached' /\ NamesProvided' /\ OutcomeJustified'
<1>1. /\ Importing /\ Missing = {} /\ ~Known
      /\ outcome' = "NameNotFound" /\ UNCHANGED <<program, stack, exports, spaces>>
  BY DEF RejectName
<1>2. 1 \in DOMAIN current.loads
  BY <1>1, CurrentFacts DEF ExactInv, IInv
<1>3. target \in ImportedBy(top.file)
  BY <1>1, <1>2, LoadInImport DEF ExactInv, target
<1>4. target \in loaded
  BY <1>1, <1>2 DEF Missing, target
<1>5. /\ \A P : Solves(P)' = Solves(P)
      /\ Cyclic' = Cyclic /\ target' = target /\ current' = current
  BY <1>1, SameReference DEF target, current, imports, top
<1>6. CASE HasExports(target)
  <2>1. \A P \in [Files -> SUBSET Names] : Solves(P) => current.name \notin P[target]
    BY <1>1, <1>6, TargetProvides DEF Known
  <2>2. OutcomeJustified'
    BY <1>1, <1>5, <2>1 DEF OutcomeJustified
  <2> QED
    BY <1>1, <2>2, StopExact
<1>7. CASE ~HasExports(target)
  <2>1. target \in Active
    BY <1>4, <1>7 DEF ExactInv, IInv, Types, LoadedOnce, HasExports
  <2>2. PICK s \in 2 .. Len(stack) : stack[s].file = target
    BY <2>1 DEF Active
  <2>3. s \in DOMAIN stack
    BY StackFacts DEF ExactInv, IInv
  <2>4. Cyclic
    BY <1>3, <2>2, <2>3, BackEdge DEF ExactInv
  <2>5. OutcomeJustified'
    BY <1>1, <1>5, <2>4 DEF OutcomeJustified
  <2> QED
    BY <1>1, <2>5, StopExact
<1> QED
  BY <1>6, <1>7

LEMMA FinishEntryExact ==
  ASSUME ExactInv, FinishEntry
  PROVE  StackReached' /\ NamesProvided' /\ OutcomeJustified'
<1>1. outcome' = "linked" /\ UNCHANGED <<program, stack, exports, spaces>>
  BY DEF FinishEntry
<1>2. OutcomeJustified'
  BY <1>1 DEF OutcomeJustified
<1> QED
  BY <1>1, <1>2, StopExact

LEMMA StutterExact ==
  ASSUME ExactInv, UNCHANGED vars
  PROVE  StackReached' /\ NamesProvided' /\ OutcomeJustified'
<1>1. UNCHANGED <<program, stack, exports, spaces, outcome>>
  BY DEF vars
<1>2. /\ \A P : Solves(P)' = Solves(P)
      /\ \A S : ReachFrom(S)' = ReachFrom(S)
      /\ Cyclic' = Cyclic /\ target' = target /\ current' = current
  BY <1>1, SameReference DEF target, current, imports, top
<1>3. OutcomeJustified'
  BY <1>1, <1>2 DEF ExactInv, OutcomeJustified
<1> QED
  BY <1>1, <1>3, StopExact

LEMMA ExactInit ==
  ASSUME Init
  PROVE  ExactInv
<1> DEFINE load == [file |-> Entry, path |-> CHOOSE path \in Paths : TRUE]
           a == Activation(load)
<1>1. IInv
  BY InitStep
<1>2. a.file = Entry /\ a.next = 1 /\ DOMAIN a.bindings = {} /\ a.names = {}
  BY DEF Activation
<1>3. /\ stack = <<a>> /\ DOMAIN exports = {} /\ outcome = "linking"
  BY DEF Init
<1> HIDE DEF a, load
<1>4. DOMAIN stack = {1} /\ stack[1] = a
  BY <1>3
<1>5. StackReached
  <2>1. Entry \in ReachFrom({Entry})
    BY <1>1, ReachFacts, LinkerAssumption DEF IInv
  <2> QED
    BY <1>2, <1>4, <2>1 DEF StackReached
<1>6. NamesProvided
  <2>1. \A P : BoundAsProvided(P, a)
    <3>1. program.imports[Entry] \in Seq(Import)
      BY <1>1, ProgramFacts, LinkerAssumption DEF IInv
    <3>2. \A k \in DOMAIN program.imports[Entry] : ~(k < 1)
      BY <3>1
    <3>3. \A P : BroughtBefore(P, Entry, 1) = {}
      BY <3>2 DEF BroughtBefore
    <3> QED
      BY <1>2, <3>3 DEF BoundAsProvided
  <2> QED
    BY <1>3, <1>4, <2>1 DEF NamesProvided, ExportsSolve
<1>7. OutcomeJustified
  BY <1>3 DEF OutcomeJustified
<1> QED
  BY <1>1, <1>5, <1>6, <1>7 DEF ExactInv

LEMMA ExactStep ==
  ASSUME ExactInv, [Next]_vars
  PROVE  ExactInv'
<1>1. IInv'
  BY StepPreserves DEF ExactInv
<1>2. StackReached' /\ NamesProvided' /\ OutcomeJustified'
  <2>1. CASE Importing /\ Load
    <3>1. PICK i \in DOMAIN current.loads : LoadModule(i) \/ LoadFails(i)
      BY <2>1 DEF Load
    <3>2. CASE LoadModule(i)
      BY <2>1, <3>2, LoadModuleExact
    <3>3. CASE LoadFails(i)
      BY <2>1, <3>3, LoadFailsExact
    <3> QED
      BY <3>1, <3>2, <3>3
  <2>2. CASE IndexFails
    BY <2>2, IndexFailsExact
  <2>3. CASE BindNamespace
    BY <2>3, BindNamespaceExact
  <2>4. CASE BindWildcard
    BY <2>4, BindWildcardExact
  <2>5. CASE BindName
    BY <2>5, BindNameExact
  <2>6. CASE RejectName
    BY <2>6, RejectNameExact
  <2>7. CASE Hoist
    BY <2>7, HoistExact
  <2>8. CASE FinishEntry
    BY <2>8, FinishEntryExact
  <2>9. CASE UNCHANGED vars
    BY <2>9, StutterExact
  <2> QED
    BY <2>1, <2>2, <2>3, <2>4, <2>5, <2>6, <2>7, <2>8, <2>9 DEF Next, Link, Over
<1> QED
  BY <1>1, <1>2 DEF ExactInv

(* While a program is linked, every activation is reached from the entry   *)
(* file and by the imports of those below it; a module exports, and an     *)
(* activation has bound, the names of every solution of the equation that  *)
(* defines what a module provides; and a failure has its reason.           *)
THEOREM ExactInvariant == Spec => []ExactInv
<1>1. Init => ExactInv
  BY ExactInit
<1>2. ExactInv /\ [Next]_vars => ExactInv'
  BY ExactStep
<1> QED
  BY <1>1, <1>2, PTL DEF Spec

-----------------------------------------------------------------------------
(* What is linked has been read and found.                                 *)

(* A name that an import asks for is one that its module exports.          *)
NameFound(f, k) ==
  LET import == program.imports[f][k]
      g == import.loads[1].file
  IN import.form = "names" => HasExports(g) /\ import.name \in DOMAIN exports[g] \union spaces[g]
AllFound(f) == \A k \in DOMAIN program.imports[f] : NameFound(f, k)
FoundBefore(act) ==
  \A k \in DOMAIN program.imports[act.file] : k < act.next => NameFound(act.file, k)

(* That holds of the modules that are hoisted, of the imports that are     *)
(* bound, and of the entry when it is linked.                              *)
LinksChecked ==
  /\ loaded \subseteq Readable
  /\ \A f \in Hoisted : AllFound(f)
  /\ \A s \in DOMAIN stack : FoundBefore(stack[s])
  /\ outcome = "linked" => AllFound(Entry)
  /\ outcome \in {"linking", "linked", "Panic", "NameNotFound", "Unreadable"}
  /\ outcome = "NameNotFound" =>
       top.next \in DOMAIN program.imports[top.file] /\ current.form = "names"

LEMMA SameFound ==
  ASSUME UNCHANGED <<program, exports, spaces>>
  PROVE  /\ \A f : AllFound(f)' = AllFound(f)
         /\ \A act : FoundBefore(act)' = FoundBefore(act)
BY DEF AllFound, FoundBefore, NameFound, HasExports

LEMMA CheckedStop ==
  ASSUME IInv, LinksChecked, UNCHANGED <<program, stack, loaded, exports, spaces, decls>>,
         outcome' = "linked" => AllFound(Entry),
         outcome' \in {"linking", "linked", "Panic", "NameNotFound", "Unreadable"},
         outcome' = "NameNotFound" =>
           top.next \in DOMAIN program.imports[top.file] /\ current.form = "names"
  PROVE  LinksChecked'
<1>1. /\ \A f : AllFound(f)' = AllFound(f)
      /\ \A act : FoundBefore(act)' = FoundBefore(act)
  BY SameFound
<1>2. Hoisted' = Hoisted /\ top' = top /\ current' = current
  BY DEF Hoisted, top, current, imports
<1> QED
  BY <1>1, <1>2 DEF LinksChecked

LEMMA CheckedPush ==
  ASSUME IInv, LinksChecked, NEW load \in Loads, load.file \in Readable,
         stack' = Append(stack, Activation(load)), loaded' = loaded \union {load.file},
         outcome = "linking", UNCHANGED <<program, exports, spaces, decls, outcome>>
  PROVE  LinksChecked'
<1> DEFINE n == Len(stack)
           a == Activation(load)
<1>1. /\ \A f : AllFound(f)' = AllFound(f)
      /\ \A act : FoundBefore(act)' = FoundBefore(act)
      /\ Hoisted' = Hoisted
  BY SameFound DEF Hoisted
<1>2. /\ DOMAIN stack = 1 .. n /\ DOMAIN stack' = 1 .. n + 1
      /\ \A s \in 1 .. n : stack'[s] = stack[s]
      /\ \A s \in 1 .. n + 1 : s \in 1 .. n \/ s = n + 1
      /\ stack'[n + 1] = a
  BY PushedStack DEF IInv
<1>3. FoundBefore(a)
  <2>1. a.file = load.file /\ a.next = 1 /\ load.file \in Files
    BY DEF Activation, Loads
  <2>2. program.imports[load.file] \in Seq(Import)
    BY <2>1, ProgramFacts DEF IInv
  <2>3. \A k \in DOMAIN program.imports[load.file] : ~(k < 1)
    BY <2>2
  <2> HIDE DEF a
  <2> QED
    BY <2>1, <2>3 DEF FoundBefore
<1> HIDE DEF n, a
<1>4. \A s \in DOMAIN stack' : FoundBefore(stack'[s])
  BY <1>2, <1>3 DEF LinksChecked
<1> QED
  BY <1>1, <1>4 DEF LinksChecked

LEMMA CheckedAdvance ==
  ASSUME IInv, LinksChecked, Importing, NameFound(top.file, top.next),
         NEW bindings, NEW names, Bound(bindings, names)
  PROVE  LinksChecked'
<1> DEFINE n == Len(stack)
           b == [top EXCEPT !.next = @ + 1]
           c == [top EXCEPT !.next = @ + 1, !.bindings = bindings, !.names = names]
           a == IF current.scoped THEN b ELSE c
<1>1. /\ \A f : AllFound(f)' = AllFound(f)
      /\ \A act : FoundBefore(act)' = FoundBefore(act)
      /\ Hoisted' = Hoisted
      /\ UNCHANGED <<program, loaded, outcome>> /\ outcome = "linking"
  BY SameFound DEF Hoisted, Bound, Importing
<1>2. /\ n \in Nat \ {0} /\ DOMAIN stack = 1 .. n /\ stack \in Seq(Act)
      /\ top = stack[n] /\ n \in 1 .. n /\ top \in Act
  BY StackFacts DEF IInv, Types, top
<1>3. a.file = top.file /\ a.next = top.next + 1
  BY <1>2 DEF Act
<1>4. stack' = [stack EXCEPT ![n] = a]
  BY DEF Bound, SetTop
<1> HIDE DEF n, a
<1>5. DOMAIN stack' = 1 .. n /\ \A s \in 1 .. n : stack'[s] = IF s = n THEN a ELSE stack[s]
  BY <1>2, <1>4
<1>6. FoundBefore(a)
  <2>1. top.file \in Files /\ top.next \in Nat
    BY <1>2 DEF Act
  <2>2. \A k \in DOMAIN program.imports[top.file] :
          k < top.next + 1 => k < top.next \/ k = top.next
    BY <2>1, ProgramFacts DEF IInv
  <2>3. FoundBefore(top)
    BY <1>2 DEF LinksChecked
  <2> QED
    BY <1>3, <2>2, <2>3 DEF FoundBefore
<1>7. \A s \in DOMAIN stack' : FoundBefore(stack'[s])
  BY <1>2, <1>5, <1>6 DEF LinksChecked
<1> QED
  BY <1>1, <1>7 DEF LinksChecked

LEMMA CheckedHoist ==
  ASSUME IInv, LinksChecked, Hoist
  PROVE  LinksChecked'
<1> DEFINE n == Len(stack)
           f == top.file
<1>1. /\ UNCHANGED <<program, loaded, outcome>> /\ outcome = "linking"
      /\ exports' = Extend(exports, f, Exported)
      /\ spaces' = Extend(spaces, f, top.names \cap Public)
      /\ stack' = Below /\ decls' = Append(decls, [file |-> f, path |-> top.path])
      /\ n > 1 /\ top.next > Len(imports)
  BY DEF Hoist
<1>2. /\ n \in Nat \ {0} /\ DOMAIN stack = 1 .. n /\ top = stack[n] /\ n \in 1 .. n
      /\ top \in Act /\ f \in Files /\ top.next \in Nat
  BY StackFacts DEF IInv, top, Act
<1>3. /\ DOMAIN stack' = 1 .. n - 1
      /\ \A s \in 1 .. n - 1 : s \in 1 .. n /\ stack'[s] = stack[s]
  <2>1. Len(Below) = n - 1 /\ Below \in Seq(Act)
        /\ \A s \in 1 .. n - 1 : Below[s] = stack[s]
    BY BelowFacts DEF IInv
  <2>2. \A s \in 1 .. n - 1 : s \in 1 .. n
    BY <1>2
  <2> HIDE DEF n
  <2> QED
    BY <1>1, <2>1, <2>2, LenProperties
<1>4. f \notin Hoisted /\ DOMAIN exports = Hoisted /\ DOMAIN spaces = Hoisted
  <2>1. n \in 2 .. n
    BY <1>1, <1>2
  <2>2. f \in Active
    BY <1>2, <2>1 DEF Active
  <2> QED
    BY <2>2 DEF IInv, LoadedOnce, Types
<1>5. Hoisted' = Hoisted \union {f}
  <2>1. decls \in Seq(Decl)
    BY DEF IInv, Types
  <2>2. /\ DOMAIN decls = 1 .. Len(decls) /\ DOMAIN decls' = 1 .. Len(decls) + 1
        /\ \A i \in 1 .. Len(decls) : decls'[i] = decls[i]
        /\ decls'[Len(decls) + 1].file = f
        /\ \A i \in 1 .. Len(decls) + 1 : i \in 1 .. Len(decls) \/ i = Len(decls) + 1
        /\ \A i \in 1 .. Len(decls) : i \in 1 .. Len(decls) + 1
        /\ Len(decls) + 1 \in 1 .. Len(decls) + 1
    BY <1>1, <2>1, AppendProperties, LenProperties
  <2> HIDE DEF f
  <2> QED
    BY <2>2 DEF Hoisted
<1> HIDE DEF n, f
<1>6. \A g, k : NameFound(g, k) => NameFound(g, k)'
  BY <1>1, <1>4 DEF NameFound, HasExports, Extend
<1>7. AllFound(f)
  <2>1. FoundBefore(top)
    BY <1>2 DEF LinksChecked
  <2>2. program.imports[f] \in Seq(Import) /\ imports = program.imports[f]
    BY <1>2, ProgramFacts DEF IInv, imports, f
  <2>3. \A k \in DOMAIN program.imports[f] : k < top.next
    BY <1>1, <1>2, <2>2
  <2> QED
    BY <2>1, <2>3 DEF FoundBefore, AllFound, f
<1>8. \A g \in Hoisted' : AllFound(g)'
  BY <1>1, <1>5, <1>6, <1>7 DEF LinksChecked, AllFound
<1>9. \A s \in 1 .. n - 1 : \A k \in DOMAIN program.imports[stack[s].file] :
        k < stack[s].next => NameFound(stack[s].file, k)'
  BY <1>2, <1>3, <1>6 DEF LinksChecked, FoundBefore
<1>10. (\A s \in DOMAIN stack : FoundBefore(stack[s]))'
  BY <1>1, <1>3, <1>9 DEF FoundBefore
<1> QED
  BY <1>1, <1>8, <1>10 DEF LinksChecked

LEMMA CheckedStep ==
  ASSUME IInv, LinksChecked, [Next]_vars
  PROVE  LinksChecked'
<1>1. CASE Importing /\ Load
  <2>1. PICK i \in DOMAIN current.loads : LoadModule(i) \/ LoadFails(i)
    BY <1>1 DEF Load
  <2>2. CASE LoadModule(i)
    <3>1. current.loads[i] \in Loads
      BY <1>1, CurrentFacts DEF IInv
    <3> QED
      BY <2>2, <3>1, CheckedPush DEF LoadModule, Importing
  <2>3. CASE LoadFails(i)
    BY <2>3, CheckedStop DEF LoadFails
  <2> QED
    BY <2>1, <2>2, <2>3
<1>2. CASE IndexFails
  BY <1>2, CheckedStop DEF IndexFails
<1>3. ASSUME Importing, current.form # "names"
      PROVE  NameFound(top.file, top.next)
  BY <1>3, CurrentFacts DEF IInv, NameFound
<1>4. CASE BindNamespace
  BY <1>3, <1>4, CheckedAdvance DEF BindNamespace, AllBindable
<1>5. CASE BindWildcard
  BY <1>3, <1>5, CheckedAdvance DEF BindWildcard, AllBindable
<1>6. CASE BindName
  <2>1. NameFound(top.file, top.next)
    BY <1>6, CurrentFacts DEF IInv, BindName, Known, NameFound, target
  <2> QED
    BY <1>6, <2>1, CheckedAdvance DEF BindName
<1>7. CASE RejectName
  BY <1>7, CurrentFacts, CheckedStop DEF RejectName, IInv
<1>8. CASE Hoist
  BY <1>8, CheckedHoist
<1>9. CASE FinishEntry
  <2>1. top.file = Entry /\ top.next > Len(program.imports[Entry]) /\ top.next \in Nat
        /\ FoundBefore(top)
    BY <1>9, StackFacts DEF FinishEntry, IInv, Types, top, imports, Act, LinksChecked
  <2>2. program.imports[Entry] \in Seq(Import)
    BY ProgramFacts, LinkerAssumption DEF IInv
  <2>3. AllFound(Entry)
    BY <2>1, <2>2 DEF FoundBefore, AllFound
  <2> QED
    BY <1>9, <2>3, CheckedStop DEF FinishEntry
<1>10. CASE UNCHANGED vars
  <2>1. UNCHANGED <<program, stack, loaded, exports, spaces, decls, outcome>>
    BY <1>10 DEF vars
  <2> QED
    BY <2>1, CheckedStop DEF LinksChecked
<1> QED
  BY <1>1, <1>2, <1>4, <1>5, <1>6, <1>7, <1>8, <1>9, <1>10 DEF Next, Link, Over

LEMMA CheckedInit ==
  ASSUME Init
  PROVE  LinksChecked
<1> DEFINE load == [file |-> Entry, path |-> CHOOSE path \in Paths : TRUE]
           a == Activation(load)
<1>1. a.file = Entry /\ a.next = 1
  BY DEF Activation
<1>2. stack = <<a>> /\ decls = <<>> /\ loaded = {} /\ outcome = "linking"
  BY DEF Init
<1> HIDE DEF a, load
<1>3. DOMAIN stack = {1} /\ stack[1] = a /\ Hoisted = {}
  BY <1>2 DEF Hoisted
<1>4. program.imports[Entry] \in Seq(Import)
  BY InitStep, ProgramFacts, LinkerAssumption DEF IInv
<1>5. \A k \in DOMAIN program.imports[Entry] : ~(k < 1)
  BY <1>4
<1>6. FoundBefore(a)
  BY <1>1, <1>5 DEF FoundBefore
<1> QED
  BY <1>2, <1>3, <1>6 DEF LinksChecked

-----------------------------------------------------------------------------
(* What a module provides solves its equation.                             *)
LEMMA ProvidesSolves ==
  ASSUME Types
  PROVE  Provides \in [Files -> SUBSET Names] /\ Solves(Provides)
<1> DEFINE S == Families(Files, Names)
           g == [r \in S |-> [f \in Files |-> ProvidedBy(r, f)]]
<1>1. \A r : \A f \in Files : ProvidedBy(r, f) \subseteq Names
  <2>1. ASSUME NEW r, NEW f \in Files
        PROVE  ProvidedBy(r, f) \subseteq Names
    <3> DEFINE all == UNION {BroughtTo(r, f, k) : k \in DOMAIN program.imports[f]}
    <3>1. ProvidedBy(r, f) = program.declares[f] \union (all \cap Public)
      BY DEF ProvidedBy
    <3>2. program.declares[f] \subseteq Names /\ Public \subseteq Names
      BY ProgramFacts, LinkerAssumption
    <3> HIDE DEF all
    <3> QED
      BY <3>1, <3>2
  <2> QED
    BY <2>1
<1>2. g \in [S -> S]
  BY <1>1 DEF Families
<1>3. ASSUME NEW r \in S, NEW s \in S, Within(r, s), NEW f \in Files
      PROVE  ProvidedBy(r, f) \subseteq ProvidedBy(s, f)
  <2>1. ASSUME NEW k \in DOMAIN program.imports[f]
        PROVE  BroughtTo(r, f, k) \subseteq BroughtTo(s, f, k)
    <3> DEFINE h == program.imports[f][k].loads[1].file
    <3>1. 1 \in DOMAIN program.imports[f][k].loads
      BY ProgramFacts
    <3>2. h \in Files
      BY <3>1, ImportsAreFiles DEF ImportedBy
    <3>3. r[h] \subseteq s[h]
      BY <1>3, <3>2 DEF Within, Families
    <3> QED
      BY <3>3 DEF BroughtTo, Brings
  <2> DEFINE all(p) == UNION {BroughtTo(p, f, k) : k \in DOMAIN program.imports[f]}
  <2>2. all(r) \subseteq all(s)
    BY <2>1
  <2>3. \A p : ProvidedBy(p, f) = program.declares[f] \union (all(p) \cap Public)
    BY DEF ProvidedBy
  <2> HIDE DEF all
  <2> QED
    BY <2>2, <2>3
<1>4. Monotone(g, Files, Names)
  <2>1. ASSUME NEW r \in S, NEW s \in S, Within(r, s)
        PROVE  Within(g[r], g[s])
    BY <1>3, <2>1 DEF Within
  <2> QED
    BY <2>1 DEF Monotone
<1>5. PICK r \in S : g[r] = r
  <2> HIDE DEF g
  <2> QED
    BY <1>2, <1>4, MonotoneHasFixpoint
<1>6. r = [f \in Files |-> ProvidedBy(r, f)]
  BY <1>5
<1>7. Provides = [f \in Files |-> ProvidedBy(Provides, f)]
  BY <1>6 DEF Provides
<1>8. DOMAIN Provides = Files /\ \A f \in Files : Provides[f] = ProvidedBy(Provides, f)
  <2> HIDE DEF Provides
  <2> QED
    BY <1>7
<1>9. Provides \in [Files -> SUBSET Names]
  <2> HIDE DEF Provides
  <2>1. \A f \in Files : Provides[f] \in SUBSET Names
    BY <1>1, <1>8
  <2>2. Provides = [f \in Files |-> Provides[f]]
    BY <1>7, <1>8
  <2> QED
    BY <2>1, <2>2
<1> QED
  BY <1>8, <1>9 DEF Solves

(* A module that is hoisted is not reached from what it imports: those are *)
(* hoisted before it, and so is what they import.                          *)
LEMMA HoistedAcyclic ==
  ASSUME IInv, NEW f \in Hoisted
  PROVE  f \notin ReachFrom(ImportedBy(f))
<1>1. PICK i \in DOMAIN decls : f = decls[i].file
  BY DEF Hoisted
<1> DEFINE T == {decls[j].file : j \in {j \in DOMAIN decls : j < i}}
<1>2. /\ Types /\ DependenciesFirst
      /\ DOMAIN decls = 1 .. Len(decls) /\ Len(decls) \in Nat
      /\ \A j \in DOMAIN decls : decls[j] \in Decl
  BY StackFacts DEF IInv
<1>3. \A j \in DOMAIN decls : \A k \in 1 .. j - 1 : k \in DOMAIN decls /\ k < j
  BY <1>2
<1>4. T \in SUBSET Files
  BY <1>2 DEF Decl
<1>5. ImportedBy(f) \subseteq T
  BY <1>1, <1>2, <1>3 DEF DependenciesFirst
<1>6. \A j \in DOMAIN decls : j < i => ImportedBy(decls[j].file) \subseteq T
  <2>1. ASSUME NEW j \in DOMAIN decls, j < i, NEW g \in ImportedBy(decls[j].file)
        PROVE  g \in T
    <3>1. PICK k \in 1 .. j - 1 : decls[k].file = g
      BY <1>2, <2>1 DEF DependenciesFirst
    <3>2. k \in DOMAIN decls /\ k < j
      BY <1>3, <2>1
    <3>3. k < i
      BY <1>2, <2>1, <3>2
    <3> QED
      BY <3>1, <3>2, <3>3
  <2> QED
    BY <2>1
<1>7. Complete(T)
  BY <1>6 DEF Complete
<1>8. f \notin T
  BY <1>1, <1>2 DEF IInv, LoadedOnce
<1> HIDE DEF T
<1> QED
  BY <1>4, <1>5, <1>7, <1>8 DEF ReachFrom

(* A program that is linked has no fault.                                  *)
LEMMA LinkedIsSound ==
  ASSUME IInv, LinksChecked, NamesProvided, outcome = "linked"
  PROVE  ~Cyclic /\ Reached \subseteq Readable /\ AllNamesProvided
<1> DEFINE all == Hoisted \union {Entry}
<1>1. Types /\ DependenciesFirst /\ ImportedBy(Entry) \subseteq Hoisted
  BY DEF IInv, DependenciesFirst
<1>2. Hoisted \subseteq loaded /\ loaded \subseteq Files /\ loaded \subseteq Readable
      /\ Entry \in Readable /\ Entry \in Files
  BY LinkerAssumption DEF IInv, LoadedOnce, Types, LinksChecked
<1>3. \A f \in Hoisted : ImportedBy(f) \subseteq Hoisted
  <2>1. ASSUME NEW f \in Hoisted, NEW g \in ImportedBy(f)
        PROVE  g \in Hoisted
    <3>1. PICK i \in DOMAIN decls : f = decls[i].file
      BY DEF Hoisted
    <3>2. PICK j \in 1 .. i - 1 : decls[j].file = g
      BY <1>1, <2>1, <3>1 DEF DependenciesFirst
    <3>3. j \in DOMAIN decls
      BY <1>1, <3>1, <3>2, StackFacts
    <3> QED
      BY <3>2, <3>3 DEF Hoisted
  <2> QED
    BY <2>1
<1>4. Complete(all) /\ Complete(Hoisted)
  BY <1>1, <1>3 DEF Complete
<1>5. all \in SUBSET Files /\ Hoisted \in SUBSET Files
  BY <1>2
<1>6. Reached \subseteq all
  BY <1>4, <1>5 DEF Reached, ReachFrom
<1>7. ~Cyclic
  <2>1. ASSUME NEW f \in Reached, f \in ReachFrom(ImportedBy(f))
        PROVE  FALSE
    <3>1. CASE f \in Hoisted
      BY <2>1, <3>1, HoistedAcyclic
    <3>2. CASE f \notin Hoisted
      <4>1. f = Entry
        BY <1>6, <2>1, <3>2
      <4>2. ReachFrom(ImportedBy(f)) \subseteq Hoisted
        BY <1>1, <1>4, <1>5, <4>1 DEF ReachFrom
      <4> QED
        BY <2>1, <3>2, <4>2
    <3> QED
      BY <3>1, <3>2
  <2> QED
    BY <2>1 DEF Cyclic, Reached
<1>8. Reached \subseteq Readable
  BY <1>2, <1>6
<1>9. AllNamesProvided
  <2>1. Provides \in [Files -> SUBSET Names] /\ Solves(Provides)
    BY <1>1, ProvidesSolves
  <2> HIDE DEF Provides
  <2>2. ExportsSolve(Provides)
    BY <2>1 DEF NamesProvided
  <2>3. \A f \in Reached : AllFound(f)
    BY <1>6 DEF LinksChecked
  <2>4. ASSUME NEW f \in Reached, NEW k \in DOMAIN program.imports[f],
               program.imports[f][k].form = "names"
        PROVE  program.imports[f][k].name \in Provides[program.imports[f][k].loads[1].file]
    BY <2>2, <2>3, <2>4 DEF AllFound, NameFound, HasExports, ExportsSolve
  <2> QED
    BY <2>4 DEF AllNamesProvided
<1> QED
  BY <1>7, <1>8, <1>9

(* A program is linked exactly when it has no fault: each file that the    *)
(* entry reaches can be read, each name asked for is provided, and no      *)
(* cycle is reached; a cycle is never broken.  A panic shows a cycle, a    *)
(* name is rejected only when the module does not provide it or there is a *)
(* cycle, and linking stops for want of a file only when one that it       *)
(* reaches cannot be read.                                                 *)
THEOREM LinkingIsExact == Spec => []LinkedUnlessCyclicOrWrong
<1>1. ExactInv /\ LinksChecked => LinkedUnlessCyclicOrWrong
  <2> SUFFICES ASSUME ExactInv, LinksChecked PROVE LinkedUnlessCyclicOrWrong
    OBVIOUS
  <2>1. Provides \in [Files -> SUBSET Names] /\ Solves(Provides)
    BY ProvidesSolves DEF ExactInv, IInv
  <2> HIDE DEF Provides
  <2>2. outcome = "Panic" => ImportCycle /\ Cyclic
    <3> SUFFICES ASSUME outcome = "Panic" PROVE ImportCycle /\ Cyclic
      OBVIOUS
    <3>1. ImportCycle
      BY DEF ExactInv, IInv, PanicShowsCycle
    <3>2. PICK s \in DOMAIN stack : stack[s].file \in ImportedBy(top.file)
      BY <3>1 DEF ImportCycle
    <3> QED
      BY <3>1, <3>2, BackEdge DEF ExactInv
  <2>3. outcome = "NameNotFound" => Cyclic \/ current.name \notin Provides[target]
    BY <2>1 DEF ExactInv, OutcomeJustified
  <2>4. outcome = "Unreadable" => ~(Reached \subseteq Readable)
    BY DEF ExactInv, OutcomeJustified, Reached
  <2>5. outcome = "linked" => ~Cyclic /\ Reached \subseteq Readable /\ AllNamesProvided
    BY LinkedIsSound DEF ExactInv
  <2>6. outcome = "NameNotFound" /\ current.name \notin Provides[target] => ~AllNamesProvided
    <3> SUFFICES ASSUME outcome = "NameNotFound", current.name \notin Provides[target]
                 PROVE  ~AllNamesProvided
      OBVIOUS
    <3>1. top.file \in Reached
      BY StackFacts DEF ExactInv, IInv, StackReached, Reached, top
    <3>2. top.next \in DOMAIN program.imports[top.file] /\ current.form = "names"
      BY DEF LinksChecked
    <3> QED
      BY <3>1, <3>2 DEF AllNamesProvided, current, imports, target
  <2>7. outcome \in {"linking", "linked", "Panic", "NameNotFound", "Unreadable"}
    BY DEF LinksChecked
  <2> QED
    BY <2>2, <2>3, <2>4, <2>5, <2>6, <2>7 DEF LinkedUnlessCyclicOrWrong
<1>2. Init => LinksChecked
  BY CheckedInit
<1>3. IInv /\ LinksChecked /\ [Next]_vars => LinksChecked'
  BY CheckedStep
<1> QED
  BY <1>1, <1>2, <1>3, LinkerInvariant, ExactInvariant, PTL DEF Spec

(* A module exports what it provides, whatever the order in which modules  *)
(* are loaded, and each name stands for a declaration hoisted before.      *)
THEOREM ExportsAreAsProvided == Spec => []ExportsAreExact
<1>1. ExactInv => ExportsAreExact
  <2> SUFFICES ASSUME ExactInv PROVE NamesResolve /\ ExportsAreProvided
    BY DEF ExportsAreExact
  <2>1. Provides \in [Files -> SUBSET Names] /\ Solves(Provides)
    BY ProvidesSolves DEF ExactInv, IInv
  <2> HIDE DEF Provides
  <2> QED
    BY <2>1 DEF ExactInv, IInv, NamesProvided, ExportsSolve, ExportsAreProvided
<1> QED
  BY <1>1, ExactInvariant, PTL
=============================================================================
