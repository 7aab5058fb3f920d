--------------------------- MODULE MCModuleLinker ---------------------------
(***************************************************************************)
(* Programs of an entry file and three modules, a fourth file being        *)
(* unreadable.  Each file has a path, and b another one, "lib.b", which is *)
(* mangled as that of c is.                                                *)
(***************************************************************************)
EXTENDS LinkerReference, FiniteSets, SequencesExt

MCFiles == {"main", "a", "b", "c", "gone"}
MCReadable == MCFiles \ {"gone"}
MCNames == {"p", "q", "_r"}
MCPublic == {"p", "q"}
MCPaths == {"main", "a", "b", "lib.b", "lib_b", "gone"}
MCMangle == [p \in MCPaths |-> CASE p = "main" -> 0 [] p = "a" -> 1 [] p = "b" -> 2
                                 [] p = "gone" -> 4 [] OTHER -> 3]

Of(f) == [file |-> f, path |-> IF f = "c" THEN "lib_b" ELSE f]
Namespace(f) ==
  [form |-> "namespace", loads |-> <<Of(f)>>, name |-> "q", scoped |-> FALSE]
Dotted(f, prefix) ==
  [form |-> "namespace", loads |-> <<Of(f), Of(prefix)>>, name |-> "p", scoped |-> FALSE]
Elsewhere ==
  [form |-> "namespace", loads |-> <<[file |-> "b", path |-> "lib.b"]>>, name |-> "p",
   scoped |-> FALSE]
Wildcard(f) ==
  [form |-> "wildcard", loads |-> <<Of(f)>>, name |-> "p", scoped |-> FALSE]
Named(f, n) ==
  [form |-> "names", loads |-> <<Of(f)>>, name |-> n, scoped |-> FALSE]
Scoped(i) == [i EXCEPT !.scoped = TRUE]

Declares ==
  [f \in MCFiles |-> CASE f = "a" -> {"p"} [] f = "b" -> {"p", "_r"} [] OTHER -> {"q"}]
ProgramOf(main, a, b, c) ==
  [imports |-> [f \in MCFiles |->
     CASE f = "main" -> main [] f = "a" -> a [] f = "b" -> b [] f = "c" -> c
       [] OTHER -> <<>>],
   declares |-> Declares]

Some(f) == {Namespace(f), Wildcard(f), Named(f, "p"), Named(f, "q"), Scoped(Wildcard(f))}
MainImports ==
  {<<Namespace("a")>>, <<Elsewhere, Wildcard("a")>>, <<Namespace("b"), Wildcard("a")>>, <<Dotted("c", "a"), Named("b", "_r")>>,
   <<Wildcard("b"), Named("gone", "p")>>}
Imports(fs) == {<<>>} \union {<<i>> : i \in UNION {Some(f) : f \in fs}}
AImports ==
  Imports({"b", "c", "gone"})
  \union {<<i, j>> : i \in Some("b"), j \in {Named("c", "p"), Wildcard("c"), Scoped(Named("c", "q"))}}
  \union {<<Dotted("b", "c")>>, <<Named("b", "_r")>>}
MCPrograms ==
  {ProgramOf(m, a, b, c) : m \in MainImports, a \in AImports,
     b \in Imports({"a", "c"}), c \in Imports({"a", "b", "main"})}

=============================================================================
