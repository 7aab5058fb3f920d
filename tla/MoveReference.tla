---------------------------- MODULE MoveReference ---------------------------
(***************************************************************************)
(* What MoveAnalysis has to find out: the places that executions of the    *)
(* function, taking every path, find moved.                                *)
(***************************************************************************)
EXTENDS MoveAnalysis, FiniteSets

(* A function has finitely many variables, and names finitely many places. *)
ASSUME FiniteAssumption == IsFiniteSet(Vars) /\ IsFiniteSet(Paths)

Tombs == [Vars -> SUBSET Paths]
NoTombs == [v \in Vars |-> {}]

(* No fault stops an execution here.  A store through a moved place fails. *)
Pass(t, i) == IF i.op = "store" /\ Touches(t, i) THEN t ELSE exec_instr(t, i)

(* The tombstones with which executions arrive at each node: the least sets *)
(* that another step adds nothing to.                                       *)
Arrived == [Nodes -> SUBSET Tombs]
ArriveNext(r) ==
  [n \in Nodes |->
     (IF n = 0 THEN {NoTombs} ELSE {})
       \union UNION {{Pass(t, fn.code[m]) : t \in r[m]} : m \in preds(n)}]
ArrivalsFrom[r \in Arrived] ==
  IF ArriveNext(r) = r THEN r ELSE ArrivalsFrom[ArriveNext(r)]
Arrivals == ArrivalsFrom[[n \in Nodes |-> {}]]

StateOf(t, v, p) == IF \E q \in t[v] : p \in Inside(q) THEN "Moved" ELSE "Owned"
Summary(ts) ==
  [v \in Vars |-> [p \in Paths |-> join({StateOf(t, v, p) : t \in ts})]]

(* No block is left without a way in, as statements after a return leave   *)
(* blocks whose moves the analysis counts all the same.                    *)
NoDeadCode == \A n \in Nodes \ {0} : preds(n) # {}

(* No element that is stored to is moved anywhere: the analysis knows only  *)
(* one place for all elements, which no store makes whole again.            *)
MovedPlaces(i) ==
  IF i.op = "move" THEN {Whole} ELSE IF i.op = "take" THEN {i.path} ELSE {}
Moves(v) == UNION {MovedPlaces(fn.code[n]) : n \in {m \in Nodes : fn.code[m].var = v}}
ElementsStay ==
  \A n \in Nodes : fn.code[n].op = "storeIndex" => fn.code[n].path \notin Moves(fn.code[n].var)

(* In a function that is accepted, the facts are exactly what executions   *)
(* bring: Moved on every path, Owned on every path, MaybeMoved otherwise.  *)
(* The comment on in_states warns of a spurious MaybeMoved at loop headers.*)
AcceptedFactsAreExact ==
  phase = "report" /\ cursor = fn.size /\ Transparent /\ NoDeadCode =>
    LET arrivals == Arrivals IN
    \A n \in Nodes : ins[n] = Summary(arrivals[n])

(* Where a function is rejected, some execution does touch a moved value:  *)
(* no spurious UseAfterMove or ConditionallyMoved.                         *)
Rejected == verdict \in {"UseAfterMove", "ConditionallyMoved"}
RejectionsAreJustified ==
  Rejected /\ Transparent /\ NoDeadCode /\ ElementsStay =>
    \E t \in Arrivals[cursor] : Touches(t, fn.code[cursor])
=============================================================================
