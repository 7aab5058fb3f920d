------------------------ MODULE DropElaborationProofs -----------------------
(***************************************************************************)
(* The theorems of DropElaboration about all functions, whatever their     *)
(* graph, their instructions, their tries and their number of variables.   *)
(***************************************************************************)
EXTENDS DropElaboration, LeastFixpoint

Slots == {"none", "held", "moved", "gone"}
Faults == {"dropped", "lost", "stale"}
(* The loans that begin anywhere, in a region or outside of one.           *)
RegionInstrs == UNION {ToSet(Regions(fn.code[n])) : n \in Tries}
Begun == {i \in Code \union RegionInstrs : i.op = "loan"}
Frame == [slot : [Vars -> Slots], bound : [Vars -> SUBSET Begun], stale : SUBSET Vars,
          bad : SUBSET (Faults \X Vars)]
OwnLoans(f) == \A r \in Vars : \A l \in f.bound[r] : l.thru = r

Types ==
  /\ fn \in Functions
  /\ phase \in {"loans", "check", "drops", "run", "done", "rejected"}
  /\ cursor \in 0 .. fn.size /\ changed \in BOOLEAN
  /\ live_in \in [Nodes -> SUBSET Vars]
  /\ pc \in Nodes /\ frame \in Frame /\ OwnLoans(frame)

-----------------------------------------------------------------------------
(* The owners behind references.                                           *)
LEMMA ExtendCloses ==
  ASSUME NEW code, NEW live, live \subseteq Vars
  PROVE  /\ live \subseteq extend_with_loan_roots(live, code)
         /\ extend_with_loan_roots(live, code) \subseteq Vars
BY DEF extend_with_loan_roots

(* An owner that is reached from a live reference is live.                 *)
LEMMA ExtendKeepsOwners ==
  ASSUME NEW code, NEW live, \A r : roots_of(code, r) \subseteq Vars
  PROVE  RootsIn(extend_with_loan_roots(live, code), code)
<1> SUFFICES ASSUME NEW r \in extend_with_loan_roots(live, code),
                    NEW v \in roots_of(code, r),
                    NEW S \in SUBSET Vars, live \subseteq S, RootsIn(S, code)
             PROVE  v \in S
  BY DEF extend_with_loan_roots, RootsIn
<1>1. r \in S
  BY DEF extend_with_loan_roots
<1> QED
  BY <1>1 DEF RootsIn

(* Nothing else is added than owners, and nothing to an empty set.         *)
LEMMA ExtendAddsOwners ==
  ASSUME NEW code, NEW live, live \subseteq Vars, NEW O \in SUBSET Vars,
         \A r : roots_of(code, r) \subseteq O
  PROVE  /\ extend_with_loan_roots(live, code) \subseteq live \union O
         /\ live = {} => extend_with_loan_roots(live, code) = {}
<1>1. ASSUME NEW v \in extend_with_loan_roots(live, code), v \notin live \union O
      PROVE  FALSE
  <2> DEFINE S == Vars \cap (live \union O)
  <2>1. RootsIn(S, code) /\ S \in SUBSET Vars /\ live \subseteq S
    BY DEF RootsIn
  <2> QED
    BY <1>1, <2>1 DEF extend_with_loan_roots
<1>2. live = {} => RootsIn({}, code)
  BY DEF RootsIn
<1> QED
  BY <1>1, <1>2 DEF extend_with_loan_roots

-----------------------------------------------------------------------------
(* The function and its instructions.                                      *)
LEMMA FunctionFacts ==
  ASSUME Types
  PROVE  /\ fn.size \in Nat \ {0} /\ 0 \in Nodes /\ Nodes \subseteq Nat
         /\ \A n \in Nodes : /\ fn.succ[n] \subseteq Nodes
                             /\ IsInstr(fn.code[n]) /\ fn.code[n] \in Code
                             /\ fn.code[n].op = "try" => IsTry(fn, fn.code[n])
         /\ fn.owned \subseteq Vars /\ fn.borrowed \subseteq Vars
         /\ \A r \in Vars : Single(fn, r) \/ Grouped(fn, r)
<1>1. IsFunction(fn)
  BY FunctionsAssumption DEF Types
<1> QED
  BY <1>1 DEF IsFunction, Nodes, Code

LEMMA LoanFacts ==
  ASSUME Types
  PROVE  /\ \A l \in Loans : l.op = "loan" /\ l.var \in Vars /\ l.thru \in Vars
                             /\ l.mutable \in BOOLEAN /\ l.var \in Outliving
         /\ Outliving \subseteq Vars
         /\ \A r : roots_of(Code, r) \subseteq Outliving
         /\ \A l \in Loans : l.var \in roots_of(Code, l.thru)
<1>0. \A c \in Code : IsInstr(c)
  BY FunctionFacts DEF Code
<1>1. \A l \in Loans : l.op = "loan" /\ IsInstr(l)
  <2>1. \A l \in Loans : l \in Code /\ l.op = "loan"
    BY DEF Loans, LoansOf
  <2> QED
    BY <1>0, <2>1
<1>2. ASSUME NEW l \in Loans PROVE l.thru \in Vars
  <2>1. l.op = "loan" /\ IsInstr(l)
    BY <1>1
  <2> QED
    BY <2>1 DEF IsInstr
<1> QED
  BY <1>1, <1>2 DEF IsInstr, Outliving, roots_of, Loans

(* A sequence of plain instructions.                                       *)
Plain(region) ==
  /\ Len(region) \in Nat /\ DOMAIN region = 1 .. Len(region) /\ region \in Seq(ToSet(region))
  /\ \A k \in 1 .. Len(region) : region[k] \in ToSet(region)
  /\ \A i \in ToSet(region) : /\ IsInstr(i) /\ i.op # "try"
                              /\ \E k \in 1 .. Len(region) : i = region[k]

LEMMA RegionPlain ==
  ASSUME NEW region, IsRegion(region)
  PROVE  Plain(region)
<1>1. /\ region \in Seq(ToSet(region)) /\ ToSet(region) = {region[k] : k \in DOMAIN region}
      /\ \A i \in ToSet(region) : IsInstr(i) /\ i.op # "try"
  BY DEF IsRegion, ToSet
<1>2. Len(region) \in Nat /\ DOMAIN region = 1 .. Len(region)
  BY <1>1
<1> QED
  BY <1>1, <1>2 DEF Plain

LEMMA ConcatSet ==
  ASSUME NEW a, NEW b, a \in Seq(ToSet(a)), b \in Seq(ToSet(b))
  PROVE  a \o b \in Seq(ToSet(a \o b)) /\ ToSet(a \o b) = ToSet(a) \union ToSet(b)
<1> DEFINE A == ToSet(a) \union ToSet(b)
<1>1. a \in Seq(A) /\ b \in Seq(A)
  BY DEF ToSet
<1> HIDE DEF A
<1>2. /\ a \o b \in Seq(A) /\ Len(a \o b) = Len(a) + Len(b) /\ Len(a) \in Nat /\ Len(b) \in Nat
      /\ DOMAIN a = 1 .. Len(a) /\ DOMAIN b = 1 .. Len(b)
      /\ DOMAIN (a \o b) = 1 .. Len(a) + Len(b)
      /\ \A k \in 1 .. Len(a) + Len(b) :
           (a \o b)[k] = IF k <= Len(a) THEN a[k] ELSE b[k - Len(a)]
  BY <1>1
<1>3. ToSet(a \o b) \subseteq ToSet(a) \union ToSet(b)
  <2> SUFFICES ASSUME NEW k \in 1 .. Len(a) + Len(b)
               PROVE  (a \o b)[k] \in ToSet(a) \union ToSet(b)
    BY <1>2 DEF ToSet
  <2>1. CASE k <= Len(a)
    BY <1>2, <2>1 DEF ToSet
  <2>2. CASE ~(k <= Len(a))
    <3>1. k - Len(a) \in DOMAIN b
      BY <1>2, <2>2
    <3> QED
      BY <1>2, <2>2, <3>1 DEF ToSet
  <2> QED
    BY <2>1, <2>2
<1>4. \A k \in DOMAIN a : a[k] \in ToSet(a \o b)
  <2> SUFFICES ASSUME NEW k \in DOMAIN a
               PROVE  a[k] \in ToSet(a \o b)
    OBVIOUS
  <2>1. k \in DOMAIN (a \o b) /\ (a \o b)[k] = a[k]
    BY <1>2
  <2> QED
    BY <2>1 DEF ToSet
<1>5. \A k \in DOMAIN b : b[k] \in ToSet(a \o b)
  <2> SUFFICES ASSUME NEW k \in DOMAIN b
               PROVE  b[k] \in ToSet(a \o b)
    OBVIOUS
  <2>1. k + Len(a) \in DOMAIN (a \o b) /\ (a \o b)[k + Len(a)] = b[k]
    BY <1>2
  <2> QED
    BY <2>1 DEF ToSet
<1>6. ToSet(a \o b) = ToSet(a) \union ToSet(b)
  BY <1>3, <1>4, <1>5 DEF ToSet
<1> QED
  BY <1>2, <1>6 DEF A

(* The four regions of a try.                                              *)
LEMMA TryFacts ==
  ASSUME Types, NEW n \in Tries
  PROVE  LET t == fn.code[n] IN
         /\ n \in Nodes /\ t.op = "try" /\ t \in Code
         /\ Plain(t.body) /\ Plain(t.handler) /\ Plain(t.orelse) /\ Plain(t.final)
         /\ ToSet(Regions(t)) =
              ToSet(t.body) \union ToSet(t.handler) \union ToSet(t.orelse) \union ToSet(t.final)
         /\ ToSet(t.handler \o t.orelse \o t.final) =
              ToSet(t.handler) \union ToSet(t.orelse) \union ToSet(t.final)
         /\ ToSet(Regions(t)) \subseteq RegionInstrs
         /\ {t.body_end, t.handler_end} \subseteq Nodes \union {Fall, Leave}
         /\ t.handles \in BOOLEAN
<1> DEFINE t == fn.code[n]
<1>1. n \in Nodes /\ t.op = "try" /\ t \in Code /\ IsTry(fn, t)
  BY FunctionFacts DEF Tries
<1>2. Plain(t.body) /\ Plain(t.handler) /\ Plain(t.orelse) /\ Plain(t.final)
  BY <1>1, RegionPlain DEF IsTry
<1>3. /\ {t.body_end, t.handler_end} \subseteq Nodes \union {Fall, Leave}
      /\ t.handles \in BOOLEAN
  BY <1>1 DEF IsTry, Nodes
<1>4. ToSet(Regions(t)) \subseteq RegionInstrs
  BY DEF RegionInstrs
<1>5. /\ t.body \in Seq(ToSet(t.body)) /\ t.handler \in Seq(ToSet(t.handler))
      /\ t.orelse \in Seq(ToSet(t.orelse)) /\ t.final \in Seq(ToSet(t.final))
  BY <1>2 DEF Plain
<1> HIDE DEF t
<1> DEFINE bh == t.body \o t.handler
           bho == bh \o t.orelse
           ho == t.handler \o t.orelse
<1>6. bh \in Seq(ToSet(bh)) /\ ToSet(bh) = ToSet(t.body) \union ToSet(t.handler)
  BY <1>5, ConcatSet
<1>7. ho \in Seq(ToSet(ho)) /\ ToSet(ho) = ToSet(t.handler) \union ToSet(t.orelse)
  BY <1>5, ConcatSet
<1> HIDE DEF bh, ho
<1>8. bho \in Seq(ToSet(bho)) /\ ToSet(bho) = ToSet(bh) \union ToSet(t.orelse)
  BY <1>5, <1>6, ConcatSet
<1>9. ToSet(ho \o t.final) = ToSet(ho) \union ToSet(t.final)
  BY <1>5, <1>7, ConcatSet
<1> HIDE DEF bho
<1>10. ToSet(bho \o t.final) = ToSet(bho) \union ToSet(t.final)
  BY <1>5, <1>8, ConcatSet
<1>11. Regions(t) = bho \o t.final
  BY DEF Regions, bho, bh
<1>12. ToSet(Regions(t)) =
        ToSet(t.body) \union ToSet(t.handler) \union ToSet(t.orelse) \union ToSet(t.final)
  BY <1>6, <1>8, <1>10, <1>11
<1>13. ToSet(t.handler \o t.orelse \o t.final) =
        ToSet(t.handler) \union ToSet(t.orelse) \union ToSet(t.final)
  BY <1>7, <1>9 DEF ho
<1> QED
  BY <1>1, <1>2, <1>3, <1>4, <1>12, <1>13 DEF t

(* The instructions of regions are plain, and loans may begin there.       *)
LEMMA BegunFacts ==
  ASSUME Types
  PROVE  /\ \A i \in RegionInstrs : IsInstr(i) /\ i.op # "try"
         /\ \A l \in Begun : /\ l.op = "loan" /\ l.var \in Vars /\ l.thru \in Vars
                             /\ l.mutable \in BOOLEAN
         /\ OwnersSeen => Begun = Loans
<1>1. ASSUME NEW i \in RegionInstrs
      PROVE  IsInstr(i) /\ i.op # "try"
  <2>1. PICK n \in Tries : i \in ToSet(Regions(fn.code[n]))
    BY DEF RegionInstrs
  <2>2. \/ i \in ToSet(fn.code[n].body) \/ i \in ToSet(fn.code[n].handler)
        \/ i \in ToSet(fn.code[n].orelse) \/ i \in ToSet(fn.code[n].final)
    BY <2>1, TryFacts
  <2> QED
    BY <2>2, TryFacts DEF Plain
<1>2. \A i \in Code : IsInstr(i)
  BY FunctionFacts DEF Code
<1>3. \A l \in Begun : l.op = "loan" /\ IsInstr(l)
  BY <1>1, <1>2 DEF Begun
<1>4. \A l \in Begun : l.op = "loan" /\ l.var \in Vars /\ l.thru \in Vars /\ l.mutable \in BOOLEAN
  BY <1>3 DEF IsInstr
<1>5. ASSUME OwnersSeen
      PROVE  Begun = Loans
  <2>1. \A i \in RegionInstrs : i.op # "loan"
    BY <1>5 DEF OwnersSeen, RegionInstrs
  <2> QED
    BY <2>1 DEF Begun, Loans, LoansOf
<1> QED
  BY <1>1, <1>4, <1>5

LEMMA InstrFacts ==
  ASSUME NEW i, IsInstr(i), i.op # "try"
  PROVE  /\ i.var \in Vars /\ i.mutable \in BOOLEAN
         /\ i.op = "loan" => i.thru \in Vars
         /\ i.thru = NoRef \/ i.thru \in Vars
         /\ i.thru # NoRef => i.op = "loan" \/ i.op \in PlaceOps
         /\ var_uses(i) = plain_uses(i) /\ var_uses(i) \subseteq Vars
         /\ var_def(i) \subseteq Vars /\ loan_liveness_def(i) \subseteq Vars
         /\ var_moved(i) \subseteq Vars
<1>1. /\ i.var \in Vars /\ i.mutable \in BOOLEAN
      /\ i.op = "loan" => i.thru \in Vars
      /\ i.thru = NoRef \/ i.thru \in Vars
      /\ i.thru # NoRef => i.op = "loan" \/ i.op \in PlaceOps
  BY DEF IsInstr, PlaceOps
<1>2. var_uses(i) = plain_uses(i)
  BY DEF var_uses
<1>3. plain_uses(i) \subseteq Vars
  BY <1>1 DEF plain_uses, PlaceOps, Thru
<1> QED
  BY <1>1, <1>2, <1>3 DEF var_def, loan_liveness_def, var_moved

LEMMA NodeFacts ==
  ASSUME Types, NEW n \in Nodes
  PROVE  /\ var_uses(fn.code[n]) \subseteq Vars /\ var_def(fn.code[n]) \subseteq Vars
         /\ loan_liveness_def(fn.code[n]) \subseteq Vars
         /\ block_live_out(n) \subseteq Vars
<1>1. block_live_out(n) \subseteq Vars
  BY FunctionFacts DEF block_live_out, Types
<1>2. CASE fn.code[n].op # "try"
  BY <1>1, <1>2, FunctionFacts, InstrFacts
<1>3. CASE fn.code[n].op = "try"
  <2>1. /\ var_def(fn.code[n]) = {} /\ loan_liveness_def(fn.code[n]) = {}
        /\ var_uses(fn.code[n]) = region_uses(Regions(fn.code[n]))
    BY <1>3 DEF var_def, loan_liveness_def, var_uses
  <2>2. \A i \in ToSet(Regions(fn.code[n])) : plain_uses(i) \subseteq Vars
    <3>1. \A i \in ToSet(Regions(fn.code[n])) : IsInstr(i) /\ i.op # "try"
      BY <1>3, BegunFacts DEF RegionInstrs, Tries
    <3> QED
      BY <3>1, InstrFacts
  <2> QED
    BY <1>1, <2>1, <2>2 DEF region_uses
<1> QED
  BY <1>2, <1>3

(* What an instruction does wrong, and why.                                *)
LEMMA WrongFacts ==
  ASSUME NEW f, NEW i, NEW x \in Wrong(f, i)
  PROVE  \E what \in Faults :
           /\ x = <<what, i.var>>
           /\ what = "dropped" => \E v \in Reads(f, i) : f.slot[v] = "gone"
           /\ what = "lost" => i.op = "def" /\ f.slot[i.var] = "held"
           /\ what = "stale" => References(i) \cap f.stale # {}
<1> DEFINE Is(w) == CASE w = "dropped" -> \E v \in Reads(f, i) : f.slot[v] = "gone"
                      [] w = "lost" -> i.op = "def" /\ f.slot[i.var] = "held"
                      [] w = "stale" -> References(i) \cap f.stale # {}
<1>1. /\ Is("dropped") = \E v \in Reads(f, i) : f.slot[v] = "gone"
      /\ Is("lost") = (i.op = "def" /\ f.slot[i.var] = "held")
      /\ Is("stale") = (References(i) \cap f.stale # {})
  OBVIOUS
<1>2. Wrong(f, i) = {<<what, i.var>> : what \in {w \in Faults : Is(w)}}
  BY DEF Wrong, Faults
<1> HIDE DEF Is
<1>3. PICK what \in Faults : x = <<what, i.var>> /\ Is(what)
  BY <1>2
<1> QED
  BY <1>1, <1>3 DEF Faults

(* What the machine makes of an instruction that is no try.                *)
LEMMA ExecFacts ==
  ASSUME Types, NEW f \in Frame, OwnLoans(f), NEW i \in Code \union RegionInstrs,
         IsInstr(i), i.op # "try"
  PROVE  LET g == exec_instr(f, i) IN
         /\ g \in Frame /\ OwnLoans(g)
         /\ g.slot = exec_slot(f, i) /\ g.bound = exec_bound(f, i)
         /\ g.stale = (f.stale \union Clobbered(f, i)) \ Renewed(i)
         /\ g.bad = f.bad \union Wrong(f, i)
<1> DEFINE g == exec_instr(f, i)
<1>1. i.var \in Vars /\ (i.op = "loan" => i.thru \in Vars)
  BY InstrFacts
<1>2. g = [slot |-> exec_slot(f, i), bound |-> exec_bound(f, i),
           stale |-> (f.stale \union Clobbered(f, i)) \ Renewed(i),
           bad |-> f.bad \union Wrong(f, i)]
  BY DEF exec_instr
<1>3. /\ f.slot \in [Vars -> Slots] /\ f.bound \in [Vars -> SUBSET Begun]
      /\ f.stale \subseteq Vars /\ f.bad \subseteq Faults \X Vars
  BY DEF Frame
<1>4. exec_slot(f, i) \in [Vars -> Slots]
  BY <1>1, <1>3 DEF exec_slot, Slots
<1>5. i.op = "loan" => i \in Begun
  BY DEF Begun
<1>6. exec_bound(f, i) \in [Vars -> SUBSET Begun]
  BY <1>1, <1>3, <1>5 DEF exec_bound
<1>7. \A r \in Vars : \A l \in exec_bound(f, i)[r] : l.thru = r
  BY <1>1, <1>3 DEF exec_bound, OwnLoans
<1>8. Clobbered(f, i) \subseteq Vars
  BY DEF Clobbered
<1>9. Wrong(f, i) \subseteq Faults \X Vars
  <2>1. \A x \in Wrong(f, i) : \E what \in Faults : x = <<what, i.var>>
    BY WrongFacts
  <2> QED
    BY <1>1, <2>1
<1> HIDE DEF g
<1>10. g \in Frame
  BY <1>2, <1>3, <1>4, <1>6, <1>8, <1>9 DEF Frame
<1> QED
  BY <1>2, <1>7, <1>10 DEF OwnLoans, g

(* What destroying variables does, and what it leaves.                     *)
LEMMA DropFacts ==
  ASSUME NEW f \in Frame, OwnLoans(f), NEW S
  PROVE  LET g == DropVars(f, S) IN
         /\ g \in Frame /\ OwnLoans(g)
         /\ \A v \in Vars : g.slot[v] = IF v \in S /\ f.slot[v] = "held"
                                        THEN "gone" ELSE f.slot[v]
         /\ g.bound = f.bound /\ g.stale = f.stale /\ g.bad = f.bad
<1> DEFINE g == DropVars(f, S)
           slot == [v \in Vars |-> IF v \in S /\ f.slot[v] = "held" THEN "gone" ELSE f.slot[v]]
<1>1. slot \in [Vars -> Slots]
  BY DEF Frame, Slots
<1>2. g = [f EXCEPT !.slot = slot]
  BY DEF DropVars
<1> HIDE DEF slot
<1>3. g \in Frame /\ g.slot = slot /\ g.bound = f.bound /\ g.stale = f.stale /\ g.bad = f.bad
  BY <1>1, <1>2 DEF Frame
<1> HIDE DEF g
<1> QED
  BY <1>3 DEF g, slot, OwnLoans

-----------------------------------------------------------------------------
(* `analyze_loans` has accepted the function with the liveness L.          *)
Out(L, n) == UNION {L[s] : s \in fn.succ[n]}
Accepted(L) ==
  /\ L \in [Nodes -> SUBSET Vars]
  /\ \A n \in Nodes : /\ L[n] = transfer_liveness(fn.code[n], Out(L, n))
                      /\ ~conflicts(fn.code[n], L[n], Loans)

(* Loans that may hold at the same time.                                   *)
Apart(A, B) ==
  \A l \in A, m \in B :
    l.mutable \/ m.mutable => ~mir_places_overlap(l.var, l.path, m.var, m.path)

(* The machine at a node: no live reference is stale, those of two live    *)
(* references are apart, and so are the others that a reference has when   *)
(* one more begins.                                                        *)
Covered(L, f, n) ==
  /\ f.stale \cap L[n] = {}
  /\ \A r, q \in L[n] : r # q => Apart(f.bound[r], f.bound[q])
  /\ fn.code[n].op = "loan" =>
       \A q \in L[n] \ {fn.code[n].thru} :
         Apart(f.bound[fn.code[n].thru] \ {fn.code[n]}, f.bound[q])
FreshCovered(f, n, r) ==
  \E fresh \in SUBSET Nodes :
    FreshAt(fn, r, fresh) /\ OneAfterOther(fn, r, fresh) /\ (n \in fresh => f.bound[r] = {})
GroupsCovered(f, n) == \A r \in Vars : Single(fn, r) \/ FreshCovered(f, n, r)

LEMMA ApartSym ==
  ASSUME NEW A, NEW B, \A l \in A \union B : l.mutable \in BOOLEAN, Apart(A, B)
  PROVE  Apart(B, A)
<1> SUFFICES ASSUME NEW l \in B, NEW m \in A, l.mutable \/ m.mutable,
                    mir_places_overlap(l.var, l.path, m.var, m.path)
             PROVE  FALSE
  BY DEF Apart
<1>1. mir_places_overlap(m.var, m.path, l.var, l.path)
  BY DEF mir_places_overlap
<1> QED
  BY <1>1 DEF Apart

(* What is live after an instruction is live before it, or its own.        *)
LEMMA LiveBefore ==
  ASSUME Types, NEW L, Accepted(L), NEW n \in Nodes
  PROVE  /\ L[n] \subseteq Vars /\ var_uses(fn.code[n]) \subseteq L[n]
         /\ \A s \in fn.succ[n] : L[s] \ loan_liveness_def(fn.code[n]) \subseteq L[n]
<1>1. L[n] = (Out(L, n) \ loan_liveness_def(fn.code[n])) \union var_uses(fn.code[n])
  BY DEF Accepted, transfer_liveness
<1>2. L[n] \subseteq Vars
  BY DEF Accepted
<1> QED
  BY <1>1, <1>2 DEF Out

(* An access leaves no live reference stale but its own.                   *)
LEMMA NoneClobbered ==
  ASSUME Types, NEW L, Accepted(L), NEW n \in Nodes, fn.code[n].op # "try",
         Begun = Loans, NEW f \in Frame, OwnLoans(f), Covered(L, f, n), NEW r \in L[n]
  PROVE  r \notin Clobbered(f, fn.code[n])
<1> DEFINE i == fn.code[n]
<1>1. IsInstr(i) /\ i.var \in Vars /\ i.op \in Ops /\ r \in Vars /\ r # NoRef
  BY FunctionFacts, LiveBefore, VarsAssumption DEF IsInstr
<1>2. /\ \A q \in Vars : f.bound[q] \subseteq Loans
      /\ \A q \in Vars : \A l \in f.bound[q] : l.thru = q
      /\ \A l \in Loans : l.mutable \in BOOLEAN
  BY LoanFacts DEF Frame, OwnLoans
<1>3. ~conflicts(i, L[n], Loans)
  BY DEF Accepted
<1>4. var_uses(i) \subseteq L[n] /\ (i.thru # NoRef => i.op = "loan" \/ i.op \in PlaceOps)
      /\ var_uses(i) = plain_uses(i)
  BY <1>1, LiveBefore, InstrFacts
<1> HIDE DEF i
<1> SUFFICES ASSUME r \in Clobbered(f, i)
             PROVE  FALSE
  BY DEF i
<1>5. i.op \notin {"nop", "keep", "loan"} /\ r \notin References(i)
  BY DEF Clobbered
<1>6. CASE i.op = "deref"
  <2>1. PICK l \in f.bound[r], m \in f.bound[i.var] :
          mir_places_overlap(m.var, m.path, l.var, l.path) /\ l.mutable
    BY <1>6 DEF Clobbered
  <2>2. i.var \in L[n] /\ i.var # r
    BY <1>4, <1>5, <1>6 DEF plain_uses, References
  <2>3. Apart(f.bound[i.var], f.bound[r])
    BY <2>2 DEF Covered
  <2> QED
    BY <2>1, <2>3 DEF Apart
<1>7. CASE i.op # "deref"
  <2>1. PICK l \in f.bound[r] : /\ mir_places_overlap(i.var, i.path, l.var, l.path)
                                /\ i.op \notin {"use", "load", "deref"} \/ l.mutable
    BY <1>7 DEF Clobbered
  <2>2. i.thru # r
    BY <1>1, <1>4, <1>5 DEF References, Thru, PlaceOps
  <2>3. l \in Loans /\ l.thru = r /\ l.mutable \in BOOLEAN
    BY <1>1, <1>2
  <2>4. i.op \in {"use", "load"} \/ i.op \in {"def", "move", "store", "take", "method",
                                              "writeback", "consume"}
    <3>1. i.op # "try"
      BY DEF i
    <3> QED
      BY <1>1, <1>5, <1>7, <3>1 DEF Ops
  <2>5. \E access \in loan_accesses(i) : access = "Write" \/ l.mutable
    <3>1. CASE i.op \in {"use", "load"}
      BY <2>1, <3>1 DEF loan_accesses
    <3>2. CASE i.op \notin {"use", "load"}
      BY <2>4, <3>2 DEF loan_accesses
    <3> QED
      BY <3>1, <3>2
  <2>6. AccessConflicts(i, r, Loans)
    BY <2>1, <2>2, <2>3, <2>5 DEF AccessConflicts
  <2> QED
    BY <1>3, <1>5, <2>6 DEF conflicts
<1> QED
  BY <1>6, <1>7

(* No instruction goes through a stale reference.                          *)
LEMMA NoneStale ==
  ASSUME Types, NEW L, Accepted(L), NEW n \in Nodes, fn.code[n].op # "try",
         NEW f \in Frame, Covered(L, f, n)
  PROVE  References(fn.code[n]) \cap f.stale = {}
<1> DEFINE i == fn.code[n]
<1>1. var_uses(i) \subseteq L[n] /\ var_uses(i) = plain_uses(i)
  BY FunctionFacts, LiveBefore, InstrFacts
<1>2. References(i) \subseteq plain_uses(i)
  BY DEF References, plain_uses, PlaceOps
<1> QED
  BY <1>1, <1>2 DEF Covered

(* The loan that begins is apart from those of live references.            *)
LEMMA BeginsApart ==
  ASSUME Types, NEW L, Accepted(L), NEW n \in Nodes, fn.code[n].op = "loan",
         Begun = Loans, NEW f \in Frame, OwnLoans(f), NEW q \in L[n], q # fn.code[n].thru
  PROVE  Apart({fn.code[n]}, f.bound[q])
<1> DEFINE i == fn.code[n]
<1>1. q \in Vars
  BY LiveBefore
<1>2. f.bound[q] \subseteq Loans /\ \A l \in f.bound[q] : l.thru = q
  BY <1>1 DEF Frame, OwnLoans
<1>3. ~BeginConflicts(i, q, Loans)
  BY DEF Accepted, conflicts
<1> HIDE DEF i
<1> SUFFICES ASSUME NEW m \in f.bound[q], i.mutable \/ m.mutable,
                    mir_places_overlap(i.var, i.path, m.var, m.path)
             PROVE  FALSE
  BY DEF Apart, i
<1> QED
  BY <1>2, <1>3 DEF BeginConflicts, i

(* The loans of a reference after an instruction.                          *)
BoundAfter(f, g, i) ==
  /\ \A r \in Vars : i.op # "loan" => g.bound[r] = f.bound[r] \/ g.bound[r] = {}
  /\ \A r \in Vars : r \in var_def(i) => g.bound[r] = {}
  /\ i.op = "loan" =>
       \A r \in Vars : g.bound[r] = IF r = i.thru THEN f.bound[r] \union {i} ELSE f.bound[r]

LEMMA BoundAfterExec ==
  ASSUME Types, NEW n \in Nodes, fn.code[n].op # "try", NEW f \in Frame, OwnLoans(f)
  PROVE  BoundAfter(f, exec_instr(f, fn.code[n]), fn.code[n])
<1> DEFINE i == fn.code[n]
           g == exec_instr(f, i)
<1>1. i \in Code /\ IsInstr(i) /\ i.var \in Vars /\ (i.op = "loan" => i.thru \in Vars)
  BY FunctionFacts, InstrFacts
<1>2. g.bound = exec_bound(f, i) /\ f.bound \in [Vars -> SUBSET Begun]
  BY <1>1, ExecFacts DEF Frame
<1> HIDE DEF i, g
<1>3. i.op = "loan" =>
        \A r \in Vars : g.bound[r] = IF r = i.thru THEN f.bound[r] \union {i} ELSE f.bound[r]
  BY <1>1, <1>2 DEF exec_bound
<1>4. \A r \in Vars : r \in var_def(i) => g.bound[r] = {}
  BY <1>1, <1>2 DEF exec_bound, var_def
<1>5. \A r \in Vars : i.op # "loan" => g.bound[r] = f.bound[r] \/ g.bound[r] = {}
  BY <1>1, <1>2 DEF exec_bound
<1> QED
  BY <1>3, <1>4, <1>5 DEF BoundAfter, i, g

(* A reference is apart from the live ones when one of its loans begins.   *)
LEMMA BegunApart ==
  ASSUME Types, NEW L, Accepted(L), NEW n \in Nodes, fn.code[n].op = "loan",
         Begun = Loans, NEW f \in Frame, OwnLoans(f), Covered(L, f, n),
         NEW g \in Frame, BoundAfter(f, g, fn.code[n])
  PROVE  \A q \in L[n] : q # fn.code[n].thru => Apart(g.bound[fn.code[n].thru], g.bound[q])
<1> DEFINE i == fn.code[n]
<1>1. L[n] \subseteq Vars /\ i.thru \in Vars
  BY LiveBefore, FunctionFacts, InstrFacts
<1>2. \A r \in Vars : g.bound[r] = IF r = i.thru THEN f.bound[r] \union {i} ELSE f.bound[r]
  BY DEF BoundAfter
<1> SUFFICES ASSUME NEW q \in L[n], q # i.thru
             PROVE  Apart(f.bound[i.thru] \union {i}, f.bound[q])
  BY <1>1, <1>2
<1>3. Apart(f.bound[i.thru] \ {i}, f.bound[q])
  BY DEF Covered
<1>4. Apart({i}, f.bound[q])
  BY BeginsApart
<1> QED
  BY <1>3, <1>4 DEF Apart

(* Live references keep apart when an instruction is executed.             *)
LEMMA ApartAfter ==
  ASSUME Types, NEW L, Accepted(L), NEW n \in Nodes, NEW s \in fn.succ[n],
         Begun = Loans, NEW f \in Frame, OwnLoans(f), Covered(L, f, n),
         NEW g \in Frame, BoundAfter(f, g, fn.code[n])
  PROVE  \A r, q \in L[s] : r # q => Apart(g.bound[r], g.bound[q])
<1> DEFINE i == fn.code[n]
<1>1. /\ s \in Nodes /\ L[s] \subseteq Vars
      /\ L[s] \ loan_liveness_def(i) \subseteq L[n] /\ L[n] \subseteq Vars
  BY FunctionFacts, LiveBefore
<1>2. \A r \in Vars : \A l \in f.bound[r] \union g.bound[r] : l.mutable \in BOOLEAN
  BY BegunFacts DEF Frame
<1>3. CASE i.op # "loan"
  <2> SUFFICES ASSUME NEW r \in L[s], NEW q \in L[s], r # q
               PROVE  Apart(g.bound[r], g.bound[q])
    OBVIOUS
  <2>1. /\ g.bound[r] = f.bound[r] \/ g.bound[r] = {}
        /\ g.bound[q] = f.bound[q] \/ g.bound[q] = {}
        /\ r \in var_def(i) => g.bound[r] = {}
        /\ q \in var_def(i) => g.bound[q] = {}
    BY <1>1, <1>3 DEF BoundAfter
  <2>2. loan_liveness_def(i) = var_def(i)
    BY <1>3 DEF loan_liveness_def
  <2>3. CASE g.bound[r] = {} \/ g.bound[q] = {}
    BY <2>3 DEF Apart
  <2>4. CASE g.bound[r] # {} /\ g.bound[q] # {}
    <3>1. r \in L[n] /\ q \in L[n] /\ g.bound[r] = f.bound[r] /\ g.bound[q] = f.bound[q]
      BY <1>1, <2>1, <2>2, <2>4
    <3> QED
      BY <3>1 DEF Covered
  <2> QED
    BY <2>3, <2>4
<1>4. CASE i.op = "loan"
  <2>1. loan_liveness_def(i) = {i.thru} /\ i.thru \in Vars
    BY <1>4, FunctionFacts, InstrFacts DEF loan_liveness_def
  <2>2. \A r \in Vars : g.bound[r] = IF r = i.thru THEN f.bound[r] \union {i} ELSE f.bound[r]
    BY <1>4 DEF BoundAfter
  <2>3. \A q \in L[n] : q # i.thru => Apart(g.bound[i.thru], g.bound[q])
    BY <1>4, BegunApart
  <2>4. \A q \in L[n] : q # i.thru => Apart(g.bound[q], g.bound[i.thru])
    BY <1>1, <1>2, <2>1, <2>3, ApartSym
  <2>5. \A r, q \in L[n] : r # q /\ r # i.thru /\ q # i.thru => Apart(g.bound[r], g.bound[q])
    BY <1>1, <2>2 DEF Covered
  <2> QED
    BY <1>1, <2>1, <2>3, <2>4, <2>5
<1> QED
  BY <1>3, <1>4

(* At the fresh nodes a reference has no loans.                            *)
LEMMA GroupsAfter ==
  ASSUME Types, NEW n \in Nodes, NEW s \in fn.succ[n], NEW f \in Frame, GroupsCovered(f, n),
         NEW g \in Frame, BoundAfter(f, g, fn.code[n])
  PROVE  GroupsCovered(g, s)
<1> SUFFICES ASSUME NEW r \in Vars, ~Single(fn, r)
             PROVE  FreshCovered(g, s, r)
  BY DEF GroupsCovered
<1>1. PICK fresh \in SUBSET Nodes :
        FreshAt(fn, r, fresh) /\ OneAfterOther(fn, r, fresh) /\ (n \in fresh => f.bound[r] = {})
  BY DEF GroupsCovered, FreshCovered
<1>2. s \in fresh => g.bound[r] = {}
  <2> SUFFICES ASSUME s \in fresh PROVE g.bound[r] = {}
    OBVIOUS
  <2>1. n \in Before(fn, s)
    BY DEF Before, Nodes
  <2>2. r \in var_def(fn.code[n]) \/ (n \in fresh /\ fn.code[n].op # "loan")
    BY <1>1, <2>1 DEF FreshAt
  <2> QED
    BY <1>1, <2>2 DEF BoundAfter
<1> QED
  BY <1>1, <1>2 DEF FreshCovered

(* When one more loan of a reference is to begin, the others it has are    *)
(* apart from those of live references.                                    *)
LEMMA NextLoanApart ==
  ASSUME Types, NEW L, Accepted(L), NEW n \in Nodes, NEW s \in fn.succ[n],
         Begun = Loans, NEW f \in Frame, OwnLoans(f), Covered(L, f, n),
         NEW g \in Frame, OwnLoans(g), BoundAfter(f, g, fn.code[n]), GroupsCovered(g, s),
         fn.code[s].op = "loan", NEW q \in L[s], q # fn.code[s].thru
  PROVE  Apart(g.bound[fn.code[s].thru] \ {fn.code[s]}, g.bound[q])
<1> DEFINE r == fn.code[s].thru
<1>1. s \in Nodes /\ r \in Vars /\ s \in LoanNodes(fn, r) /\ n \in Before(fn, s)
  <2>1. s \in Nodes /\ r \in Vars
    BY FunctionFacts, InstrFacts
  <2> QED
    BY <2>1 DEF LoanNodes, Before, Nodes
<1>2. CASE Single(fn, r)
  <2>1. \A l \in g.bound[r] : l \in Loans /\ l.thru = r
    BY <1>1 DEF Frame, OwnLoans
  <2>2. \A l \in Loans : l.thru = r => \E m \in LoanNodes(fn, r) : fn.code[m] = l
    BY DEF Loans, LoansOf, Code, LoanNodes, Nodes
  <2>3. \A l \in g.bound[r] : l = fn.code[s]
    BY <1>1, <1>2, <2>1, <2>2 DEF Single
  <2> QED
    BY <2>3 DEF Apart
<1>3. CASE ~Single(fn, r)
  <2>1. PICK fresh \in SUBSET Nodes :
          OneAfterOther(fn, r, fresh) /\ (s \in fresh => g.bound[r] = {})
    BY <1>1, <1>3 DEF GroupsCovered, FreshCovered
  <2>2. CASE s \in fresh
    BY <2>1, <2>2 DEF Apart
  <2>3. CASE s \notin fresh
    <3>1. n \in LoanNodes(fn, r)
      BY <1>1, <2>1, <2>3 DEF OneAfterOther
    <3>2. fn.code[n].op = "loan" /\ fn.code[n].thru = r
      BY <3>1 DEF LoanNodes
    <3>3. q \in L[n]
      BY <3>2, LiveBefore DEF loan_liveness_def
    <3>4. Apart(g.bound[r], g.bound[q])
      BY <3>2, <3>3, BegunApart
    <3> QED
      BY <3>4 DEF Apart
  <2> QED
    BY <2>2, <2>3
<1> QED
  BY <1>2, <1>3

(* An instruction leaves the machine covered, and has gone through no      *)
(* stale reference.                                                        *)
LEMMA CoveredStep ==
  ASSUME Types, NEW L, Accepted(L), NEW n \in Nodes, NEW s \in fn.succ[n],
         fn.code[n].op # "try", Begun = Loans,
         NEW f \in Frame, OwnLoans(f), Covered(L, f, n), GroupsCovered(f, n)
  PROVE  /\ Covered(L, exec_instr(f, fn.code[n]), s)
         /\ GroupsCovered(exec_instr(f, fn.code[n]), s)
<1> DEFINE i == fn.code[n]
           g == exec_instr(f, i)
<1>1. /\ g \in Frame /\ OwnLoans(g) /\ g.stale = (f.stale \union Clobbered(f, i)) \ Renewed(i)
      /\ BoundAfter(f, g, i)
  BY FunctionFacts, ExecFacts, BoundAfterExec
<1>2. loan_liveness_def(i) = Renewed(i) /\ L[s] \ loan_liveness_def(i) \subseteq L[n]
  BY LiveBefore DEF loan_liveness_def, Renewed, var_def
<1>3. \A r \in L[n] : r \notin Clobbered(f, i) /\ r \notin f.stale
  BY NoneClobbered DEF Covered
<1> HIDE DEF g, i
<1>4. g.stale \cap L[s] = {}
  BY <1>1, <1>2, <1>3
<1>5. GroupsCovered(g, s)
  BY <1>1, GroupsAfter DEF i
<1>6. \A r, q \in L[s] : r # q => Apart(g.bound[r], g.bound[q])
  BY <1>1, ApartAfter DEF i
<1>7. ASSUME fn.code[s].op = "loan", NEW q \in L[s] \ {fn.code[s].thru}
      PROVE  Apart(g.bound[fn.code[s].thru] \ {fn.code[s]}, g.bound[q])
  BY <1>1, <1>5, <1>7, NextLoanApart DEF i
<1> QED
  BY <1>4, <1>5, <1>6, <1>7 DEF Covered, g, i

-----------------------------------------------------------------------------
(* What the machine destroys between two nodes is not live at the second,  *)
(* and what is live at neither but was live after the first is destroyed.  *)
GotoDrops(n, s) ==
  last_use_drops(n) \union end_drops(n) \union split_drops(n, s) \union entry_drops(s)

LEMMA SingletonOnly ==
  ASSUME NEW S, IsFiniteSet(S), Cardinality(S) = 1, NEW x \in S
  PROVE  S = {x}
BY FS_Singleton

LEMMA DropsNotLive ==
  ASSUME Types, NEW n \in Nodes, NEW s \in fn.succ[n]
  PROVE  GotoDrops(n, s) \cap live_in[s] = {}
<1>1. /\ s \in Nodes /\ fn.succ[n] \subseteq Nodes /\ fn.size \in Nat
      /\ live_in \in [Nodes -> SUBSET Vars]
  BY FunctionFacts DEF Types
<1>2. live_in[s] \subseteq block_live_out(n) /\ block_live_out(n) \subseteq Vars
  BY <1>1 DEF block_live_out
<1>3. last_use_drops(n) \cap live_in[s] = {}
  BY <1>2, ExtendCloses DEF last_use_drops, live_after
<1>4. end_drops(n) \cap live_in[s] = {}
  <2>1. IsFiniteSet(fn.succ[n])
    <3>1. fn.size - 1 \in Int /\ fn.succ[n] \in SUBSET (0 .. fn.size - 1)
      BY <1>1 DEF Nodes
    <3>2. IsFiniteSet(0 .. fn.size - 1)
      BY <3>1, FS_Interval
    <3> QED
      BY <3>1, <3>2, FS_Subset
  <2>2. Cardinality(fn.succ[n]) = 1 => fn.succ[n] = {s}
    BY <2>1, SingletonOnly
  <2> QED
    BY <2>2 DEF end_drops, edge_dying, Droppable
<1>5. split_drops(n, s) \cap live_in[s] = {} /\ entry_drops(s) \cap live_in[s] = {}
  BY DEF split_drops, entry_drops, edge_dying, Droppable
<1> QED
  BY <1>3, <1>4, <1>5 DEF GotoDrops

LEMMA DyingIsDropped ==
  ASSUME Types, NEW n \in Nodes, NEW s \in fn.succ[n],
         NEW v \in block_live_out(n), v \notin live_in[s], is_droppable_root(v)
  PROVE  v \in GotoDrops(n, s)
<1>1. s \in Nodes
  BY FunctionFacts
<1>2. v \in edge_dying(n, s) /\ n \in predecessors(s)
  BY <1>1 DEF edge_dying, Droppable, predecessors
<1>3. CASE Cardinality(fn.succ[n]) = 1
  BY <1>2, <1>3 DEF GotoDrops, end_drops
<1>4. CASE Cardinality(fn.succ[n]) # 1 /\ Cardinality(predecessors(s)) # 1
  BY <1>2, <1>4 DEF GotoDrops, split_drops
<1>5. CASE Cardinality(fn.succ[n]) # 1 /\ Cardinality(predecessors(s)) = 1
  BY <1>2, <1>5 DEF GotoDrops, entry_drops
<1> QED
  BY <1>3, <1>4, <1>5

(* The variables live before an instruction, when the sweeps have ended.   *)
LEMMA DropLive ==
  ASSUME Types, NEW n \in Nodes,
         live_in[n] = transfer_drop_liveness(fn.code[n], block_live_out(n), Code)
  PROVE  /\ var_uses(fn.code[n]) \subseteq live_in[n]
         /\ block_live_out(n) \ var_def(fn.code[n]) \subseteq live_in[n]
         /\ RootsIn(live_in[n], Code)
         /\ live_in[n] \ Outliving
              \subseteq (block_live_out(n) \ var_def(fn.code[n])) \union var_uses(fn.code[n])
<1> DEFINE live == (block_live_out(n) \ var_def(fn.code[n])) \union var_uses(fn.code[n])
<1>1. live \subseteq Vars
  BY NodeFacts
<1>2. live_in[n] = extend_with_loan_roots(live, Code)
  BY DEF transfer_drop_liveness
<1>3. Outliving \in SUBSET Vars /\ \A r : roots_of(Code, r) \subseteq Outliving
  BY LoanFacts
<1>4. \A r : roots_of(Code, r) \subseteq Vars
  BY <1>3
<1>5. live \subseteq live_in[n]
  BY <1>1, <1>2, ExtendCloses
<1>6. RootsIn(live_in[n], Code)
  BY <1>2, <1>4, ExtendKeepsOwners
<1>7. live_in[n] \subseteq live \union Outliving
  BY <1>1, <1>2, <1>3, ExtendAddsOwners
<1> QED
  BY <1>5, <1>6, <1>7

(* What an instruction reads is live before it.                            *)
LEMMA ReadsLive ==
  ASSUME Types, NEW n \in Nodes, fn.code[n].op # "try", Begun = Loans,
         live_in[n] = transfer_drop_liveness(fn.code[n], block_live_out(n), Code)
  PROVE  Reads(frame, fn.code[n]) \subseteq live_in[n]
<1> DEFINE i == fn.code[n]
<1>1. IsInstr(i) /\ i.var \in Vars /\ var_uses(i) = plain_uses(i)
  BY FunctionFacts, InstrFacts
<1>2. plain_uses(i) \subseteq live_in[n] /\ RootsIn(live_in[n], Code)
  BY <1>1, DropLive
<1> HIDE DEF i
<1>3. CASE i.op = "deref"
  <2>1. i.var \in live_in[n]
    BY <1>2, <1>3 DEF plain_uses
  <2>2. \A l \in frame.bound[i.var] : l \in Loans /\ l.thru = i.var
    BY <1>1 DEF Types, Frame, OwnLoans
  <2>3. \A l \in frame.bound[i.var] : l.var \in roots_of(Code, i.var)
    BY <2>2, LoanFacts
  <2>4. \A l \in frame.bound[i.var] : l.var \in live_in[n]
    BY <1>2, <2>1, <2>3 DEF RootsIn
  <2> QED
    BY <1>3, <2>4 DEF Reads, i
<1>4. CASE i.op # "deref"
  <2>1. Reads(frame, i) \subseteq plain_uses(i)
    BY <1>4 DEF Reads, plain_uses, PlaceOps
  <2> QED
    BY <1>2, <2>1 DEF i
<1> QED
  BY <1>3, <1>4

-----------------------------------------------------------------------------
(* Liveness is need: what is live and no owner behind a reference is used  *)
(* on some path.                                                           *)
LEMMA NeededHere ==
  ASSUME NEW n \in Nodes, NEW v, v \in var_uses(fn.code[n])
  PROVE  Needed(v, n)
BY DEF Needed, PassBy

LEMMA NeededBefore ==
  ASSUME NEW n \in Nodes, NEW s \in fn.succ[n], NEW v,
         v \notin var_def(fn.code[n]), Needed(v, s)
  PROVE  Needed(v, n)
<1>1. PICK m \in PassBy(s, v) : v \in var_uses(fn.code[m])
  BY DEF Needed
<1>2. ASSUME NEW S \in SUBSET Nodes, n \in S, FollowedIn(S, v)
      PROVE  m \in S
  <2>1. s \in S
    BY <1>2 DEF FollowedIn, Follows
  <2> QED
    BY <1>1, <1>2, <2>1 DEF PassBy
<1>3. m \in PassBy(n, v)
  BY <1>1, <1>2 DEF PassBy
<1> QED
  BY <1>1, <1>3 DEF Needed

LiveNeeded(live, n) == \A v \in live \ Outliving : Needed(v, n)

LEMMA NeededTransfer ==
  ASSUME Types, NEW n \in Nodes, \A s \in Nodes : LiveNeeded(live_in[s], s)
  PROVE  LiveNeeded(transfer_drop_liveness(fn.code[n], block_live_out(n), Code), n)
<1> DEFINE live == (block_live_out(n) \ var_def(fn.code[n])) \union var_uses(fn.code[n])
<1>1. live \subseteq Vars
  BY NodeFacts
<1>2. Outliving \in SUBSET Vars /\ \A r : roots_of(Code, r) \subseteq Outliving
  BY LoanFacts
<1>3. extend_with_loan_roots(live, Code) \subseteq live \union Outliving
  BY <1>1, <1>2, ExtendAddsOwners
<1>4. ASSUME NEW v \in block_live_out(n), v \notin var_def(fn.code[n]), v \notin Outliving
      PROVE  Needed(v, n)
  <2>1. PICK s \in fn.succ[n] : v \in live_in[s]
    BY DEF block_live_out
  <2>2. s \in Nodes
    BY FunctionFacts
  <2>3. Needed(v, s)
    BY <1>4, <2>1, <2>2 DEF LiveNeeded
  <2> QED
    BY <1>4, <2>3, NeededBefore
<1>5. \A v \in live \ Outliving : Needed(v, n)
  BY <1>4, NeededHere
<1> QED
  BY <1>3, <1>5 DEF LiveNeeded, transfer_drop_liveness

-----------------------------------------------------------------------------
(* The frames of a region's run.                                           *)
(* The run of a region passes through a frame for each of its instructions. *)
Runs(g, f, region, N) ==
  g = [k \in 0 .. N |-> IF k = 0 THEN f ELSE exec_instr(g[k - 1], region[k])]

LEMMA RunExists ==
  ASSUME NEW f, NEW region, NEW N \in Nat
  PROVE  \E g : Runs(g, f, region, N)
<1> DEFINE S == {n \in 0 .. N : \E g : Runs(g, f, region, n)}
<1>1. 0 \in S
  <2>1. Runs([k \in 0 .. 0 |-> f], f, region, 0)
    BY DEF Runs
  <2> QED
    BY <2>1
<1>2. ASSUME NEW n \in 1 .. N, n - 1 \in S
      PROVE  n \in S
  <2>1. PICK g : Runs(g, f, region, n - 1)
    BY <1>2
  <2> DEFINE h == [k \in 0 .. n |-> IF k = n THEN exec_instr(g[n - 1], region[n]) ELSE g[k]]
  <2>2. \A k \in 0 .. n - 1 : g[k] = IF k = 0 THEN f ELSE exec_instr(g[k - 1], region[k])
    BY <2>1 DEF Runs
  <2>3. \A k \in 0 .. n : h[k] = IF k = n THEN exec_instr(g[n - 1], region[n]) ELSE g[k]
    OBVIOUS
  <2> HIDE DEF h
  <2>4. ASSUME NEW k \in 0 .. n
        PROVE  h[k] = IF k = 0 THEN f ELSE exec_instr(h[k - 1], region[k])
    <3>1. CASE k = 0
      BY <2>2, <2>3, <3>1
    <3>2. CASE k # 0
      <4>1. k - 1 \in 0 .. n /\ k - 1 # n /\ k - 1 \in 0 .. n - 1 /\ (k # n => k \in 0 .. n - 1)
        BY <3>2
      <4>2. h[k - 1] = g[k - 1]
        BY <2>3, <4>1
      <4> QED
        BY <2>2, <2>3, <3>2, <4>1, <4>2
    <3> QED
      BY <3>1, <3>2
  <2>5. Runs(h, f, region, n)
    <3>1. h = [k \in 0 .. n |-> h[k]]
      BY DEF h
    <3> QED
      BY <2>4, <3>1 DEF Runs
  <2> QED
    BY <2>5
<1>3. \A n \in 0 .. N : n \in S
  <2> HIDE DEF S
  <2> QED
    BY <1>1, <1>2, RangeInduction
<1> QED
  BY <1>3

LEMMA RegionRun ==
  ASSUME NEW f, NEW region, Len(region) \in Nat
  PROVE  \E g : /\ g[0] = f /\ g[Len(region)] = run_region(f, region)
                /\ \A k \in 1 .. Len(region) : g[k] = exec_instr(g[k - 1], region[k])
<1> DEFINE N == Len(region)
           g == CHOOSE h : Runs(h, f, region, N)
<1>1. \E h : Runs(h, f, region, N)
  BY RunExists
<1>2. Runs(g, f, region, N)
  BY <1>1
<1>3. run_region(f, region) = g[N]
  BY DEF run_region, Runs
<1> HIDE DEF g
<1>4. \A k \in 0 .. N : g[k] = IF k = 0 THEN f ELSE exec_instr(g[k - 1], region[k])
  BY <1>2 DEF Runs
<1>5. \A k \in 1 .. N : g[k] = exec_instr(g[k - 1], region[k])
  BY <1>4
<1> QED
  BY <1>3, <1>4, <1>5

Traces(g, f, region) ==
  /\ g[0] = f /\ g[Len(region)] = run_region(f, region)
  /\ \A k \in 1 .. Len(region) : g[k] = exec_instr(g[k - 1], region[k])

LEMMA TraceTyped ==
  ASSUME Types, NEW f \in Frame, OwnLoans(f),
         NEW region, Plain(region), ToSet(region) \subseteq RegionInstrs,
         NEW g, Traces(g, f, region)
  PROVE  /\ \A k \in 0 .. Len(region) : g[k] \in Frame /\ OwnLoans(g[k])
         /\ \A k \in 1 .. Len(region) :
              /\ g[k - 1] \in Frame /\ OwnLoans(g[k - 1])
              /\ region[k] \in RegionInstrs /\ IsInstr(region[k]) /\ region[k].op # "try"
              /\ g[k].slot = exec_slot(g[k - 1], region[k])
              /\ g[k].bad = g[k - 1].bad \union Wrong(g[k - 1], region[k])
<1> DEFINE N == Len(region)
           S == {k \in 0 .. N : g[k] \in Frame /\ OwnLoans(g[k])}
<1>1. N \in Nat /\ 0 \in S
  BY DEF Plain, Traces
<1>2. \A k \in 1 .. N : region[k] \in RegionInstrs /\ IsInstr(region[k]) /\ region[k].op # "try"
  BY DEF Plain
<1>3. \A k \in 1 .. N : k - 1 \in 0 .. N /\ k \in 0 .. N
  BY <1>1
<1>4. ASSUME NEW k \in 1 .. N, k - 1 \in S
      PROVE  k \in S
  <2>1. g[k] = exec_instr(g[k - 1], region[k]) /\ g[k - 1] \in Frame /\ OwnLoans(g[k - 1])
    BY <1>4 DEF Traces
  <2>2. g[k] \in Frame /\ OwnLoans(g[k])
    BY <1>2, <2>1, ExecFacts
  <2> QED
    BY <1>3, <2>2
<1>5. \A k \in 0 .. N : k \in S
  <2> HIDE DEF S, N
  <2> QED
    BY <1>1, <1>4, RangeInduction
<1>6. \A k \in 0 .. N : g[k] \in Frame /\ OwnLoans(g[k])
  BY <1>5
<1>7. ASSUME NEW k \in 1 .. N
      PROVE  /\ g[k].slot = exec_slot(g[k - 1], region[k])
             /\ g[k].bad = g[k - 1].bad \union Wrong(g[k - 1], region[k])
  <2>1. g[k] = exec_instr(g[k - 1], region[k]) /\ g[k - 1] \in Frame /\ OwnLoans(g[k - 1])
    BY <1>3, <1>6 DEF Traces
  <2> QED
    BY <1>2, <2>1, ExecFacts
<1> QED
  BY <1>2, <1>3, <1>6, <1>7

(* What an instruction does to a slot.                                     *)
Fills(i) == IF i.op \in {"def", "writeback"} THEN {i.var} ELSE {}
LEMMA SlotAfter ==
  ASSUME NEW f, f.slot \in [Vars -> Slots], NEW i, NEW v \in Vars
  PROVE  /\ v \in Fills(i) => exec_slot(f, i)[v] = "held"
         /\ v \in var_moved(i) => exec_slot(f, i)[v] = "moved"
         /\ v \notin Fills(i) => exec_slot(f, i)[v] \in {f.slot[v], "moved"}
         /\ v \notin PlainNames(i) => exec_slot(f, i)[v] = f.slot[v]
BY DEF exec_slot, Fills, var_moved, PlainNames, Slots

LEMMA RegionSlots ==
  ASSUME Types, NEW f \in Frame, OwnLoans(f),
         NEW region, Plain(region), ToSet(region) \subseteq RegionInstrs
  PROVE  LET h == run_region(f, region) IN
         /\ h \in Frame /\ OwnLoans(h)
         /\ \A v \in Vars : f.slot[v] # "gone" => h.slot[v] # "gone"
         /\ \A v \in Vars : (\A i \in ToSet(region) : v \notin Fills(i)) =>
              /\ f.slot[v] # "held" => h.slot[v] # "held"
              /\ v \in region_moved(region) => h.slot[v] # "held"
<1> DEFINE N == Len(region)
<1>1. N \in Nat /\ \A k \in 1 .. N : region[k] \in ToSet(region)
  BY DEF Plain
<1>2. PICK g : Traces(g, f, region)
  BY <1>1, RegionRun DEF Traces
<1>3. /\ \A k \in 0 .. N : g[k] \in Frame /\ OwnLoans(g[k])
      /\ \A k \in 1 .. N : g[k - 1] \in Frame /\ g[k].slot = exec_slot(g[k - 1], region[k])
  BY <1>2, TraceTyped
<1>4. \A k \in 1 .. N : g[k - 1].slot \in [Vars -> Slots]
  BY <1>3 DEF Frame
<1>5. N \in 0 .. N /\ g[0] = f /\ g[N] = run_region(f, region)
  BY <1>1, <1>2 DEF Traces
<1> HIDE DEF N
<1>6. ASSUME NEW v \in Vars, f.slot[v] # "gone"
      PROVE  g[N].slot[v] # "gone"
  <2> DEFINE S == {k \in 0 .. N : g[k].slot[v] # "gone"}
  <2>1. 0 \in S
    BY <1>1, <1>5, <1>6
  <2>2. ASSUME NEW k \in 1 .. N, k - 1 \in S
        PROVE  k \in S
    <3>1. g[k].slot[v] = exec_slot(g[k - 1], region[k])[v] /\ g[k - 1].slot[v] # "gone"
      BY <1>3, <2>2
    <3>2. exec_slot(g[k - 1], region[k])[v] # "gone"
      BY <1>4, <3>1, SlotAfter
    <3> QED
      BY <3>1, <3>2
  <2> HIDE DEF S
  <2>3. N \in S
    BY <1>1, <1>5, <2>1, <2>2, RangeInduction
  <2> QED
    BY <2>3 DEF S
<1>7. ASSUME NEW v \in Vars, \A i \in ToSet(region) : v \notin Fills(i)
      PROVE  /\ f.slot[v] # "held" => g[N].slot[v] # "held"
             /\ v \in region_moved(region) => g[N].slot[v] # "held"
  <2> DEFINE S == {k \in 0 .. N :
                     f.slot[v] # "held" \/ (\E j \in 1 .. k : v \in var_moved(region[j])) =>
                       g[k].slot[v] # "held"}
  <2>1. 0 \in S
    BY <1>1, <1>5
  <2>2. ASSUME NEW k \in 1 .. N, k - 1 \in S
        PROVE  k \in S
    <3>1. k \in 0 .. N /\ \A j \in 1 .. k : j = k \/ j \in 1 .. k - 1
      BY <1>1
    <3>2. v \notin Fills(region[k])
      BY <1>1, <1>7
    <3>3. g[k].slot[v] = exec_slot(g[k - 1], region[k])[v]
      BY <1>3
    <3>4. /\ v \in var_moved(region[k]) => exec_slot(g[k - 1], region[k])[v] = "moved"
          /\ exec_slot(g[k - 1], region[k])[v] \in {g[k - 1].slot[v], "moved"}
      BY <1>4, <3>2, SlotAfter
    <3> QED
      BY <2>2, <3>1, <3>3, <3>4
  <2> HIDE DEF S
  <2>3. N \in S
    BY <1>1, <1>5, <2>1, <2>2, RangeInduction
  <2>4. v \in region_moved(region) => \E j \in 1 .. N : v \in var_moved(region[j])
    <3>1. \A i \in ToSet(region) : \E k \in 1 .. N : i = region[k]
      BY DEF Plain, N
    <3> QED
      BY <3>1 DEF region_moved
  <2> QED
    BY <2>3, <2>4 DEF S
<1> QED
  BY <1>3, <1>5, <1>6, <1>7

(* A region reads what was not dropped before it or what it has defined.   *)
NeedsOf(i) == plain_uses(i) \union (IF i.op = "deref" THEN roots_of(Code, i.var) ELSE {})

LEMMA ReadsNeeded ==
  ASSUME Types, OwnersSeen, NEW f \in Frame, OwnLoans(f), NEW i, IsInstr(i), i.op # "try"
  PROVE  Reads(f, i) \subseteq NeedsOf(i)
<1>1. CASE i.op = "deref"
  <2>1. i.var \in Vars /\ f.bound[i.var] \subseteq Begun /\ Begun = Loans
    BY BegunFacts DEF IsInstr, Frame
  <2>2. \A l \in f.bound[i.var] : l \in Loans /\ l.thru = i.var
    BY <2>1 DEF OwnLoans
  <2>3. \A l \in f.bound[i.var] : l.var \in roots_of(Code, i.var)
    BY <2>2, LoanFacts
  <2> QED
    BY <1>1, <2>3 DEF Reads, NeedsOf
<1>2. CASE i.op # "deref"
  BY <1>2 DEF Reads, NeedsOf, plain_uses, PlaceOps
<1> QED
  BY <1>1, <1>2

LEMMA RegionReads ==
  ASSUME Types, OwnersSeen, NEW f \in Frame, OwnLoans(f),
         NEW region, Plain(region), ToSet(region) \subseteq RegionInstrs,
         \A k \in 1 .. Len(region) : \A v \in NeedsOf(region[k]) :
           \/ f.slot[v] # "gone"
           \/ \E j \in 1 .. k - 1 : v \in var_def(region[j])
  PROVE  \A v : <<"dropped", v>> \in run_region(f, region).bad
                  => <<"dropped", v>> \in f.bad
<1> DEFINE N == Len(region)
<1>1. N \in Nat /\ \A k \in 1 .. N : region[k] \in ToSet(region)
  BY DEF Plain
<1>2. PICK g : Traces(g, f, region)
  BY <1>1, RegionRun DEF Traces
<1>3. \A k \in 1 .. N :
        /\ g[k - 1] \in Frame /\ OwnLoans(g[k - 1])
        /\ region[k] \in RegionInstrs /\ IsInstr(region[k]) /\ region[k].op # "try"
        /\ g[k].slot = exec_slot(g[k - 1], region[k])
        /\ g[k].bad = g[k - 1].bad \union Wrong(g[k - 1], region[k])
  BY <1>2, TraceTyped
<1>4. \A k \in 1 .. N : g[k - 1].slot \in [Vars -> Slots]
  BY <1>3 DEF Frame
<1>5. N \in 0 .. N /\ g[0] = f /\ g[N] = run_region(f, region)
  BY <1>1, <1>2 DEF Traces
<1>6. \A k \in 1 .. N : NeedsOf(region[k]) \subseteq Vars
  <2>1. \A k \in 1 .. N : plain_uses(region[k]) \subseteq Vars
    BY <1>3, InstrFacts
  <2>2. \A r : roots_of(Code, r) \subseteq Vars
    BY LoanFacts
  <2> QED
    BY <2>1, <2>2 DEF NeedsOf
<1> DEFINE Found(k, v) == f.slot[v] # "gone" \/ \E j \in 1 .. k : v \in var_def(region[j])
<1>14. \A k \in 1 .. N : \A v \in NeedsOf(region[k]) : Found(k - 1, v)
  OBVIOUS
<1> HIDE DEF N
<1> DEFINE S == {k \in 0 .. N : \A v \in Vars : Found(k, v) => g[k].slot[v] # "gone"}
<1>7. 0 \in S
  BY <1>1, <1>5
<1>8. ASSUME NEW k \in 1 .. N, k - 1 \in S
      PROVE  k \in S
  <2>1. k \in 0 .. N /\ \A j \in 1 .. k : j = k \/ j \in 1 .. k - 1
    BY <1>1
  <2> SUFFICES ASSUME NEW v \in Vars, Found(k, v)
               PROVE  g[k].slot[v] # "gone"
    BY <2>1
  <2>2. g[k].slot[v] = exec_slot(g[k - 1], region[k])[v]
    BY <1>3
  <2>3. /\ v \in Fills(region[k]) => exec_slot(g[k - 1], region[k])[v] = "held"
        /\ v \notin Fills(region[k]) =>
             exec_slot(g[k - 1], region[k])[v] \in {g[k - 1].slot[v], "moved"}
    BY <1>4, SlotAfter
  <2>4. v \in var_def(region[k]) => v \in Fills(region[k])
    BY DEF var_def, Fills
  <2>5. v \in var_def(region[k]) \/ Found(k - 1, v)
    BY <2>1
  <2>6. Found(k - 1, v) => g[k - 1].slot[v] # "gone"
    BY <1>8
  <2> HIDE DEF Found
  <2> QED
    BY <2>2, <2>3, <2>4, <2>5, <2>6
<1> HIDE DEF S, Found
<1>9. \A k \in 0 .. N : k \in S
  BY <1>1, <1>7, <1>8, RangeInduction
<1>10. ASSUME NEW k \in 1 .. N, NEW v
       PROVE  <<"dropped", v>> \notin Wrong(g[k - 1], region[k])
  <2> SUFFICES ASSUME <<"dropped", v>> \in Wrong(g[k - 1], region[k])
               PROVE  FALSE
    OBVIOUS
  <2>1. \E u \in Reads(g[k - 1], region[k]) : g[k - 1].slot[u] = "gone"
    BY WrongFacts
  <2>2. PICK u \in Reads(g[k - 1], region[k]) : g[k - 1].slot[u] = "gone"
    BY <2>1
  <2>3. u \in NeedsOf(region[k]) /\ u \in Vars
    BY <1>3, <1>6, ReadsNeeded
  <2>4. Found(k - 1, u)
    BY <1>14, <2>3
  <2>5. k - 1 \in S
    BY <1>1, <1>9
  <2> QED
    BY <2>2, <2>3, <2>4, <2>5 DEF S
<1> DEFINE B == {k \in 0 .. N : \A v : <<"dropped", v>> \in g[k].bad =>
                                   <<"dropped", v>> \in f.bad}
<1>11. 0 \in B
  BY <1>1, <1>5
<1>12. ASSUME NEW k \in 1 .. N, k - 1 \in B
       PROVE  k \in B
  <2>1. k \in 0 .. N /\ g[k].bad = g[k - 1].bad \union Wrong(g[k - 1], region[k])
    BY <1>1, <1>3
  <2> QED
    BY <1>10, <1>12, <2>1
<1> HIDE DEF B
<1>13. N \in B
  BY <1>1, <1>5, <1>11, <1>12, RangeInduction
<1> QED
  BY <1>5, <1>13 DEF B

(* A region overwrites no value, when what it defines is not held before   *)
(* and not filled earlier in it.                                           *)
LEMMA RegionLosesNothing ==
  ASSUME Types, NEW f \in Frame, OwnLoans(f),
         NEW region, Plain(region), ToSet(region) \subseteq RegionInstrs,
         \A k \in 1 .. Len(region) : region[k].op = "def" =>
           /\ f.slot[region[k].var] # "held"
           /\ \A j \in 1 .. k - 1 : region[k].var \notin Fills(region[j])
  PROVE  \A v : <<"lost", v>> \in run_region(f, region).bad => <<"lost", v>> \in f.bad
<1> DEFINE N == Len(region)
<1>1. N \in Nat
  BY DEF Plain
<1>2. PICK g : Traces(g, f, region)
  BY <1>1, RegionRun DEF Traces
<1>3. \A k \in 1 .. N :
        /\ g[k - 1] \in Frame /\ IsInstr(region[k])
        /\ g[k].slot = exec_slot(g[k - 1], region[k])
        /\ g[k].bad = g[k - 1].bad \union Wrong(g[k - 1], region[k])
  BY <1>2, TraceTyped
<1>4. \A k \in 1 .. N : g[k - 1].slot \in [Vars -> Slots] /\ region[k].var \in Vars
  BY <1>3 DEF Frame, IsInstr
<1>5. N \in 0 .. N /\ g[0] = f /\ g[N] = run_region(f, region)
  BY <1>1, <1>2 DEF Traces
<1> HIDE DEF N
<1> DEFINE S == {k \in 0 .. N :
                   \A v \in Vars :
                     f.slot[v] # "held" /\ (\A j \in 1 .. k : v \notin Fills(region[j]))
                       => g[k].slot[v] # "held"}
<1>6. 0 \in S
  BY <1>1, <1>5
<1>7. ASSUME NEW k \in 1 .. N, k - 1 \in S
      PROVE  k \in S
  <2>1. k \in 0 .. N /\ k \in 1 .. k /\ \A j \in 1 .. k - 1 : j \in 1 .. k
    BY <1>1
  <2> SUFFICES ASSUME NEW v \in Vars, f.slot[v] # "held",
                      \A j \in 1 .. k : v \notin Fills(region[j])
               PROVE  g[k].slot[v] # "held"
    BY <2>1
  <2>2. g[k].slot[v] = exec_slot(g[k - 1], region[k])[v] /\ v \notin Fills(region[k])
    BY <1>3, <2>1
  <2>3. exec_slot(g[k - 1], region[k])[v] \in {g[k - 1].slot[v], "moved"}
    BY <1>4, <2>2, SlotAfter
  <2>4. g[k - 1].slot[v] # "held"
    BY <1>7, <2>1
  <2> QED
    BY <2>2, <2>3, <2>4
<1> HIDE DEF S
<1>8. \A k \in 0 .. N : k \in S
  BY <1>1, <1>6, <1>7, RangeInduction
<1>9. ASSUME NEW k \in 1 .. N, NEW v
      PROVE  <<"lost", v>> \notin Wrong(g[k - 1], region[k])
  <2> SUFFICES ASSUME <<"lost", v>> \in Wrong(g[k - 1], region[k])
               PROVE  FALSE
    OBVIOUS
  <2>1. region[k].op = "def" /\ g[k - 1].slot[region[k].var] = "held"
    BY WrongFacts
  <2>2. k - 1 \in S
    BY <1>1, <1>8
  <2>3. /\ f.slot[region[k].var] # "held"
        /\ \A j \in 1 .. k - 1 : region[k].var \notin Fills(region[j])
    BY <2>1 DEF N
  <2> QED
    BY <1>4, <2>1, <2>2, <2>3 DEF S
<1> DEFINE B == {k \in 0 .. N : \A v : <<"lost", v>> \in g[k].bad => <<"lost", v>> \in f.bad}
<1>10. 0 \in B
  BY <1>1, <1>5
<1>11. ASSUME NEW k \in 1 .. N, k - 1 \in B
       PROVE  k \in B
  <2>1. k \in 0 .. N /\ g[k].bad = g[k - 1].bad \union Wrong(g[k - 1], region[k])
    BY <1>1, <1>3
  <2> QED
    BY <1>9, <1>11, <2>1
<1> HIDE DEF B
<1>12. N \in B
  BY <1>1, <1>5, <1>10, <1>11, RangeInduction
<1> QED
  BY <1>5, <1>12 DEF B

-----------------------------------------------------------------------------
(* The ways through a try: a part of its body, the handler or the else or  *)
(* neither, and the finally, with destructions between them.               *)
Begins(b, region) ==
  /\ Plain(b) /\ ToSet(b) \subseteq ToSet(region) /\ Len(b) <= Len(region)
  /\ \A k \in 1 .. Len(b) : b[k] = region[k]

LEMMA EarlierBegins ==
  ASSUME NEW region, Plain(region), NEW k \in 1 .. Len(region)
  PROVE  Begins(Earlier(region, k), region) /\ Len(Earlier(region, k)) = k - 1
<1> DEFINE b == SubSeq(region, 1, k - 1)
<1>1. /\ region \in Seq(ToSet(region)) /\ Len(region) \in Nat /\ k \in Nat /\ k - 1 \in Nat
      /\ \A j \in 1 .. Len(region) : region[j] \in ToSet(region)
  BY DEF Plain
<1>2. /\ b \in Seq(ToSet(region)) /\ Len(b) = k - 1
      /\ \A j \in 1 .. k - 1 : b[j] = region[j]
  BY <1>1
<1> HIDE DEF b
<1>3. DOMAIN b = 1 .. k - 1 /\ \A j \in 1 .. k - 1 : j \in 1 .. Len(region)
  BY <1>1, <1>2
<1>4. ToSet(b) = {b[j] : j \in 1 .. k - 1} /\ ToSet(b) \subseteq ToSet(region)
  BY <1>1, <1>2, <1>3 DEF ToSet
<1>5. b \in Seq(ToSet(b))
  <2>1. b = [j \in 1 .. Len(b) |-> b[j]] /\ \A j \in 1 .. Len(b) : b[j] \in ToSet(b)
    BY <1>2, <1>3, <1>4
  <2> QED
    BY <1>1, <1>2, <2>1
<1>6. Plain(b)
  BY <1>1, <1>2, <1>4, <1>5 DEF Plain
<1> QED
  BY <1>1, <1>2, <1>4, <1>6 DEF Begins, Earlier, b

LEMMA EmptyRegion ==
  /\ Plain(<<>>) /\ ToSet(<<>>) = {} /\ Len(<<>>) = 0
  /\ \A f : run_region(f, <<>>) = f
<1>1. ToSet(<<>>) = {} /\ Len(<<>>) = 0 /\ <<>> \in Seq({})
  BY DEF ToSet
<1>2. Plain(<<>>)
  BY <1>1 DEF Plain
<1>3. ASSUME NEW f
      PROVE  run_region(f, <<>>) = f
  BY <1>1, RegionRun
<1> QED
  BY <1>1, <1>2, <1>3

(* The values of S are destroyed.                                          *)
Cut(f, h, S) ==
  /\ h \in Frame /\ OwnLoans(h) /\ h.bad = f.bad
  /\ \A v \in Vars : h.slot[v] = IF v \in S /\ f.slot[v] = "held" THEN "gone" ELSE f.slot[v]

LEMMA CutDrop ==
  ASSUME NEW f \in Frame, OwnLoans(f), NEW S
  PROVE  Cut(f, f, {}) /\ Cut(f, DropVars(f, S), S)
BY DropFacts DEF Cut

LEMMA CutTwice ==
  ASSUME NEW f, NEW g, NEW h, NEW A, NEW B, Cut(f, g, A), Cut(g, h, B)
  PROVE  Cut(f, h, A \union B)
BY DEF Cut

Path(f, n, e, b, mid, E, F, f2, f4) ==
  LET t == fn.code[n]
      C == region_cleanup_vars(t.body)
  IN
  /\ Begins(b, t.body) /\ mid \in {t.handler, t.orelse, <<>>}
  /\ Cut(run_region(f, b), f2, E) /\ Cut(run_region(f2, mid), f4, F)
  /\ e[1] = run_region(f4, t.final)
  /\ C \subseteq E /\ (mid = <<>> \/ E = C)
  /\ e[2] \in Nodes =>
       \/ /\ e[2] = t.body_end /\ b = t.body /\ mid = <<>>
          /\ E = C \union escape_cleanup(n, e[2]) /\ F = {}
       \/ /\ e[2] = t.handler_end /\ t.handles /\ mid = t.handler
          /\ E = C /\ F = escape_cleanup(n, e[2])
  /\ e[2] \notin Nodes => E = C /\ F = {}
  /\ e[2] \in Ends(t) \/ (e[2] = Leave /\ Raises(t) # {} /\ ~t.handles)

LEMMA EndNodes ==
  ASSUME Types
  PROVE  Fall \notin Nodes /\ Leave \notin Nodes /\ Fall # Leave
BY FunctionFacts DEF Fall, Leave

LEMMA BodyCompletes ==
  ASSUME Types, NEW n \in Tries, NEW f \in Frame, OwnLoans(f)
  PROVE  \E b, mid, E, F, f2, f4 : Path(f, n, exec_try_complete(f, n), b, mid, E, F, f2, f4)
<1> DEFINE t == fn.code[n]
           C == region_cleanup_vars(t.body)
           f1 == run_region(f, t.body)
           f2 == DropVars(EndRegion(f1, n, t.body_end), C)
           E == IF t.body_end \in Nodes THEN C \union escape_cleanup(n, t.body_end) ELSE C
           mid == IF t.body_end = Fall THEN t.orelse ELSE <<>>
           f3 == run_region(f2, mid)
           e == exec_try_complete(f, n)
<1>1. /\ Plain(t.body) /\ ToSet(t.body) \subseteq RegionInstrs
      /\ Plain(t.orelse) /\ ToSet(t.orelse) \subseteq RegionInstrs
      /\ t.body_end \in Nodes \union {Fall, Leave} /\ Fall \notin Nodes
  BY TryFacts, EndNodes
<1>2. f1 \in Frame /\ OwnLoans(f1)
  <2> HIDE DEF t
  <2> QED
    BY <1>1, RegionSlots
<1>3. Begins(t.body, t.body)
  BY <1>1 DEF Begins, Plain
<1>4. Cut(f1, f2, E)
  <2> HIDE DEF f1, C
  <2>1. CASE t.body_end \in Nodes
    <3>1. Cut(f1, DropVars(f1, escape_cleanup(n, t.body_end)), escape_cleanup(n, t.body_end))
      BY <1>2, CutDrop
    <3> DEFINE g == DropVars(f1, escape_cleanup(n, t.body_end))
    <3>2. g \in Frame /\ OwnLoans(g)
      BY <3>1 DEF Cut
    <3>3. Cut(g, DropVars(g, C), C)
      BY <3>2, CutDrop
    <3>4. f2 = DropVars(g, C)
      BY <2>1 DEF EndRegion
    <3> HIDE DEF g, f2
    <3>5. Cut(f1, f2, escape_cleanup(n, t.body_end) \union C)
      BY <3>1, <3>3, <3>4, CutTwice DEF g
    <3>6. E = escape_cleanup(n, t.body_end) \union C
      BY <2>1
    <3> QED
      BY <3>5, <3>6
  <2>2. CASE t.body_end \notin Nodes
    <3>1. f2 = DropVars(f1, C) /\ E = C
      BY <2>2 DEF EndRegion
    <3> QED
      BY <1>2, <3>1, CutDrop
  <2> QED
    BY <2>1, <2>2
<1>5. f2 \in Frame /\ OwnLoans(f2)
  BY <1>4 DEF Cut
<1> HIDE DEF f1, f2
<1>6. f3 \in Frame /\ OwnLoans(f3)
  <2>1. Plain(mid) /\ ToSet(mid) \subseteq RegionInstrs
    BY <1>1, EmptyRegion
  <2> HIDE DEF mid
  <2> QED
    BY <1>5, <2>1, RegionSlots
<1>7. Cut(f3, f3, {})
  BY <1>6, CutDrop
<1>8. e = <<run_region(f3, t.final), t.body_end>>
  <2>1. t.body_end # Fall => run_region(f2, <<>>) = f2
    BY EmptyRegion
  <2> QED
    BY <2>1 DEF exec_try_complete, f1, f2
<1>9. e[2] \in Ends(t) /\ e[1] = run_region(f3, t.final) /\ e[2] = t.body_end
  BY <1>8 DEF Ends
<1> HIDE DEF f3, e
<1>10. Path(f, n, e, t.body, mid, E, {}, f2, f3)
  <2>1. mid \in {t.handler, t.orelse, <<>>} /\ C \subseteq E /\ (mid = <<>> \/ E = C)
    BY <1>1
  <2>2. t.body_end \in Nodes => mid = <<>> /\ E = C \union escape_cleanup(n, t.body_end)
    BY <1>1
  <2>3. t.body_end \notin Nodes => E = C
    OBVIOUS
  <2> HIDE DEF mid, E, C
  <2> QED
    BY <1>3, <1>4, <1>7, <1>9, <2>1, <2>2, <2>3 DEF Path, f1, f3, C
<1> QED
  BY <1>10 DEF e

LEMMA BodyRaises ==
  ASSUME Types, NEW n \in Tries, NEW f \in Frame, OwnLoans(f), NEW k \in Raises(fn.code[n])
  PROVE  \E b, mid, E, F, f2, f4 : Path(f, n, exec_try_raise(f, n, k), b, mid, E, F, f2, f4)
<1> DEFINE t == fn.code[n]
           C == region_cleanup_vars(t.body)
           b == Earlier(t.body, k)
           f1 == run_region(f, b)
           f2 == DropVars(f1, C)
           mid == IF t.handles THEN t.handler ELSE <<>>
           f3 == run_region(f2, mid)
           F == IF t.handles /\ t.handler_end \in Nodes
                THEN escape_cleanup(n, t.handler_end) ELSE {}
           f4 == IF t.handles THEN EndRegion(f3, n, t.handler_end) ELSE f3
           e == exec_try_raise(f, n, k)
<1>1. /\ Plain(t.body) /\ ToSet(t.body) \subseteq RegionInstrs
      /\ Plain(t.handler) /\ ToSet(t.handler) \subseteq RegionInstrs
      /\ Leave \notin Nodes
  BY TryFacts, EndNodes
<1>2. k \in 1 .. Len(t.body)
  BY <1>1 DEF Raises, Plain
<1>3. Begins(b, t.body)
  BY <1>1, <1>2, EarlierBegins
<1>4. f1 \in Frame /\ OwnLoans(f1)
  BY <1>1, <1>3, RegionSlots DEF Begins
<1> HIDE DEF f1
<1>5. Cut(f1, f2, C)
  BY <1>4, CutDrop
<1>6. f2 \in Frame /\ OwnLoans(f2)
  BY <1>5 DEF Cut
<1> HIDE DEF f2
<1>7. f3 \in Frame /\ OwnLoans(f3)
  <2>1. Plain(mid) /\ ToSet(mid) \subseteq RegionInstrs
    BY <1>1, EmptyRegion
  <2> HIDE DEF mid
  <2> QED
    BY <1>6, <2>1, RegionSlots
<1> HIDE DEF f3
<1>8. Cut(f3, f4, F)
  BY <1>7, CutDrop DEF EndRegion
<1>9. /\ e[1] = run_region(f4, t.final)
      /\ t.handles => e[2] = t.handler_end
      /\ ~t.handles => e[2] = Leave
  <2>1. ~t.handles => run_region(f2, <<>>) = f2
    BY EmptyRegion
  <2>2. e = IF t.handles THEN <<run_region(f4, t.final), t.handler_end>>
            ELSE <<run_region(f4, t.final), Leave>>
    BY <2>1 DEF exec_try_raise, f1, f2, f3, Earlier
  <2> HIDE DEF e
  <2> QED
    BY <2>2
<1> HIDE DEF e, f4
<1>10. Path(f, n, e, b, mid, C, F, f2, f4)
  <2>1. mid \in {t.handler, t.orelse, <<>>} /\ (t.handles => mid = t.handler)
    OBVIOUS
  <2>2. e[2] \in Nodes => t.handles /\ F = escape_cleanup(n, e[2]) /\ e[2] = t.handler_end
    BY <1>1, <1>9
  <2>3. e[2] \notin Nodes => F = {}
    BY <1>1, <1>9
  <2>4. e[2] \in Ends(t) \/ (e[2] = Leave /\ Raises(t) # {} /\ ~t.handles)
    BY <1>9 DEF Ends
  <2> HIDE DEF mid, F, C
  <2> QED
    BY <1>3, <1>5, <1>8, <1>9, <2>1, <2>2, <2>3, <2>4 DEF Path, f1, f3, C
<1> QED
  BY <1>10 DEF e

LEMMA TryPath ==
  ASSUME Types, NEW n \in Tries, NEW f \in Frame, OwnLoans(f), NEW e \in Effects(f, n)
  PROVE  \E b, mid, E, F, f2, f4 : Path(f, n, e, b, mid, E, F, f2, f4)
<1>1. e = exec_try_complete(f, n) \/ \E k \in Raises(fn.code[n]) : e = exec_try_raise(f, n, k)
  BY TryFacts DEF Effects
<1> QED
  BY <1>1, BodyCompletes, BodyRaises

-----------------------------------------------------------------------------
(* A try's locals, and what its regions name.                              *)
Locals == UNION {region_defs(fn.code[n].body) : n \in Tries}

LEMMA NamesHold ==
  ASSUME NEW i, IsInstr(i), i.op # "try"
  PROVE  /\ plain_uses(i) \subseteq PlainNames(i) /\ var_def(i) \subseteq PlainNames(i)
         /\ Fills(i) \subseteq PlainNames(i) /\ plain_uses(i) \cap var_def(i) = {}
         /\ i.op = "loan" => i.var \in PlainNames(i) /\ i.thru \in PlainNames(i)
         /\ PlainNames(i) \subseteq Vars
<1>1. i.op = "loan" => i.thru \in Vars /\ i.thru # NoRef
  BY VarsAssumption DEF IsInstr
<1>2. /\ plain_uses(i) \subseteq PlainNames(i) /\ var_def(i) \subseteq PlainNames(i)
      /\ Fills(i) \subseteq PlainNames(i) /\ plain_uses(i) \cap var_def(i) = {}
  BY DEF plain_uses, var_def, Fills, PlainNames, PlaceOps, Thru
<1>3. i.op = "loan" => i.var \in PlainNames(i) /\ i.thru \in PlainNames(i)
  BY <1>1 DEF PlainNames, Thru
<1>4. i.var \in Vars /\ Thru(i) \subseteq Vars
  BY InstrFacts DEF Thru
<1>5. PlainNames(i) \subseteq Vars
  BY <1>4 DEF PlainNames
<1> QED
  BY <1>2, <1>3, <1>5

LEMMA EarlierDefs ==
  ASSUME NEW region, Plain(region), NEW k \in 1 .. Len(region), NEW v
  PROVE  v \in region_defs(Earlier(region, k)) <=> \E j \in 1 .. k - 1 : v \in var_def(region[j])
<1> DEFINE b == Earlier(region, k)
<1>1. /\ Plain(b) /\ Len(b) = k - 1 /\ \A j \in 1 .. k - 1 : b[j] = region[j]
  BY EarlierBegins DEF Begins
<1> HIDE DEF b
<1>2. /\ \A j \in 1 .. k - 1 : b[j] \in ToSet(b)
      /\ \A i \in ToSet(b) : \E j \in 1 .. k - 1 : i = b[j]
  BY <1>1 DEF Plain
<1> QED
  BY <1>1, <1>2 DEF region_defs, b

LEMMA LocalFacts ==
  ASSUME Types, OwnLocals
  PROVE  /\ Locals \subseteq Vars /\ Locals \cap (fn.owned \union fn.borrowed) = {}
         /\ \A m \in Nodes : fn.code[m].op # "try" => Locals \cap PlainNames(fn.code[m]) = {}
         /\ \A n \in Tries :
              LET t == fn.code[n] IN
              /\ \A i \in ToSet(t.handler) \union ToSet(t.orelse) \union ToSet(t.final) :
                   Locals \cap PlainNames(i) = {}
              /\ \A i \in ToSet(t.body) : Locals \cap PlainNames(i) \subseteq region_defs(t.body)
              /\ region_defs(t.body) \subseteq Locals
         /\ Locals \cap Outliving = {} /\ \A r \in Locals : roots_of(Code, r) = {}
<1>1. ASSUME NEW n \in Tries
      PROVE  LET t == fn.code[n]
                 own == region_defs(t.body)
             IN  /\ own \subseteq Vars /\ own \subseteq Locals
                 /\ own \cap (fn.owned \union fn.borrowed) = {}
                 /\ \A i \in ToSet(t.handler) \union ToSet(t.orelse) \union ToSet(t.final) :
                      own \cap PlainNames(i) = {}
                 /\ \A m \in Nodes \ {n} : own \cap Names(fn.code[m]) = {}
  <2> DEFINE t == fn.code[n]
             own == region_defs(t.body)
  <2>1. /\ own \cap (fn.owned \union fn.borrowed) = {}
        /\ own \cap RegionNames(t.handler \o t.orelse \o t.final) = {}
        /\ \A m \in Nodes \ {n} : own \cap Names(fn.code[m]) = {}
    BY DEF OwnLocals
  <2>2. /\ \A i \in ToSet(t.body) : IsInstr(i) /\ i.op # "try"
        /\ ToSet(t.handler \o t.orelse \o t.final) =
             ToSet(t.handler) \union ToSet(t.orelse) \union ToSet(t.final)
    BY TryFacts DEF Plain
  <2>3. own \subseteq Locals
    BY DEF Locals
  <2> HIDE DEF t
  <2>4. own \subseteq Vars
    BY <2>2, InstrFacts DEF region_defs
  <2>5. \A i \in ToSet(t.handler) \union ToSet(t.orelse) \union ToSet(t.final) :
          own \cap PlainNames(i) = {}
    BY <2>1, <2>2 DEF RegionNames
  <2> QED
    BY <2>1, <2>3, <2>4, <2>5 DEF t
<1>2. Locals \subseteq Vars /\ Locals \cap (fn.owned \union fn.borrowed) = {}
  BY <1>1 DEF Locals
<1>3. ASSUME NEW m \in Nodes, fn.code[m].op # "try"
      PROVE  Locals \cap PlainNames(fn.code[m]) = {}
  <2> SUFFICES ASSUME NEW n \in Tries
               PROVE  region_defs(fn.code[n].body) \cap PlainNames(fn.code[m]) = {}
    BY DEF Locals
  <2>1. m # n
    BY <1>3 DEF Tries
  <2> QED
    BY <1>1, <1>3, <2>1 DEF Names
<1>4. ASSUME NEW n \in Tries, NEW m \in Tries, m # n, NEW i \in ToSet(Regions(fn.code[m]))
      PROVE  region_defs(fn.code[n].body) \cap PlainNames(i) = {}
  <2>1. m \in Nodes \ {n} /\ fn.code[m].op = "try"
    BY <1>4 DEF Tries
  <2>2. PlainNames(i) \subseteq Names(fn.code[m])
    BY <2>1 DEF Names, RegionNames
  <2> QED
    BY <1>1, <2>1, <2>2
<1>5. ASSUME NEW n \in Tries
      PROVE  LET t == fn.code[n] IN
             /\ \A i \in ToSet(t.handler) \union ToSet(t.orelse) \union ToSet(t.final) :
                  Locals \cap PlainNames(i) = {}
             /\ \A i \in ToSet(t.body) : Locals \cap PlainNames(i) \subseteq region_defs(t.body)
             /\ region_defs(t.body) \subseteq Locals
  <2> DEFINE t == fn.code[n]
  <2>1. ToSet(Regions(t)) =
          ToSet(t.body) \union ToSet(t.handler) \union ToSet(t.orelse) \union ToSet(t.final)
    BY TryFacts
  <2>2. ASSUME NEW i \in ToSet(t.handler) \union ToSet(t.orelse) \union ToSet(t.final)
        PROVE  Locals \cap PlainNames(i) = {}
    <3> SUFFICES ASSUME NEW m \in Tries
                 PROVE  region_defs(fn.code[m].body) \cap PlainNames(i) = {}
      BY DEF Locals
    <3>1. CASE m = n
      BY <1>1, <2>2, <3>1
    <3>2. CASE m # n
      BY <1>4, <2>1, <2>2, <3>2
    <3> QED
      BY <3>1, <3>2
  <2>3. ASSUME NEW i \in ToSet(t.body), NEW m \in Tries, m # n
        PROVE  region_defs(fn.code[m].body) \cap PlainNames(i) = {}
    BY <1>4, <2>1, <2>3
  <2>4. ASSUME NEW i \in ToSet(t.body)
        PROVE  Locals \cap PlainNames(i) \subseteq region_defs(t.body)
    BY <2>3 DEF Locals
  <2> QED
    BY <1>1, <2>2, <2>4
<1>6. ASSUME NEW l \in Loans
      PROVE  l.var \notin Locals /\ l.thru \notin Locals
  <2>1. PICK m \in Nodes : l = fn.code[m] /\ l.op = "loan"
    BY DEF Loans, LoansOf, Code
  <2>2. IsInstr(l)
    BY <2>1, FunctionFacts
  <2> QED
    BY <1>3, <2>1, <2>2, NamesHold
<1>7. Locals \cap Outliving = {} /\ \A r \in Locals : roots_of(Code, r) = {}
  BY <1>6 DEF Outliving, roots_of, Loans
<1> QED
  BY <1>2, <1>3, <1>5, <1>7

(* What a try makes of the frame.                                          *)
LEMMA PathTyped ==
  ASSUME Types, NEW n \in Tries, NEW f \in Frame, OwnLoans(f), NEW e,
         NEW b, NEW mid, NEW E, NEW F, NEW f2, NEW f4, Path(f, n, e, b, mid, E, F, f2, f4)
  PROVE  LET t == fn.code[n] IN
         /\ Plain(b) /\ ToSet(b) \subseteq ToSet(t.body) /\ ToSet(b) \subseteq RegionInstrs
         /\ Plain(mid) /\ ToSet(mid) \subseteq RegionInstrs
         /\ ToSet(mid) \subseteq ToSet(t.handler) \union ToSet(t.orelse)
         /\ Plain(t.final) /\ ToSet(t.final) \subseteq RegionInstrs
         /\ run_region(f, b) \in Frame /\ OwnLoans(run_region(f, b))
         /\ f2 \in Frame /\ OwnLoans(f2)
         /\ run_region(f2, mid) \in Frame /\ OwnLoans(run_region(f2, mid))
         /\ f4 \in Frame /\ OwnLoans(f4)
         /\ e[1] \in Frame /\ OwnLoans(e[1])
         /\ E \union F \subseteq region_defs(t.body) \union
              (IF e[2] \in Nodes THEN escape_cleanup(n, e[2]) ELSE {})
<1> DEFINE t == fn.code[n]
<1>1. /\ Plain(t.body) /\ Plain(t.handler) /\ Plain(t.orelse) /\ Plain(t.final)
      /\ ToSet(t.body) \subseteq RegionInstrs /\ ToSet(t.handler) \subseteq RegionInstrs
      /\ ToSet(t.orelse) \subseteq RegionInstrs /\ ToSet(t.final) \subseteq RegionInstrs
  BY TryFacts
<1>2. /\ Begins(b, t.body) /\ mid \in {t.handler, t.orelse, <<>>}
      /\ Cut(run_region(f, b), f2, E) /\ Cut(run_region(f2, mid), f4, F)
      /\ e[1] = run_region(f4, t.final)
  BY DEF Path
<1>3. region_cleanup_vars(t.body) \subseteq region_defs(t.body)
  BY DEF region_cleanup_vars
<1>4. E \union F \subseteq region_defs(t.body) \union
        (IF e[2] \in Nodes THEN escape_cleanup(n, e[2]) ELSE {})
  BY <1>3 DEF Path
<1> HIDE DEF t
<1>5. Plain(b) /\ ToSet(b) \subseteq ToSet(t.body) /\ ToSet(b) \subseteq RegionInstrs
  BY <1>1, <1>2 DEF Begins
<1>6. /\ Plain(mid) /\ ToSet(mid) \subseteq RegionInstrs
      /\ ToSet(mid) \subseteq ToSet(t.handler) \union ToSet(t.orelse)
  BY <1>1, <1>2, EmptyRegion
<1>7. f2 \in Frame /\ OwnLoans(f2) /\ f4 \in Frame /\ OwnLoans(f4)
  BY <1>2 DEF Cut
<1>8. run_region(f, b) \in Frame /\ OwnLoans(run_region(f, b))
  BY <1>5, RegionSlots
<1>9. run_region(f2, mid) \in Frame /\ OwnLoans(run_region(f2, mid))
  BY <1>6, <1>7, RegionSlots
<1>10. run_region(f4, t.final) \in Frame /\ OwnLoans(run_region(f4, t.final))
  BY <1>1, <1>7, RegionSlots
<1> QED
  BY <1>1, <1>2, <1>4, <1>5, <1>6, <1>7, <1>8, <1>9, <1>10 DEF t

(* What is not destroyed on the way is not gone.                           *)
LEMMA TryKeeps ==
  ASSUME Types, NEW n \in Tries, NEW f \in Frame, OwnLoans(f), NEW e,
         NEW b, NEW mid, NEW E, NEW F, NEW f2, NEW f4, Path(f, n, e, b, mid, E, F, f2, f4),
         NEW v \in Vars, f.slot[v] # "gone"
  PROVE  /\ v \notin E => f2.slot[v] # "gone"
         /\ v \notin E \union F => f4.slot[v] # "gone" /\ e[1].slot[v] # "gone"
<1> DEFINE f1 == run_region(f, b)
           f3 == run_region(f2, mid)
<1>1. Cut(f1, f2, E) /\ Cut(f3, f4, F) /\ e[1] = run_region(f4, fn.code[n].final)
  BY DEF Path
<1>2. f1.slot[v] # "gone"
  BY PathTyped, RegionSlots
<1>3. v \notin E => f2.slot[v] # "gone"
  BY <1>1, <1>2 DEF Cut
<1>4. v \notin E => f3.slot[v] # "gone"
  BY <1>3, PathTyped, RegionSlots
<1>5. v \notin E \union F => f4.slot[v] # "gone"
  BY <1>1, <1>4 DEF Cut
<1>6. v \notin E \union F => e[1].slot[v] # "gone"
  BY <1>1, <1>5, PathTyped, RegionSlots
<1> QED
  BY <1>3, <1>5, <1>6

(* What a try's regions need is live before it, and is no local but in the *)
(* body.                                                                   *)
LEMMA TryNeeds ==
  ASSUME Types, OwnLocals, NEW n \in Tries,
         live_in[n] = transfer_drop_liveness(fn.code[n], block_live_out(n), Code),
         NEW i \in ToSet(Regions(fn.code[n]))
  PROVE  /\ NeedsOf(i) \subseteq live_in[n] /\ NeedsOf(i) \subseteq Vars
         /\ Locals \cap NeedsOf(i) \subseteq plain_uses(i)
         /\ i \notin ToSet(fn.code[n].body) => Locals \cap NeedsOf(i) = {}
<1> DEFINE t == fn.code[n]
<1>1. n \in Nodes /\ t.op = "try" /\ IsInstr(i) /\ i.op # "try"
  BY TryFacts, BegunFacts
<1>2. var_uses(t) \subseteq live_in[n] /\ RootsIn(live_in[n], Code) /\ live_in[n] \subseteq Vars
  BY <1>1, DropLive DEF Types
<1>3. plain_uses(i) \subseteq live_in[n]
  BY <1>1, <1>2 DEF var_uses, region_uses
<1>4. i.op = "deref" => roots_of(Code, i.var) \subseteq live_in[n]
  <2>1. i.op = "deref" => i.var \in plain_uses(i)
    BY DEF plain_uses
  <2> QED
    BY <1>2, <1>3, <2>1 DEF RootsIn
<1>5. NeedsOf(i) \subseteq live_in[n]
  BY <1>3, <1>4 DEF NeedsOf
<1>6. Locals \cap NeedsOf(i) \subseteq plain_uses(i)
  <2>1. \A r : roots_of(Code, r) \subseteq Outliving
    BY LoanFacts
  <2>2. Locals \cap Outliving = {}
    BY LocalFacts
  <2> QED
    BY <2>1, <2>2 DEF NeedsOf
<1>7. ASSUME i \notin ToSet(t.body)
      PROVE  Locals \cap NeedsOf(i) = {}
  <2>1. i \in ToSet(t.handler) \union ToSet(t.orelse) \union ToSet(t.final)
    BY <1>7, TryFacts
  <2>2. Locals \cap PlainNames(i) = {}
    BY <2>1, LocalFacts
  <2>3. plain_uses(i) \subseteq PlainNames(i)
    BY <1>1, NamesHold
  <2> QED
    BY <1>6, <2>2, <2>3
<1> QED
  BY <1>2, <1>5, <1>6, <1>7

(* What is live before the try and no local has not been dropped.          *)
LiveNotGone(n) == \A v \in live_in[n] \ Locals : frame.slot[v] # "gone"

LEMMA BodyReads ==
  ASSUME Types, OwnLocals, OwnersSeen, NEW n \in Tries, LiveNotGone(n),
         live_in[n] = transfer_drop_liveness(fn.code[n], block_live_out(n), Code),
         NEW b, Begins(b, fn.code[n].body)
  PROVE  \A v : <<"dropped", v>> \in run_region(frame, b).bad => <<"dropped", v>> \in frame.bad
<1> DEFINE t == fn.code[n]
<1>1. /\ Plain(t.body) /\ ToSet(t.body) \subseteq ToSet(Regions(t))
      /\ ToSet(t.body) \subseteq RegionInstrs
  BY TryFacts
<1>2. /\ Plain(b) /\ ToSet(b) \subseteq RegionInstrs /\ Len(b) <= Len(t.body)
      /\ Len(b) \in Nat /\ Len(t.body) \in Nat
      /\ \A k \in 1 .. Len(b) : b[k] = t.body[k]
  BY <1>1 DEF Begins, Plain
<1>3. frame \in Frame /\ OwnLoans(frame)
  BY DEF Types
<1>4. ASSUME NEW k \in 1 .. Len(b), NEW v \in NeedsOf(b[k])
      PROVE  frame.slot[v] # "gone" \/ \E j \in 1 .. k - 1 : v \in var_def(b[j])
  <2>1. k \in 1 .. Len(t.body) /\ b[k] = t.body[k] /\ \A j \in 1 .. k - 1 : j \in 1 .. Len(b)
    BY <1>2
  <2>2. /\ b[k] \in ToSet(t.body) /\ IsInstr(b[k]) /\ b[k].op # "try"
        /\ b[k] \in ToSet(Regions(t))
    BY <1>1, <2>1 DEF Plain
  <2>3. v \in live_in[n] /\ v \in Vars /\ (v \in Locals => v \in plain_uses(b[k]))
    BY <2>2, TryNeeds
  <2>4. CASE v \notin Locals
    BY <2>3, <2>4 DEF LiveNotGone
  <2>5. CASE v \in Locals
    <3>1. v \in PlainNames(b[k]) /\ v \notin var_def(b[k])
      BY <2>2, <2>3, <2>5, NamesHold
    <3>2. v \in region_defs(t.body)
      BY <2>2, <2>5, <3>1, LocalFacts
    <3>3. k \in DOMAIN t.body
      BY <1>1, <2>1 DEF Plain
    <3>4. v \in region_defs(Earlier(t.body, k))
      BY <2>1, <3>1, <3>2, <3>3 DEF OwnLocals
    <3>5. \E j \in 1 .. k - 1 : v \in var_def(t.body[j])
      BY <1>1, <2>1, <3>4, EarlierDefs
    <3> QED
      BY <1>2, <2>1, <3>5
  <2> QED
    BY <2>4, <2>5
<1> HIDE DEF t
<1> QED
  BY <1>2, <1>3, <1>4, RegionReads

LEMMA TryReads ==
  ASSUME Types, OwnLocals, OwnersSeen, NEW n \in Tries, LiveNotGone(n),
         live_in[n] = transfer_drop_liveness(fn.code[n], block_live_out(n), Code), NEW e,
         NEW b, NEW mid, NEW E, NEW F, NEW f2, NEW f4, Path(frame, n, e, b, mid, E, F, f2, f4)
  PROVE  \A v : <<"dropped", v>> \in e[1].bad => <<"dropped", v>> \in frame.bad
<1> DEFINE t == fn.code[n]
           f1 == run_region(frame, b)
           f3 == run_region(f2, mid)
<1>1. frame \in Frame /\ OwnLoans(frame)
  BY DEF Types
<1>2. /\ Cut(f1, f2, E) /\ Cut(f3, f4, F) /\ e[1] = run_region(f4, t.final)
      /\ Begins(b, t.body) /\ (mid = <<>> \/ E = region_cleanup_vars(t.body))
  BY DEF Path
<1>3. f1.bad = f2.bad /\ f3.bad = f4.bad
  BY <1>2 DEF Cut
<1>4. /\ Plain(mid) /\ ToSet(mid) \subseteq RegionInstrs
      /\ ToSet(mid) \subseteq ToSet(t.handler) \union ToSet(t.orelse)
      /\ Plain(t.final) /\ ToSet(t.final) \subseteq RegionInstrs
      /\ f2 \in Frame /\ OwnLoans(f2) /\ f4 \in Frame /\ OwnLoans(f4)
      /\ E \union F \subseteq region_defs(t.body) \union
              (IF e[2] \in Nodes THEN escape_cleanup(n, e[2]) ELSE {})
  BY <1>1, PathTyped
<1>5. ToSet(Regions(t)) =
        ToSet(t.body) \union ToSet(t.handler) \union ToSet(t.orelse) \union ToSet(t.final)
  BY TryFacts
<1>6. region_defs(t.body) \subseteq Locals
  BY LocalFacts
<1>7. ASSUME NEW i \in ToSet(t.handler) \union ToSet(t.orelse) \union ToSet(t.final)
      PROVE  /\ NeedsOf(i) \subseteq Vars /\ NeedsOf(i) \cap Locals = {}
             /\ \A v \in NeedsOf(i) : frame.slot[v] # "gone"
  <2>1. i \in ToSet(Regions(t))
    BY <1>5
  <2>2. \A j \in ToSet(t.handler) \union ToSet(t.orelse) \union ToSet(t.final) :
          Locals \cap PlainNames(j) = {}
    BY LocalFacts
  <2>3. IsInstr(i) /\ i.op # "try" /\ plain_uses(i) \subseteq PlainNames(i)
    BY <2>1, BegunFacts, NamesHold DEF RegionInstrs
  <2>4. /\ NeedsOf(i) \subseteq live_in[n] /\ NeedsOf(i) \subseteq Vars
        /\ Locals \cap NeedsOf(i) \subseteq plain_uses(i)
    BY <2>1, TryNeeds
  <2>5. Locals \cap NeedsOf(i) = {}
    BY <2>2, <2>3, <2>4
  <2> QED
    BY <2>4, <2>5 DEF LiveNotGone
<1>8. \A v : <<"dropped", v>> \in f1.bad => <<"dropped", v>> \in frame.bad
  BY <1>2, BodyReads
<1>9. \A v : <<"dropped", v>> \in f3.bad => <<"dropped", v>> \in f2.bad
  <2>1. CASE mid = <<>>
    BY <2>1, EmptyRegion
  <2>2. CASE E = region_cleanup_vars(t.body)
    <3>1. E \subseteq Locals
      BY <1>6, <2>2 DEF region_cleanup_vars
    <3>2. ASSUME NEW k \in 1 .. Len(mid), NEW v \in NeedsOf(mid[k])
          PROVE  f2.slot[v] # "gone"
      <4>1. mid[k] \in ToSet(t.handler) \union ToSet(t.orelse) \union ToSet(t.final)
        BY <1>4 DEF Plain
      <4>2. v \in Vars /\ v \notin E /\ frame.slot[v] # "gone"
        BY <1>7, <3>1, <4>1
      <4> QED
        BY <1>1, <4>2, TryKeeps
    <3> QED
      BY <1>4, <3>2, RegionReads
  <2> QED
    BY <1>2, <2>1, <2>2
<1>10. ASSUME NEW k \in 1 .. Len(t.final), NEW v \in NeedsOf(t.final[k])
       PROVE  f4.slot[v] # "gone"
  <2> DEFINE i == t.final[k]
  <2>1. i \in ToSet(t.final)
    BY <1>4 DEF Plain
  <2>2. v \in Vars /\ v \notin Locals /\ frame.slot[v] # "gone"
    BY <1>7, <2>1
  <2>3. e[2] \in Nodes => v \notin escape_cleanup(n, e[2])
    <3> SUFFICES ASSUME e[2] \in Nodes
                 PROVE  v \notin escape_cleanup(n, e[2])
      OBVIOUS
    <3>1. e[2] \in Ends(t)
      BY DEF Path, Ends
    <3>2. RootsIn(region_uses(t.final), Code)
      BY <3>1 DEF OwnersSeen, Escapes
    <3>3. plain_uses(i) \subseteq region_uses(t.final)
      BY <2>1 DEF region_uses
    <3>4. i.op = "deref" => i.var \in plain_uses(i)
      BY DEF plain_uses
    <3>5. NeedsOf(i) \subseteq region_uses(t.final)
      BY <3>2, <3>3, <3>4 DEF NeedsOf, RootsIn
    <3> QED
      BY <3>5 DEF escape_cleanup
  <2>4. v \notin E \union F
    BY <1>4, <1>6, <2>2, <2>3
  <2> QED
    BY <1>1, <2>2, <2>4, TryKeeps
<1>11. \A v : <<"dropped", v>> \in e[1].bad => <<"dropped", v>> \in f4.bad
  <2> HIDE DEF t
  <2> QED
    BY <1>2, <1>4, <1>10, RegionReads
<1> QED
  BY <1>3, <1>8, <1>9, <1>11

(* What is live where a try goes to is not gone after it.                  *)
LEMMA TryFound ==
  ASSUME Types, OwnLocals, NEW n \in Tries, LiveNotGone(n),
         live_in[n] = transfer_drop_liveness(fn.code[n], block_live_out(n), Code), NEW e,
         NEW b, NEW mid, NEW E, NEW F, NEW f2, NEW f4, Path(frame, n, e, b, mid, E, F, f2, f4),
         NEW v \in live_in[n] \ Locals, e[2] \in Nodes => v \in live_in[e[2]]
  PROVE  e[1].slot[v] # "gone"
<1>1. frame \in Frame /\ OwnLoans(frame) /\ n \in Nodes /\ live_in[n] \subseteq Vars
  BY TryFacts DEF Types
<1>2. frame.slot[v] # "gone" /\ v \in Vars
  BY <1>1 DEF LiveNotGone
<1>3. region_defs(fn.code[n].body) \subseteq Locals
  BY LocalFacts
<1>4. E \union F \subseteq region_defs(fn.code[n].body) \union
        (IF e[2] \in Nodes THEN escape_cleanup(n, e[2]) ELSE {})
  BY <1>1, PathTyped
<1>5. e[2] \in Nodes => v \notin escape_cleanup(n, e[2])
  BY DEF escape_cleanup
<1>6. v \notin E \union F
  BY <1>3, <1>4, <1>5
<1> QED
  BY <1>1, <1>2, <1>6, TryKeeps

LocalsGone(f) == \A v \in Locals : f.slot[v] # "held"

(* The handler, the else and the finally fill no local, nor does a body    *)
(* that of another try.                                                    *)
LEMMA TryFillsOwn ==
  ASSUME Types, OwnLocals, NEW n \in Tries, NEW i \in ToSet(Regions(fn.code[n])), NEW v \in Locals
  PROVE  v \in Fills(i) => i \in ToSet(fn.code[n].body) /\ v \in region_defs(fn.code[n].body)
<1> DEFINE t == fn.code[n]
<1>1. ToSet(Regions(t)) =
        ToSet(t.body) \union ToSet(t.handler) \union ToSet(t.orelse) \union ToSet(t.final)
  BY TryFacts
<1>2. Fills(i) \subseteq PlainNames(i)
  BY BegunFacts, NamesHold DEF RegionInstrs
<1> QED
  BY <1>1, <1>2, LocalFacts

LEMMA TryLocalsGone ==
  ASSUME Types, OwnLocals, RegionsClean, NEW n \in Tries,
         NEW f \in Frame, OwnLoans(f), LocalsGone(f), NEW e,
         NEW b, NEW mid, NEW E, NEW F, NEW f2, NEW f4, Path(f, n, e, b, mid, E, F, f2, f4)
  PROVE  LocalsGone(e[1])
<1> DEFINE t == fn.code[n]
           f1 == run_region(f, b)
           f3 == run_region(f2, mid)
<1>1. /\ Cut(f1, f2, E) /\ Cut(f3, f4, F) /\ e[1] = run_region(f4, t.final)
      /\ region_cleanup_vars(t.body) \subseteq E
  BY DEF Path
<1>2. /\ Plain(b) /\ ToSet(b) \subseteq ToSet(t.body) /\ ToSet(b) \subseteq RegionInstrs
      /\ Plain(mid) /\ ToSet(mid) \subseteq RegionInstrs
      /\ ToSet(mid) \subseteq ToSet(t.handler) \union ToSet(t.orelse)
      /\ Plain(t.final) /\ ToSet(t.final) \subseteq RegionInstrs
      /\ f2 \in Frame /\ OwnLoans(f2) /\ f4 \in Frame /\ OwnLoans(f4)
  BY PathTyped
<1>3. ToSet(Regions(t)) =
        ToSet(t.body) \union ToSet(t.handler) \union ToSet(t.orelse) \union ToSet(t.final)
  BY TryFacts
<1> SUFFICES ASSUME NEW v \in Locals
             PROVE  e[1].slot[v] # "held"
  BY DEF LocalsGone
<1>4. v \in Vars /\ f.slot[v] # "held"
  BY LocalFacts DEF LocalsGone
<1>5. f2.slot[v] # "held"
  <2>1. CASE v \in region_defs(t.body)
    <3>1. region_defs(t.body) \cap region_moved(Regions(t)) = {}
      BY DEF RegionsClean
    <3>2. v \notin region_moved(t.body)
      BY <1>3, <2>1, <3>1 DEF region_moved
    <3>3. v \in E
      BY <1>1, <2>1, <3>2 DEF region_cleanup_vars
    <3> QED
      BY <1>1, <1>4, <3>3 DEF Cut
  <2>2. CASE v \notin region_defs(t.body)
    <3>1. \A i \in ToSet(b) : v \notin Fills(i)
      BY <1>2, <1>3, <2>2, TryFillsOwn
    <3>2. f1.slot[v] # "held"
      BY <1>2, <1>4, <3>1, RegionSlots
    <3> QED
      BY <1>1, <1>4, <3>2 DEF Cut
  <2> QED
    BY <2>1, <2>2
<1>6. /\ \A i \in ToSet(mid) : v \notin Fills(i)
      /\ \A i \in ToSet(t.final) : v \notin Fills(i)
  <2>1. \A i \in ToSet(t.handler) \union ToSet(t.orelse) \union ToSet(t.final) : v \notin Fills(i)
    <3> SUFFICES ASSUME NEW i \in ToSet(t.handler) \union ToSet(t.orelse) \union ToSet(t.final)
                 PROVE  v \notin Fills(i)
      OBVIOUS
    <3>1. Locals \cap PlainNames(i) = {}
      BY LocalFacts
    <3>2. Fills(i) \subseteq PlainNames(i)
      BY <1>3, BegunFacts, NamesHold DEF RegionInstrs
    <3> QED
      BY <3>1, <3>2
  <2> QED
    BY <1>2, <2>1
<1>7. f3.slot[v] # "held"
  BY <1>2, <1>4, <1>5, <1>6, RegionSlots
<1>8. f4.slot[v] # "held"
  BY <1>1, <1>4, <1>7 DEF Cut
<1> HIDE DEF t
<1> QED
  BY <1>1, <1>2, <1>4, <1>6, <1>8, RegionSlots

(* A try overwrites no value.                                              *)
LEMMA TryLosesNothing ==
  ASSUME Types, OwnLocals, RegionsClean, NEW n \in Tries,
         NEW f \in Frame, OwnLoans(f), LocalsGone(f), NEW e,
         NEW b, NEW mid, NEW E, NEW F, NEW f2, NEW f4, Path(f, n, e, b, mid, E, F, f2, f4)
  PROVE  \A v : <<"lost", v>> \in e[1].bad => <<"lost", v>> \in f.bad
<1> DEFINE t == fn.code[n]
           f1 == run_region(f, b)
           f3 == run_region(f2, mid)
<1>1. /\ Cut(f1, f2, E) /\ Cut(f3, f4, F) /\ e[1] = run_region(f4, t.final)
      /\ Begins(b, t.body)
  BY DEF Path
<1>2. /\ Plain(b) /\ ToSet(b) \subseteq ToSet(t.body) /\ ToSet(b) \subseteq RegionInstrs
      /\ Plain(mid) /\ ToSet(mid) \subseteq RegionInstrs
      /\ ToSet(mid) \subseteq ToSet(t.handler) \union ToSet(t.orelse)
      /\ Plain(t.final) /\ ToSet(t.final) \subseteq RegionInstrs
      /\ f2 \in Frame /\ OwnLoans(f2) /\ f4 \in Frame /\ OwnLoans(f4)
  BY PathTyped
<1>3. /\ Plain(t.body) /\ ToSet(t.handler \o t.orelse \o t.final) =
           ToSet(t.handler) \union ToSet(t.orelse) \union ToSet(t.final)
      /\ ToSet(t.body) \subseteq RegionInstrs
  BY TryFacts
<1>4. \A i \in ToSet(t.handler) \union ToSet(t.orelse) \union ToSet(t.final) : i.op # "def"
  <2>1. region_defs(t.handler \o t.orelse \o t.final) = {}
    BY DEF RegionsClean
  <2> QED
    BY <1>3, <2>1 DEF region_defs, var_def
<1>5. ASSUME NEW k \in 1 .. Len(b), b[k].op = "def"
      PROVE  /\ f.slot[b[k].var] # "held"
             /\ \A j \in 1 .. k - 1 : b[k].var \notin Fills(b[j])
  <2> DEFINE v == b[k].var
             own == region_defs(t.body)
  <2>1. /\ k \in 1 .. Len(t.body) /\ b[k] = t.body[k] /\ k \in DOMAIN t.body
        /\ \A j \in 1 .. k - 1 : j \in 1 .. Len(t.body) /\ b[j] = t.body[j] /\ j \in DOMAIN t.body
    <3> HIDE DEF t, v, own
    <3>1. /\ Len(b) \in Nat /\ Len(t.body) \in Nat /\ Len(b) <= Len(t.body)
          /\ DOMAIN t.body = 1 .. Len(t.body)
          /\ \A m \in 1 .. Len(b) : b[m] = t.body[m]
      BY <1>1, <1>2, <1>3 DEF Begins, Plain
    <3>2. \A j \in 1 .. k - 1 : j \in 1 .. Len(b)
      BY <3>1
    <3>3. \A m \in 1 .. Len(b) : m \in 1 .. Len(t.body)
      BY <3>1
    <3> QED
      BY <1>5, <3>1, <3>2, <3>3
  <2>2. b[k] \in ToSet(t.body) /\ v \in var_def(b[k])
    BY <1>3, <1>5, <2>1 DEF Plain, var_def
  <2>3. v \in own /\ v \in Locals
    BY <2>2, LocalFacts DEF region_defs
  <2>4. \A j \in 1 .. k - 1 : v \notin var_def(t.body[j])
    <3>1. v \notin region_defs(Earlier(t.body, k))
      BY <2>1, <2>2 DEF RegionsClean
    <3> QED
      BY <1>3, <2>1, <3>1, EarlierDefs
  <2>5. ASSUME NEW j \in 1 .. k - 1
        PROVE  v \notin Fills(b[j])
    <3> SUFFICES ASSUME v \in Fills(b[j])
                 PROVE  FALSE
      OBVIOUS
    <3>1. b[j] \in ToSet(t.body) /\ IsInstr(b[j]) /\ b[j].op # "try"
      BY <1>3, <2>1 DEF Plain
    <3>2. v \in PlainNames(t.body[j]) \ var_def(t.body[j])
      BY <2>1, <2>4, <3>1, NamesHold
    <3>3. v \in region_defs(Earlier(t.body, j))
      BY <2>1, <2>3, <3>2 DEF OwnLocals
    <3>4. \E m \in 1 .. j - 1 : v \in var_def(t.body[m])
      BY <1>3, <2>1, <3>3, EarlierDefs
    <3>5. \A m \in 1 .. j - 1 : m \in 1 .. k - 1
      BY <2>1
    <3> QED
      BY <2>4, <3>4, <3>5
  <2> QED
    BY <2>3, <2>5 DEF LocalsGone
<1>6. \A v : <<"lost", v>> \in f1.bad => <<"lost", v>> \in f.bad
  <2> HIDE DEF t
  <2> QED
    BY <1>2, <1>5, RegionLosesNothing
<1>7. \A v : <<"lost", v>> \in f3.bad => <<"lost", v>> \in f2.bad
  <2>1. \A k \in 1 .. Len(mid) : mid[k].op # "def"
    BY <1>2, <1>4 DEF Plain
  <2> QED
    BY <1>2, <2>1, RegionLosesNothing
<1>8. \A v : <<"lost", v>> \in run_region(f4, t.final).bad => <<"lost", v>> \in f4.bad
  <2>1. \A k \in 1 .. Len(t.final) : t.final[k].op # "def"
    BY <1>2, <1>4 DEF Plain
  <2> HIDE DEF t
  <2> QED
    BY <1>2, <2>1, RegionLosesNothing
<1> QED
  BY <1>1, <1>6, <1>7, <1>8 DEF Cut

(* What a try leaves undestroyed is live before it, and on an escape it is *)
(* live or dropped at the target.                                          *)
FilledUsed ==
  \A n \in Tries :
    LET t == fn.code[n] IN
    \A region \in {t.body, t.handler, t.orelse, t.final} :
      \A i \in ToSet(region) : \A v \in Fills(i) :
        v \in Locals \/ v \in region_uses(region) \ region_moved(Regions(t))

LEMMA FillsAreUses ==
  ASSUME Types, OwnLocals, RegionsClean, WritebacksUsed
  PROVE  FilledUsed
<1> SUFFICES ASSUME NEW n \in Tries,
                    NEW region \in {fn.code[n].body, fn.code[n].handler, fn.code[n].orelse,
                                    fn.code[n].final},
                    NEW i \in ToSet(region), NEW v \in Fills(i), v \notin Locals
             PROVE  v \in region_uses(region) \ region_moved(Regions(fn.code[n]))
  BY DEF FilledUsed
<1> DEFINE t == fn.code[n]
<1>1. i.op # "def"
  <2> SUFFICES ASSUME i.op = "def"
               PROVE  FALSE
    OBVIOUS
  <2>1. v \in var_def(i)
    BY DEF Fills, var_def
  <2>2. ToSet(t.handler \o t.orelse \o t.final) =
           ToSet(t.handler) \union ToSet(t.orelse) \union ToSet(t.final)
    BY TryFacts
  <2>3. region_defs(t.handler \o t.orelse \o t.final) = {}
    BY DEF RegionsClean
  <2>4. i \in ToSet(t.body)
    BY <2>1, <2>2, <2>3 DEF region_defs
  <2>5. v \in region_defs(t.body)
    BY <2>1, <2>4 DEF region_defs
  <2> QED
    BY <2>5 DEF Locals
<1>2. i.op = "writeback" /\ v = i.var
  BY <1>1 DEF Fills
<1> QED
  BY <1>2 DEF WritebacksUsed

LEMMA TryHeldUsed ==
  ASSUME Types, OwnLocals, FilledUsed, NEW n \in Tries,
         NEW f \in Frame, OwnLoans(f), NEW e,
         NEW b, NEW mid, NEW E, NEW F, NEW f2, NEW f4, Path(f, n, e, b, mid, E, F, f2, f4),
         NEW v \in Vars \ Locals, e[1].slot[v] = "held"
  PROVE  f.slot[v] = "held" \/ v \in var_uses(fn.code[n])
<1> DEFINE t == fn.code[n]
           f1 == run_region(f, b)
           f3 == run_region(f2, mid)
<1> SUFFICES ASSUME f.slot[v] # "held", v \notin var_uses(t)
             PROVE  FALSE
  OBVIOUS
<1>1. Cut(f1, f2, E) /\ Cut(f3, f4, F) /\ e[1] = run_region(f4, t.final)
  BY DEF Path
<1>2. /\ Plain(b) /\ ToSet(b) \subseteq ToSet(t.body) /\ ToSet(b) \subseteq RegionInstrs
      /\ Plain(mid) /\ ToSet(mid) \subseteq RegionInstrs
      /\ ToSet(mid) \subseteq ToSet(t.handler) \union ToSet(t.orelse)
      /\ Plain(t.final) /\ ToSet(t.final) \subseteq RegionInstrs
      /\ f2 \in Frame /\ OwnLoans(f2) /\ f4 \in Frame /\ OwnLoans(f4)
  BY PathTyped
<1>3. /\ t.op = "try" /\ ToSet(Regions(t)) =
        ToSet(t.body) \union ToSet(t.handler) \union ToSet(t.orelse) \union ToSet(t.final)
  BY TryFacts
<1>4. \A region \in {t.body, t.handler, t.orelse, t.final} :
        region_uses(region) \subseteq var_uses(t)
  BY <1>3 DEF region_uses, var_uses
<1>5. \A region \in {t.body, t.handler, t.orelse, t.final} :
        \A i \in ToSet(region) : v \notin Fills(i)
  BY <1>4 DEF FilledUsed
<1>6. \A i \in ToSet(t.body) \union ToSet(t.handler) \union ToSet(t.orelse) \union ToSet(t.final) :
        v \notin Fills(i)
  BY <1>5
<1>7. f1.slot[v] # "held"
  BY <1>2, <1>6, RegionSlots
<1>8. f2.slot[v] # "held"
  BY <1>1, <1>7 DEF Cut
<1>9. f3.slot[v] # "held"
  BY <1>2, <1>6, <1>8, RegionSlots
<1>10. f4.slot[v] # "held"
  BY <1>1, <1>9 DEF Cut
<1> HIDE DEF t
<1> QED
  BY <1>1, <1>2, <1>6, <1>10, RegionSlots

LEMMA EscapeDrops ==
  ASSUME Types, OwnLocals, RegionsClean, FilledUsed, EscapesDropped, NEW n \in Tries,
         NEW f \in Frame, OwnLoans(f), NEW e,
         NEW b, NEW mid, NEW E, NEW F, NEW f2, NEW f4, Path(f, n, e, b, mid, E, F, f2, f4),
         e[2] \in Nodes, NEW v \in Vars \ Locals, e[1].slot[v] = "held", is_droppable_root(v),
         v \in live_after(n) \union var_uses(fn.code[n])
  PROVE  v \in live_in[e[2]] \union entry_drops(e[2])
<1> DEFINE t == fn.code[n]
           f1 == run_region(f, b)
           f3 == run_region(f2, mid)
           s == e[2]
           live_before == live_after(n) \union var_uses(t)
<1> SUFFICES ASSUME v \notin live_in[s], v \notin entry_drops(s)
             PROVE  FALSE
  OBVIOUS
<1>1. Cut(f1, f2, E) /\ Cut(f3, f4, F) /\ e[1] = run_region(f4, t.final)
  BY DEF Path
<1>2. /\ Plain(b) /\ ToSet(b) \subseteq RegionInstrs
      /\ Plain(mid) /\ ToSet(mid) \subseteq RegionInstrs
      /\ Plain(t.final) /\ ToSet(t.final) \subseteq RegionInstrs
      /\ f2 \in Frame /\ OwnLoans(f2) /\ f4 \in Frame /\ OwnLoans(f4)
  BY PathTyped
<1>3. /\ v \in Droppable(live_before)
      /\ t.handler \o t.orelse \o t.final = t.handler \o t.orelse \o t.final
  BY DEF Droppable
<1>4. /\ ToSet(Regions(t)) =
           ToSet(t.body) \union ToSet(t.handler) \union ToSet(t.orelse) \union ToSet(t.final)
      /\ ToSet(t.handler \o t.orelse \o t.final) =
           ToSet(t.handler) \union ToSet(t.orelse) \union ToSet(t.final)
  BY TryFacts
<1>5. v \notin region_defs(Regions(t))
  <2>1. region_defs(t.handler \o t.orelse \o t.final) = {} /\ v \notin region_defs(t.body)
    BY DEF RegionsClean, Locals
  <2> QED
    BY <1>4, <2>1 DEF region_defs
<1>6. \A region \in {t.body, t.handler, t.orelse, t.final} : \A i \in ToSet(region) :
        v \in Fills(i) => v \in region_uses(region) \ region_moved(Regions(t))
  BY DEF FilledUsed
<1>7. v \in escape_cleanup(n, s) \/ v \in region_moved(Regions(t)) \/ v \in region_uses(t.final)
  BY <1>3, <1>5 DEF escape_cleanup
<1>8. CASE /\ s = t.body_end /\ b = t.body /\ mid = <<>>
           /\ E = region_cleanup_vars(t.body) \union escape_cleanup(n, s)
  <2>1. v \notin (region_moved(Regions(t)) \ region_moved(t.body)) \union region_uses(t.final)
    BY <1>3, <1>8 DEF EscapesDropped
  <2>2. f4.slot[v] = "held"
    <3>1. \A i \in ToSet(t.final) : v \notin Fills(i)
      BY <1>6, <2>1
    <3> HIDE DEF t
    <3> QED
      BY <1>1, <1>2, <3>1, RegionSlots
  <2>3. f2.slot[v] = "held"
    <3>1. f3 = f2
      BY <1>8, EmptyRegion
    <3> QED
      BY <1>1, <2>2, <3>1 DEF Cut
  <2>4. f1.slot[v] = "held" /\ v \notin E
    BY <1>1, <2>3 DEF Cut
  <2>5. v \in region_moved(t.body) /\ v \in region_moved(Regions(t))
    BY <1>7, <1>8, <2>1, <2>4
  <2>6. \A i \in ToSet(b) : v \notin Fills(i)
    BY <1>6, <1>8, <2>5
  <2> QED
    BY <1>2, <1>8, <2>4, <2>5, <2>6, RegionSlots
<1>9. CASE s = t.handler_end /\ t.handles /\ mid = t.handler /\ F = escape_cleanup(n, s)
  <2>1. v \notin (region_moved(Regions(t)) \ region_moved(t.handler)) \union region_uses(t.final)
    BY <1>3, <1>9 DEF EscapesDropped
  <2>2. f4.slot[v] = "held"
    <3>1. \A i \in ToSet(t.final) : v \notin Fills(i)
      BY <1>6, <2>1
    <3> HIDE DEF t
    <3> QED
      BY <1>1, <1>2, <3>1, RegionSlots
  <2>3. f3.slot[v] = "held" /\ v \notin F
    BY <1>1, <2>2 DEF Cut
  <2>4. v \in region_moved(mid) /\ v \in region_moved(Regions(t))
    BY <1>7, <1>9, <2>1, <2>3
  <2>5. \A i \in ToSet(mid) : v \notin Fills(i)
    BY <1>6, <1>9, <2>4
  <2> QED
    BY <1>2, <2>3, <2>4, <2>5, RegionSlots
<1> QED
  BY <1>8, <1>9 DEF Path

-----------------------------------------------------------------------------
(* The invariant.                                                          *)
StartFrame ==
  [slot |-> [v \in Vars |-> IF v \in fn.owned \union fn.borrowed THEN "held" ELSE "none"],
   bound |-> [v \in Vars |-> {}], stale |-> {}, bad |-> {}]
Started == phase \notin {"run", "done"} => pc = 0 /\ frame = StartFrame

(* In a sweep without changes the nodes behind the cursor are consistent,  *)
(* and all are when it is over.                                            *)
SweepConsistent ==
  Sweeping /\ ~changed => \A n \in Nodes : n >= cursor => live_in[n] = new_in(n)
LoansConsistent ==
  phase = "check" =>
    \A n \in Nodes : live_in[n] = transfer_liveness(fn.code[n], block_live_out(n))
DropsConsistent ==
  phase \in {"run", "done"} =>
    \A n \in Nodes :
      live_in[n] = transfer_drop_liveness(fn.code[n], block_live_out(n), Code)

(* There is a liveness by which a function without a try was accepted, and *)
(* the machine keeps to it.                                                *)
LoansKept ==
  Tries = {} /\ phase \in {"drops", "run"} =>
    \E L : Accepted(L) /\ Covered(L, frame, pc) /\ GroupsCovered(frame, pc)
NeverStale == Tries = {} => \A v : <<"stale", v>> \notin frame.bad

(* What is live and no local of a try has not been dropped, what is held   *)
(* is live, and no local is held between the nodes.                        *)
Seen == OwnLocals /\ EscapesSeen /\ OwnersSeen
AllNeeded == phase \in {"drops", "run", "done"} => \A n \in Nodes : LiveNeeded(live_in[n], n)
LiveFound == phase = "run" /\ Seen => LiveNotGone(pc)
NeverDropped == Seen => \A v : <<"dropped", v>> \notin frame.bad
HeldLive == phase = "run" /\ Straightforward => HeldVars \subseteq live_in[pc]
LocalsEnded == OwnLocals /\ RegionsClean => LocalsGone(frame)

Inv ==
  /\ Types /\ Started /\ SweepConsistent /\ LoansConsistent /\ DropsConsistent
  /\ LoansKept /\ NeverStale
  /\ AllNeeded /\ LiveFound /\ NeverDropped /\ HeldLive /\ LocalsEnded /\ NothingIsLost

LEMMA NoTries ==
  ASSUME Tries = {}
  PROVE  \A n \in Nodes : fn.code[n].op # "try"
BY DEF Tries

(* The function stays what it is.                                          *)
LEMMA SameFunction ==
  ASSUME fn' = fn
  PROVE  /\ Nodes' = Nodes /\ Code' = Code /\ Loans' = Loans /\ Tries' = Tries
         /\ Outliving' = Outliving
         /\ \A n : predecessors(n)' = predecessors(n)
         /\ \A v, n : Needed(v, n)' = Needed(v, n)
         /\ StartFrame' = StartFrame
BY DEF Nodes, Code, Loans, Tries, Outliving, predecessors, Needed, PassBy, FollowedIn,
       Follows, StartFrame, Escapes, Ends

LEMMA SameLoans ==
  ASSUME UNCHANGED <<fn, pc, frame>>
  PROVE  \A L : Accepted(L) /\ Covered(L, frame, pc) /\ GroupsCovered(frame, pc) =>
           (Accepted(L) /\ Covered(L, frame, pc) /\ GroupsCovered(frame, pc))'
<1>1. \A L : Accepted(L) => Accepted(L)'
  BY DEF Accepted, Nodes, Loans, Code, LoansOf, Out
<1>2. \A L : Covered(L, frame, pc) => Covered(L, frame, pc)'
  BY DEF Covered
<1>3. GroupsCovered(frame, pc) => GroupsCovered(frame, pc)'
  BY DEF GroupsCovered, FreshCovered, Nodes
<1> QED
  BY <1>1, <1>2, <1>3

LEMMA LoansKeptSame ==
  ASSUME UNCHANGED <<fn, pc, frame>>, LoansKept,
         phase' \in {"drops", "run"} => phase \in {"drops", "run"}
  PROVE  LoansKept'
BY SameFunction, SameLoans DEF LoansKept

(* What the properties leave out does not change while the machine runs.    *)
LEMMA SameStatic ==
  ASSUME fn' = fn
  PROVE  /\ OwnLocals' = OwnLocals /\ OwnersSeen' = OwnersSeen /\ RegionsClean' = RegionsClean
         /\ NoLeave' = NoLeave /\ Locals' = Locals
<1>1. Tries' = Tries /\ Nodes' = Nodes /\ Code' = Code
  BY SameFunction
<1>2. OwnLocals' = OwnLocals
  BY <1>1 DEF OwnLocals
<1>3. OwnersSeen' = OwnersSeen
  BY <1>1 DEF OwnersSeen, Escapes, Ends
<1>4. RegionsClean' = RegionsClean
  BY <1>1 DEF RegionsClean
<1>5. NoLeave' = NoLeave
  BY <1>1 DEF NoLeave, Ends, Raises
<1>6. Locals' = Locals
  BY <1>1 DEF Locals
<1> QED
  BY <1>2, <1>3, <1>4, <1>5, <1>6

LEMMA SameGuards ==
  ASSUME UNCHANGED <<fn, live_in>>
  PROVE  Seen' = Seen /\ Straightforward' = Straightforward
<1>1. /\ OwnLocals' = OwnLocals /\ OwnersSeen' = OwnersSeen /\ RegionsClean' = RegionsClean
      /\ NoLeave' = NoLeave
  BY SameStatic
<1>2. /\ Tries' = Tries /\ Nodes' = Nodes /\ Code' = Code
      /\ \A n : predecessors(n)' = predecessors(n)
  BY SameFunction
<1>3. /\ \A n : block_live_out(n)' = block_live_out(n)
      /\ \A n : live_after(n)' = live_after(n)
  BY <1>2 DEF live_after, block_live_out
<1>4. EscapesSeen' = EscapesSeen
  BY <1>2, <1>3 DEF EscapesSeen, Escapes, Ends
<1>5. ParametersUsed' = ParametersUsed
  BY DEF ParametersUsed
<1>6. WritebacksUsed' = WritebacksUsed
  BY <1>2, <1>3 DEF WritebacksUsed
<1>7. EscapesDropped' = EscapesDropped
  <2>1. ASSUME NEW s
        PROVE  entry_drops(s)' = entry_drops(s)
    <3>1. predecessors(s)' = predecessors(s) /\ fn.succ' = fn.succ
      BY <1>2
    <3>2. \A p : edge_dying(p, s)' = edge_dying(p, s)
      BY <1>3 DEF edge_dying, Droppable, is_droppable_root
    <3> QED
      BY <3>1, <3>2 DEF entry_drops
  <2>2. \A S : Droppable(S)' = Droppable(S)
    BY DEF Droppable, is_droppable_root
  <2> QED
    BY <1>2, <1>3, <2>1, <2>2 DEF EscapesDropped
<1> QED
  BY <1>1, <1>4, <1>5, <1>6, <1>7 DEF Seen, Straightforward

(* While the function is analysed the machine has not started.             *)
LEMMA NotStarted ==
  ASSUME UNCHANGED <<fn, pc, frame>>, Started, LocalsEnded, phase \notin {"run", "done"}
  PROVE  Started' /\ NeverStale' /\ NeverDropped' /\ LocalsEnded'
<1>1. StartFrame' = StartFrame /\ pc = 0 /\ frame = StartFrame
  BY SameFunction DEF Started
<1>2. frame.bad = {}
  BY <1>1 DEF StartFrame
<1>3. LocalsEnded'
  <2>1. OwnLocals' = OwnLocals /\ RegionsClean' = RegionsClean /\ Locals' = Locals
    BY SameStatic
  <2> QED
    BY <2>1 DEF LocalsEnded, LocalsGone
<1> QED
  BY <1>1, <1>2, <1>3 DEF Started, NeverStale, NeverDropped

LEMMA AnalysisTypes ==
  ASSUME Types, UNCHANGED <<fn, pc, frame>>,
         phase' \in {"loans", "check", "drops", "run", "rejected"}, cursor' \in 0 .. fn.size,
         changed' \in BOOLEAN, live_in' \in [Nodes -> SUBSET Vars]
  PROVE  Types'
<1>1. Nodes' = Nodes /\ Loans' = Loans
  BY DEF Nodes, Loans, Code
<1>2. Frame' = Frame
  <2>1. Begun' = Begun
    BY SameFunction DEF Begun, RegionInstrs
  <2> QED
    BY <2>1 DEF Frame
<1> QED
  BY <1>1, <1>2 DEF Types, OwnLoans

LEMMA VisitNodeStep ==
  ASSUME Inv, VisitNode
  PROVE  Inv'
<1> DEFINE c == cursor - 1
<1>1. /\ Sweeping /\ cursor' = c /\ live_in' = [live_in EXCEPT ![c] = new_in(c)]
      /\ changed' = (changed \/ live_in' # live_in) /\ UNCHANGED <<fn, phase, pc, frame>>
      /\ phase \in {"loans", "drops"}
  BY DEF VisitNode, Sweeping
<1>2. /\ c \in Nodes /\ c \in 0 .. fn.size /\ live_in \in [Nodes -> SUBSET Vars]
      /\ \A n \in Nodes : n >= c => n = c \/ n >= cursor
      /\ changed \in BOOLEAN
  <2>1. fn.size \in Nat /\ cursor \in 0 .. fn.size /\ cursor > 0
    BY FunctionFacts DEF Inv, Types, VisitNode
  <2> QED
    BY <2>1 DEF Nodes, Inv, Types
<1>4. block_live_out(c) \subseteq Vars
  BY <1>2, NodeFacts DEF Inv
<1>5. new_in(c) \subseteq Vars
  <2>1. /\ var_uses(fn.code[c]) \subseteq Vars /\ var_def(fn.code[c]) \subseteq Vars
        /\ loan_liveness_def(fn.code[c]) \subseteq Vars
    BY <1>2, NodeFacts DEF Inv
  <2>2. transfer_liveness(fn.code[c], block_live_out(c)) \subseteq Vars
    BY <1>4, <2>1 DEF transfer_liveness
  <2>3. transfer_drop_liveness(fn.code[c], block_live_out(c), Code) \subseteq Vars
    BY <1>4, <2>1, ExtendCloses DEF transfer_drop_liveness
  <2> QED
    BY <2>2, <2>3 DEF new_in
<1> HIDE DEF c
<1>6. live_in' \in [Nodes -> SUBSET Vars] /\ live_in'[c] = new_in(c)
      /\ \A n \in Nodes : n # c => live_in'[n] = live_in[n]
  BY <1>1, <1>2, <1>5
<1>7. changed' \in BOOLEAN
  BY <1>1, <1>2
<1>8. Types'
  BY <1>1, <1>2, <1>6, <1>7, AnalysisTypes DEF Inv
<1>9. Started' /\ NeverStale' /\ NeverDropped' /\ LocalsEnded'
  BY <1>1, NotStarted DEF Inv
<1>10. SweepConsistent'
  <2> SUFFICES ASSUME ~changed', NEW n \in Nodes, n >= c
               PROVE  live_in'[n] = new_in(n)'
    BY <1>1, SameFunction DEF SweepConsistent
  <2>1. ~changed /\ live_in' = live_in
    BY <1>1, <1>2
  <2>2. new_in(n)' = new_in(n)
    <3>1. fn' = fn /\ phase' = phase /\ live_in' = live_in
      BY <1>1, <2>1
    <3>2. Code' = Code /\ block_live_out(n)' = block_live_out(n)
      BY <3>1 DEF Code, Nodes, block_live_out
    <3> QED
      BY <3>1, <3>2 DEF new_in
  <2>3. n >= cursor => live_in[n] = new_in(n)
    BY <1>1, <2>1 DEF Inv, SweepConsistent
  <2> QED
    BY <1>2, <1>6, <2>1, <2>2, <2>3
<1>11. LoansConsistent' /\ DropsConsistent' /\ LiveFound' /\ HeldLive' /\ NothingIsLost'
  BY <1>1 DEF LoansConsistent, DropsConsistent, LiveFound, HeldLive, NothingIsLost
<1>12. LoansKept'
  BY <1>1, LoansKeptSame DEF Inv
<1>13. AllNeeded'
  <2>1. CASE phase = "loans"
    BY <1>1, <2>1 DEF AllNeeded
  <2>2. CASE phase = "drops"
    <3>1. \A n \in Nodes : LiveNeeded(live_in[n], n)
      BY <2>2 DEF Inv, AllNeeded
    <3>2. LiveNeeded(transfer_drop_liveness(fn.code[c], block_live_out(c), Code), c)
      BY <1>2, <3>1, NeededTransfer DEF Inv
    <3>3. LiveNeeded(live_in'[c], c)
      BY <1>6, <2>2, <3>2 DEF new_in
    <3>4. \A n \in Nodes : LiveNeeded(live_in'[n], n)
      BY <1>6, <3>1, <3>3
    <3> QED
      BY <1>1, <3>4, SameFunction DEF AllNeeded, LiveNeeded
  <2> QED
    BY <1>1, <2>1, <2>2
<1> QED
  BY <1>8, <1>9, <1>10, <1>11, <1>12, <1>13 DEF Inv

LEMMA NextSweepStep ==
  ASSUME Inv, NextSweep
  PROVE  Inv'
<1>1. /\ Sweeping /\ cursor' = fn.size /\ changed' = FALSE
      /\ UNCHANGED <<fn, phase, live_in, pc, frame>> /\ phase \in {"loans", "drops"}
  BY DEF NextSweep, Sweeping
<1>2. Types'
  <2>1. fn.size \in 0 .. fn.size /\ live_in \in [Nodes -> SUBSET Vars]
    BY FunctionFacts DEF Inv, Types
  <2> QED
    BY <1>1, <2>1, AnalysisTypes DEF Inv
<1>3. Started' /\ NeverStale' /\ NeverDropped' /\ LocalsEnded'
  BY <1>1, NotStarted DEF Inv
<1>4. SweepConsistent'
  <2>1. \A n \in Nodes : ~(n >= fn.size)
    BY FunctionFacts DEF Inv, Nodes
  <2> QED
    BY <1>1, <2>1, SameFunction DEF SweepConsistent
<1>5. LoansConsistent' /\ DropsConsistent' /\ LiveFound' /\ HeldLive' /\ NothingIsLost'
  BY <1>1 DEF LoansConsistent, DropsConsistent, LiveFound, HeldLive, NothingIsLost
<1>6. LoansKept'
  BY <1>1, LoansKeptSame DEF Inv
<1>7. AllNeeded'
  BY <1>1, SameFunction DEF Inv, AllNeeded, LiveNeeded
<1> QED
  BY <1>2, <1>3, <1>4, <1>5, <1>6, <1>7 DEF Inv

(* The sweeps of the loan analysis, or of the drop analysis, are over.     *)
LEMMA EndLoanFixpointStep ==
  ASSUME Inv, EndLoanFixpoint
  PROVE  Inv'
<1>1. /\ phase = "loans" /\ cursor = 0 /\ ~changed /\ phase' = "check"
      /\ UNCHANGED <<fn, cursor, changed, live_in, pc, frame>>
  BY DEF EndLoanFixpoint
<1>2. Types'
  BY <1>1, AnalysisTypes DEF Inv, Types
<1>3. Started' /\ NeverStale' /\ NeverDropped' /\ LocalsEnded'
  BY <1>1, NotStarted DEF Inv
<1>4. LoansConsistent'
  <2>1. \A n \in Nodes : n >= 0
    BY FunctionFacts DEF Inv
  <2>2. \A n \in Nodes : live_in[n] = transfer_liveness(fn.code[n], block_live_out(n))
    BY <1>1, <2>1 DEF Inv, SweepConsistent, Sweeping, new_in
  <2>3. \A n \in Nodes : block_live_out(n)' = block_live_out(n)
    BY <1>1 DEF block_live_out
  <2> QED
    BY <1>1, <2>2, <2>3, SameFunction DEF LoansConsistent
<1>5. SweepConsistent' /\ DropsConsistent' /\ LiveFound' /\ HeldLive' /\ NothingIsLost'
  BY <1>1 DEF SweepConsistent, Sweeping, DropsConsistent, LiveFound, HeldLive, NothingIsLost
<1>6. LoansKept' /\ AllNeeded'
  BY <1>1 DEF LoansKept, AllNeeded
<1> QED
  BY <1>2, <1>3, <1>4, <1>5, <1>6 DEF Inv

LEMMA EndDropFixpointStep ==
  ASSUME Inv, EndDropFixpoint
  PROVE  Inv'
<1>1. /\ phase = "drops" /\ cursor = 0 /\ ~changed /\ phase' = "run"
      /\ UNCHANGED <<fn, cursor, changed, live_in, pc, frame>>
  BY DEF EndDropFixpoint
<1>2. pc = 0 /\ frame = StartFrame /\ StartFrame' = StartFrame /\ 0 \in Nodes
  BY <1>1, SameFunction, FunctionFacts DEF Inv, Started
<1>3. Types'
  BY <1>1, AnalysisTypes DEF Inv, Types
<1>4. NeverStale' /\ NeverDropped' /\ LocalsEnded'
  BY <1>1, NotStarted DEF Inv
<1>5. DropsConsistent'
  <2>1. \A n \in Nodes : n >= 0
    BY FunctionFacts DEF Inv
  <2>2. \A n \in Nodes :
          live_in[n] = transfer_drop_liveness(fn.code[n], block_live_out(n), Code)
    BY <1>1, <2>1 DEF Inv, SweepConsistent, Sweeping, new_in
  <2>3. \A n \in Nodes : block_live_out(n)' = block_live_out(n)
    BY <1>1 DEF block_live_out
  <2> QED
    BY <1>1, <2>2, <2>3, SameFunction DEF DropsConsistent
<1>6. Started' /\ SweepConsistent' /\ LoansConsistent'
  BY <1>1 DEF SweepConsistent, Sweeping, LoansConsistent, Started
<1>7. LoansKept'
  BY <1>1, LoansKeptSame DEF Inv
<1>8. AllNeeded'
  BY <1>1, SameFunction DEF Inv, AllNeeded, LiveNeeded
<1>9. /\ \A v \in Vars :
           frame.slot[v] = IF v \in fn.owned \union fn.borrowed THEN "held" ELSE "none"
      /\ frame.bad = {}
  BY <1>2 DEF StartFrame
<1>10. LiveFound'
  <2>1. live_in[pc] \subseteq Vars
    BY DEF Inv, Types
  <2> QED
    BY <1>1, <1>9, <2>1 DEF LiveFound, LiveNotGone
<1>11. HeldLive'
  <2> SUFFICES ASSUME Straightforward'
               PROVE  HeldVars' \subseteq live_in'[pc']
    BY DEF HeldLive
  <2>1. fn.owned \subseteq live_in[0]
    BY <1>1 DEF Straightforward, ParametersUsed
  <2>2. \A v \in HeldVars' : v \in fn.owned
    BY <1>1, <1>9 DEF HeldVars, is_droppable_root
  <2> QED
    BY <1>1, <1>2, <2>1, <2>2
<1>12. NothingIsLost'
  BY <1>1, <1>9 DEF NothingIsLost, Has
<1> QED
  BY <1>3, <1>4, <1>5, <1>6, <1>7, <1>8, <1>10, <1>11, <1>12 DEF Inv

LEMMA AcceptLoansStep ==
  ASSUME Inv, AcceptLoans
  PROVE  Inv'
<1>1. /\ phase = "check" /\ Conflicting = {} /\ phase' = "drops" /\ cursor' = fn.size
      /\ live_in' = NothingLive /\ UNCHANGED <<fn, changed, pc, frame>>
  BY DEF AcceptLoans
<1>2. pc = 0 /\ frame = StartFrame
  BY <1>1 DEF Inv, Started
<1>3. Types'
  <2>1. fn.size \in 0 .. fn.size /\ NothingLive \in [Nodes -> SUBSET Vars]
    BY FunctionFacts DEF Inv, NothingLive
  <2> QED
    BY <1>1, <2>1, AnalysisTypes DEF Inv, Types
<1>4. Started' /\ NeverStale' /\ NeverDropped' /\ LocalsEnded'
  BY <1>1, NotStarted DEF Inv
<1>5. SweepConsistent'
  <2>1. \A n \in Nodes : ~(n >= fn.size)
    BY FunctionFacts DEF Inv, Nodes
  <2> QED
    BY <1>1, <2>1, SameFunction DEF SweepConsistent
<1>6. LoansConsistent' /\ DropsConsistent' /\ LiveFound' /\ HeldLive' /\ NothingIsLost'
  BY <1>1 DEF LoansConsistent, DropsConsistent, LiveFound, HeldLive, NothingIsLost
<1>7. LoansKept'
  <2> SUFFICES ASSUME Tries = {}
               PROVE  \E L : (Accepted(L) /\ Covered(L, frame, pc) /\ GroupsCovered(frame, pc))'
    BY <1>1, SameFunction DEF LoansKept
  <2>1. Accepted(live_in)
    <3>1. \A n \in Nodes : live_in[n] = transfer_liveness(fn.code[n], Out(live_in, n))
      BY <1>1 DEF Inv, LoansConsistent, Out, block_live_out
    <3>2. \A n \in Nodes : ~conflicts(fn.code[n], live_in[n], Loans)
      BY <1>1 DEF Conflicting
    <3> QED
      BY <3>1, <3>2 DEF Accepted, Inv, Types
  <2>2. frame.stale = {} /\ \A r \in Vars : frame.bound[r] = {}
    BY <1>2 DEF StartFrame
  <2>3. Covered(live_in, frame, pc)
    <3>1. live_in[pc] \subseteq Vars /\ (fn.code[pc].op = "loan" => fn.code[pc].thru \in Vars)
      BY NoTries, FunctionFacts, InstrFacts DEF Inv, Types
    <3> QED
      BY <2>2, <3>1 DEF Covered, Apart
  <2>4. GroupsCovered(frame, pc)
    <3>1. \A r \in Vars : Single(fn, r) \/ Grouped(fn, r)
      BY FunctionFacts DEF Inv
    <3> QED
      BY <2>2, <3>1 DEF GroupsCovered, FreshCovered, Grouped, Nodes
  <2> QED
    BY <1>1, <2>1, <2>3, <2>4, SameLoans
<1>8. AllNeeded'
  <2>1. Nodes' = Nodes /\ \A n \in Nodes : live_in'[n] = {}
    BY <1>1, SameFunction DEF NothingLive
  <2> QED
    BY <2>1 DEF AllNeeded, LiveNeeded
<1> QED
  BY <1>3, <1>4, <1>5, <1>6, <1>7, <1>8 DEF Inv

LEMMA RejectLoansStep ==
  ASSUME Inv, RejectLoans
  PROVE  Inv'
<1>1. /\ phase = "check" /\ phase' = "rejected"
      /\ UNCHANGED <<fn, cursor, changed, live_in, pc, frame>>
  BY DEF RejectLoans
<1>2. Types'
  BY <1>1, AnalysisTypes DEF Inv, Types
<1>3. Started' /\ NeverStale' /\ NeverDropped' /\ LocalsEnded'
  BY <1>1, NotStarted DEF Inv
<1>4. SweepConsistent' /\ LoansConsistent' /\ DropsConsistent' /\ LiveFound' /\ HeldLive'
  BY <1>1 DEF SweepConsistent, Sweeping, LoansConsistent, DropsConsistent, LiveFound, HeldLive
<1>5. LoansKept' /\ AllNeeded' /\ NothingIsLost'
  BY <1>1 DEF LoansKept, AllNeeded, NothingIsLost
<1> QED
  BY <1>2, <1>3, <1>4, <1>5 DEF Inv

-----------------------------------------------------------------------------
(* The machine.  A step executes a node with one of its effects, and then  *)
(* destroys what has been inserted.                                        *)
After(f, g, S) == Cut(f, g, S) /\ g.bound = f.bound /\ g.stale = f.stale

LEMMA AfterDrop ==
  ASSUME NEW f \in Frame, OwnLoans(f), NEW S
  PROVE  After(f, f, {}) /\ After(f, DropVars(f, S), S)
BY DropFacts DEF After, Cut

(* What the machine knows before a node.                                   *)
LEMMA RunFacts ==
  ASSUME Inv, phase = "run"
  PROVE  /\ pc \in Nodes /\ frame \in Frame /\ OwnLoans(frame) /\ IsInstr(fn.code[pc])
         /\ fn.code[pc] \in Code
         /\ live_in[pc] = transfer_drop_liveness(fn.code[pc], block_live_out(pc), Code)
         /\ live_in[pc] \subseteq Vars /\ block_live_out(pc) \subseteq Vars
         /\ Seen => LiveNotGone(pc)
<1>1. pc \in Nodes /\ frame \in Frame /\ OwnLoans(frame) /\ live_in[pc] \subseteq Vars
  BY DEF Inv, Types
<1>2. live_in[pc] = transfer_drop_liveness(fn.code[pc], block_live_out(pc), Code)
  BY <1>1 DEF Inv, DropsConsistent
<1>3. IsInstr(fn.code[pc]) /\ fn.code[pc] \in Code /\ block_live_out(pc) \subseteq Vars
  BY <1>1, FunctionFacts, NodeFacts DEF Inv
<1>4. Seen => LiveNotGone(pc)
  BY DEF Inv, LiveFound
<1> QED
  BY <1>1, <1>2, <1>3, <1>4

LEMMA PlainEffect ==
  ASSUME Inv, phase = "run", pc \notin Tries, NEW e \in Effects(frame, pc)
  PROVE  LET i == fn.code[pc] IN
         /\ i.op # "try" /\ i.var \in Vars
         /\ e[1] = exec_instr(frame, i) /\ e[2] = Fall
         /\ e[1] \in Frame /\ OwnLoans(e[1]) /\ e[1].slot = exec_slot(frame, i)
         /\ e[1].bad = frame.bad \union Wrong(frame, i)
<1> DEFINE i == fn.code[pc]
<1>1. i.op # "try" /\ IsInstr(i) /\ i \in Code /\ frame \in Frame /\ OwnLoans(frame)
  BY RunFacts DEF Tries
<1>2. Effects(frame, pc) = {<<exec_instr(frame, i), Fall>>}
  BY <1>1 DEF Effects
<1>3. e[1] = exec_instr(frame, i) /\ e[2] = Fall
  BY <1>2
<1> HIDE DEF i
<1>4. /\ i.var \in Vars /\ exec_instr(frame, i) \in Frame /\ OwnLoans(exec_instr(frame, i))
      /\ exec_instr(frame, i).slot = exec_slot(frame, i)
      /\ exec_instr(frame, i).bad = frame.bad \union Wrong(frame, i)
  BY <1>1, InstrFacts, ExecFacts DEF Inv
<1> QED
  BY <1>1, <1>3, <1>4 DEF i

LEMMA TryEffect ==
  ASSUME Inv, phase = "run", pc \in Tries, NEW e \in Effects(frame, pc)
  PROVE  /\ \E b, mid, E, F, f2, f4 : Path(frame, pc, e, b, mid, E, F, f2, f4)
         /\ e[1] \in Frame /\ OwnLoans(e[1])
         /\ var_def(fn.code[pc]) = {} /\ var_moved(fn.code[pc]) = {}
         /\ e[2] \in Ends(fn.code[pc]) \/ (e[2] = Leave /\ Raises(fn.code[pc]) # {}
                                             /\ ~fn.code[pc].handles)
<1>1. Types /\ frame \in Frame /\ OwnLoans(frame)
  BY DEF Inv, Types
<1>2. PICK b, mid, E, F, f2, f4 : Path(frame, pc, e, b, mid, E, F, f2, f4)
  BY <1>1, TryPath
<1>3. e[1] \in Frame /\ OwnLoans(e[1])
  BY <1>1, <1>2, PathTyped
<1>4. var_def(fn.code[pc]) = {} /\ var_moved(fn.code[pc]) = {}
  BY <1>1, TryFacts DEF var_def, var_moved
<1>5. e[2] \in Ends(fn.code[pc]) \/ (e[2] = Leave /\ Raises(fn.code[pc]) # {}
                                             /\ ~fn.code[pc].handles)
  BY <1>2 DEF Path
<1> QED
  BY <1>2, <1>3, <1>4, <1>5

(* Nothing is read that was dropped, nor by a reference that is stale.     *)
LEMMA PlainReads ==
  ASSUME Inv, phase = "run", pc \notin Tries
  PROVE  /\ Seen => \A v \in Reads(frame, fn.code[pc]) : frame.slot[v] # "gone"
         /\ Tries = {} => References(fn.code[pc]) \cap frame.stale = {}
<1> DEFINE i == fn.code[pc]
<1>1. i.op # "try" /\ IsInstr(i) /\ pc \in Nodes /\ i.var \in Vars
  BY RunFacts, InstrFacts DEF Tries
<1>2. ASSUME Seen, NEW v \in Reads(frame, i)
      PROVE  frame.slot[v] # "gone"
  <2>1. Begun = Loans /\ OwnersSeen /\ OwnLocals
    BY <1>2, BegunFacts DEF Seen, Inv
  <2>2. v \in live_in[pc]
    BY <1>1, <1>2, <2>1, RunFacts, ReadsLive DEF Inv
  <2>3. v \notin Locals
    <3>1. frame \in Frame /\ OwnLoans(frame) /\ Reads(frame, i) \subseteq NeedsOf(i)
      BY <1>1, <2>1, RunFacts, ReadsNeeded DEF Inv
    <3>2. plain_uses(i) \cap Locals = {}
      BY <1>1, <2>1, NamesHold, LocalFacts DEF Inv
    <3>3. \A r : roots_of(Code, r) \cap Locals = {}
      <4>1. \A r : roots_of(Code, r) \subseteq Outliving
        BY LoanFacts DEF Inv
      <4>2. Locals \cap Outliving = {}
        BY <2>1, LocalFacts DEF Inv
      <4> QED
        BY <4>1, <4>2
    <3> QED
      BY <1>2, <3>1, <3>2, <3>3 DEF NeedsOf
  <2> QED
    BY <1>2, <2>2, <2>3, RunFacts DEF LiveNotGone
<1>3. ASSUME Tries = {}
      PROVE  References(i) \cap frame.stale = {}
  <2>1. PICK L : Accepted(L) /\ Covered(L, frame, pc)
    BY <1>3 DEF Inv, LoansKept
  <2> QED
    BY <1>1, <2>1, RunFacts, NoneStale DEF Inv
<1> QED
  BY <1>2, <1>3

LEMMA NothingWrong ==
  ASSUME Inv, phase = "run", pc \notin Tries
  PROVE  \A v : /\ Tries = {} => <<"stale", v>> \notin Wrong(frame, fn.code[pc])
                /\ Seen => <<"dropped", v>> \notin Wrong(frame, fn.code[pc])
                /\ <<"lost", v>> \in Wrong(frame, fn.code[pc]) =>
                     v = fn.code[pc].var /\ fn.code[pc].op = "def" /\ frame.slot[v] = "held"
<1> DEFINE i == fn.code[pc]
<1>1. /\ Tries = {} => References(i) \cap frame.stale = {}
      /\ Seen => \A v \in Reads(frame, i) : frame.slot[v] # "gone"
  BY PlainReads
<1> HIDE DEF i
<1> SUFFICES ASSUME NEW v, NEW w, <<w, v>> \in Wrong(frame, i)
             PROVE  /\ Tries = {} => w # "stale"
                    /\ Seen => w # "dropped"
                    /\ w = "lost" => v = i.var /\ i.op = "def" /\ frame.slot[v] = "held"
  BY DEF i
<1>2. PICK what \in Faults :
        /\ <<w, v>> = <<what, i.var>>
        /\ what = "dropped" => \E u \in Reads(frame, i) : frame.slot[u] = "gone"
        /\ what = "lost" => i.op = "def" /\ frame.slot[i.var] = "held"
        /\ what = "stale" => References(i) \cap frame.stale # {}
  BY WrongFacts
<1> QED
  BY <1>1, <1>2

LEMMA EffectSafe ==
  ASSUME Inv, phase = "run", NEW e \in Effects(frame, pc)
  PROVE  /\ e[1] \in Frame /\ OwnLoans(e[1])
         /\ Tries = {} => \A v : <<"stale", v>> \notin e[1].bad
         /\ Seen => \A v : <<"dropped", v>> \notin e[1].bad
<1>1. /\ Tries = {} => \A v : <<"stale", v>> \notin frame.bad
      /\ Seen => \A v : <<"dropped", v>> \notin frame.bad
  BY DEF Inv, NeverStale, NeverDropped
<1>2. CASE pc \notin Tries
  BY <1>1, <1>2, PlainEffect, NothingWrong
<1>3. CASE pc \in Tries
  <2>1. PICK b, mid, E, F, f2, f4 : Path(frame, pc, e, b, mid, E, F, f2, f4)
    BY <1>3, TryEffect
  <2>2. e[1] \in Frame /\ OwnLoans(e[1])
    BY <1>3, TryEffect
  <2>3. ASSUME Seen
        PROVE  \A v : <<"dropped", v>> \in e[1].bad => <<"dropped", v>> \in frame.bad
    <3>1. OwnLocals /\ OwnersSeen /\ Types /\ LiveNotGone(pc)
      BY <2>3, RunFacts DEF Seen, Inv
    <3> QED
      BY <1>3, <2>1, <3>1, RunFacts, TryReads
  <2> QED
    BY <1>1, <1>3, <2>2, <2>3
<1> QED
  BY <1>2, <1>3

(* What is live behind a node has not been dropped.                        *)
LEMMA EffectFound ==
  ASSUME Inv, phase = "run", Seen, NEW e \in Effects(frame, pc), NEW v \in Vars \ Locals
  PROVE  /\ e[2] = Fall /\ v \in block_live_out(pc) => e[1].slot[v] # "gone"
         /\ e[2] \in Nodes /\ v \in live_in[e[2]] => e[1].slot[v] # "gone"
<1> DEFINE i == fn.code[pc]
<1>1. /\ live_in[pc] = transfer_drop_liveness(i, block_live_out(pc), Code) /\ pc \in Nodes
      /\ LiveNotGone(pc) /\ block_live_out(pc) \subseteq Vars /\ frame \in Frame
  BY RunFacts
<1>2. block_live_out(pc) \ var_def(i) \subseteq live_in[pc] /\ RootsIn(live_in[pc], Code)
      /\ live_in[pc] \subseteq Vars
  BY <1>1, RunFacts, DropLive DEF Inv
<1>3. Fall \notin Nodes
  BY EndNodes DEF Inv
<1>4. CASE pc \notin Tries
  <2>1. e[2] = Fall /\ e[1].slot = exec_slot(frame, i) /\ i.var \in Vars
    BY <1>4, PlainEffect
  <2>2. frame.slot \in [Vars -> Slots]
    BY <1>1 DEF Frame
  <2>3. v \in var_def(i) => exec_slot(frame, i)[v] = "held"
    <3>1. v \in var_def(i) => v \in Fills(i)
      BY DEF var_def, Fills
    <3> HIDE DEF i
    <3> QED
      BY <2>2, <3>1, SlotAfter
  <2>4. frame.slot[v] # "gone" => exec_slot(frame, i)[v] # "gone"
    <3> HIDE DEF i
    <3> QED
      BY <2>2, SlotAfter
  <2>5. v \in block_live_out(pc) /\ v \notin var_def(i) => frame.slot[v] # "gone"
    BY <1>1, <1>2 DEF LiveNotGone
  <2> QED
    BY <1>3, <2>1, <2>3, <2>4, <2>5
<1>5. CASE pc \in Tries
  <2>1. PICK b, mid, E, F, f2, f4 : Path(frame, pc, e, b, mid, E, F, f2, f4)
    BY <1>5, TryEffect
  <2>2. var_def(i) = {} /\ OwnLocals /\ EscapesSeen
    BY <1>5, TryEffect DEF Seen
  <2>3. ASSUME v \in live_in[pc], e[2] \in Nodes => v \in live_in[e[2]]
        PROVE  e[1].slot[v] # "gone"
    BY <1>1, <1>5, <2>1, <2>2, <2>3, TryFound DEF Inv
  <2>4. live_after(pc) \subseteq live_in[pc]
    BY <1>1, <1>2, <2>2 DEF live_after, extend_with_loan_roots
  <2>5. e[2] \in Nodes => live_in[e[2]] \subseteq live_after(pc)
    <3>1. Leave \notin Nodes /\ (e[2] \in Ends(i) \/ e[2] = Leave)
      BY <1>5, TryEffect, EndNodes DEF Inv
    <3> QED
      BY <1>5, <2>2, <3>1 DEF EscapesSeen, Escapes
  <2> QED
    BY <1>2, <1>3, <2>2, <2>3, <2>4, <2>5
<1> QED
  BY <1>4, <1>5

(* No local of a try is left by a node.                                    *)
LEMMA EffectEndsLocals ==
  ASSUME Inv, phase = "run", NEW e \in Effects(frame, pc), OwnLocals, RegionsClean
  PROVE  LocalsGone(e[1])
<1>1. LocalsGone(frame) /\ Types /\ frame \in Frame /\ OwnLoans(frame)
  BY RunFacts DEF Inv, LocalsEnded
<1>2. CASE pc \notin Tries
  <2>1. fn.code[pc].op # "try" /\ e[1].slot = exec_slot(frame, fn.code[pc])
    BY <1>2, PlainEffect
  <2>2. Locals \cap PlainNames(fn.code[pc]) = {} /\ Locals \subseteq Vars
    BY <1>1, <2>1, RunFacts, LocalFacts
  <2>3. frame.slot \in [Vars -> Slots]
    BY <1>1 DEF Frame
  <2>4. \A v \in Locals : exec_slot(frame, fn.code[pc])[v] = frame.slot[v]
    BY <2>2, <2>3, SlotAfter
  <2> QED
    BY <1>1, <2>1, <2>4 DEF LocalsGone
<1>3. CASE pc \in Tries
  <2>1. PICK b, mid, E, F, f2, f4 : Path(frame, pc, e, b, mid, E, F, f2, f4)
    BY <1>3, TryEffect
  <2> QED
    BY <1>1, <1>3, <2>1, TryLocalsGone
<1> QED
  BY <1>2, <1>3

(* Where every value is live, none is overwritten.                         *)
LEMMA EffectLosesNothing ==
  ASSUME Inv, phase = "run", NEW e \in Effects(frame, pc), Straightforward,
         NEW v \in Droppable(Vars \ Outliving)
  PROVE  <<"lost", v>> \notin e[1].bad
<1>1. <<"lost", v>> \notin frame.bad
  BY DEF Inv, NothingIsLost, Has
<1>2. CASE pc \notin Tries
  <2>1. e[1].bad = frame.bad \union Wrong(frame, fn.code[pc])
    BY <1>2, PlainEffect
  <2>2. ASSUME fn.code[pc].op = "def", frame.slot[v] = "held", v = fn.code[pc].var
        PROVE  FALSE
    <3>1. v \in HeldVars
      BY <2>2 DEF HeldVars, Droppable
    <3>2. v \in live_in[pc] \ Outliving
      BY <3>1 DEF Inv, HeldLive, Droppable
    <3>3. v \in (block_live_out(pc) \ var_def(fn.code[pc])) \union var_uses(fn.code[pc])
      BY <3>2, RunFacts, DropLive DEF Inv
    <3>4. var_def(fn.code[pc]) = {v} /\ var_uses(fn.code[pc]) = {}
      BY <2>2 DEF var_def, var_uses, plain_uses, PlaceOps
    <3> QED
      BY <3>3, <3>4
  <2> QED
    BY <1>1, <1>2, <2>1, <2>2, NothingWrong
<1>3. CASE pc \in Tries
  <2>1. PICK b, mid, E, F, f2, f4 : Path(frame, pc, e, b, mid, E, F, f2, f4)
    BY <1>3, TryEffect
  <2>2. /\ OwnLocals /\ RegionsClean /\ Types /\ LocalsGone(frame)
        /\ frame \in Frame /\ OwnLoans(frame)
    BY RunFacts DEF Straightforward, Inv, LocalsEnded
  <2> QED
    BY <1>1, <1>3, <2>1, <2>2, TryLosesNothing
<1> QED
  BY <1>2, <1>3

(* What is held behind a node and its own drops is live there, or dropped  *)
(* where it goes.                                                          *)
LEMMA LiveBehind ==
  ASSUME Inv, phase = "run", NEW v \in Vars \ Outliving, is_droppable_root(v)
  PROVE  /\ v \in live_after(pc) <=> v \in block_live_out(pc)
         /\ v \in live_in[pc] =>
              v \in (block_live_out(pc) \ var_def(fn.code[pc])) \union var_uses(fn.code[pc])
         /\ /\ v \in var_uses(fn.code[pc]) \union var_def(fn.code[pc])
            /\ v \notin var_moved(fn.code[pc]) /\ v \notin last_use_drops(pc)
            => v \in block_live_out(pc)
<1>1. v \in live_after(pc) <=> v \in block_live_out(pc)
  <2>1. Outliving \in SUBSET Vars /\ \A r : roots_of(Code, r) \subseteq Outliving
    BY LoanFacts DEF Inv
  <2>2. /\ live_after(pc) \subseteq block_live_out(pc) \union Outliving
        /\ block_live_out(pc) \subseteq live_after(pc)
    BY <2>1, RunFacts, ExtendAddsOwners, ExtendCloses DEF live_after
  <2> QED
    BY <2>2
<1>2. v \in live_in[pc] =>
        v \in (block_live_out(pc) \ var_def(fn.code[pc])) \union var_uses(fn.code[pc])
  BY RunFacts, DropLive DEF Inv
<1>3. /\ v \in var_uses(fn.code[pc]) \union var_def(fn.code[pc])
      /\ v \notin var_moved(fn.code[pc]) /\ v \notin last_use_drops(pc)
      => v \in live_after(pc)
  BY DEF last_use_drops, Droppable
<1> QED
  BY <1>1, <1>2, <1>3

LEMMA EffectHeld ==
  ASSUME Inv, phase = "run", NEW e \in Effects(frame, pc), Straightforward,
         NEW v \in Vars \ Outliving, is_droppable_root(v), e[1].slot[v] = "held"
  PROVE  /\ e[2] = Fall /\ v \notin last_use_drops(pc) => v \in block_live_out(pc)
         /\ e[2] \in Nodes => v \in live_in[e[2]] \union entry_drops(e[2])
<1> DEFINE i == fn.code[pc]
<1>1. frame \in Frame /\ OwnLoans(frame) /\ Types /\ Fall \notin Nodes /\ pc \in Nodes
  BY RunFacts, EndNodes DEF Inv
<1>2. frame.slot[v] = "held" => v \in live_in[pc]
  BY DEF HeldVars, Inv, HeldLive
<1>3. CASE pc \notin Tries
  <2>1. /\ i.op # "try" /\ i.var \in Vars /\ e[2] = Fall /\ e[1].slot = exec_slot(frame, i)
        /\ frame.slot \in [Vars -> Slots]
    BY <1>1, <1>3, PlainEffect DEF Frame
  <2>2. ASSUME v \notin last_use_drops(pc)
        PROVE  v \in block_live_out(pc)
    <3>1. CASE i.op = "writeback" /\ v = i.var
      <4>1. v \in live_after(pc)
        BY <1>1, <3>1 DEF Straightforward, WritebacksUsed
      <4> QED
        BY <4>1, LiveBehind
    <3>2. CASE v \in var_uses(i) \union var_def(i)
      <4>1. v \notin var_moved(i)
        BY <2>1 DEF var_moved, exec_slot
      <4> QED
        BY <2>2, <3>2, <4>1, LiveBehind
    <3>3. CASE v \notin var_uses(i) \union var_def(i) /\ ~(i.op = "writeback" /\ v = i.var)
      <4>1. frame.slot[v] = "held"
        BY <2>1, <3>3 DEF exec_slot, var_def
      <4> QED
        BY <1>2, <3>3, <4>1, LiveBehind
    <3> QED
      BY <3>1, <3>2, <3>3
  <2> QED
    BY <1>1, <2>1, <2>2
<1>4. CASE pc \in Tries
  <2>1. PICK b, mid, E, F, f2, f4 : Path(frame, pc, e, b, mid, E, F, f2, f4)
    BY <1>4, TryEffect
  <2>2. OwnLocals /\ RegionsClean /\ WritebacksUsed /\ EscapesDropped
    BY DEF Straightforward
  <2>3. v \notin Locals
    BY <2>2, EffectEndsLocals DEF LocalsGone
  <2>4. FilledUsed
    BY <1>1, <2>2, FillsAreUses
  <2>5. frame.slot[v] = "held" \/ v \in var_uses(i)
    BY <1>1, <1>4, <2>1, <2>2, <2>3, <2>4, TryHeldUsed
  <2>6. v \in block_live_out(pc) \/ v \in var_uses(i)
    BY <1>2, <2>5, LiveBehind
  <2>7. e[2] = Fall /\ v \notin last_use_drops(pc) => v \in block_live_out(pc)
    <3>1. var_moved(i) = {}
      BY <1>4, TryEffect
    <3> QED
      BY <2>6, <3>1, LiveBehind
  <2>8. ASSUME e[2] \in Nodes
        PROVE  v \in live_in[e[2]] \union entry_drops(e[2])
    <3>1. v \in live_after(pc) \union var_uses(i)
      BY <2>6, LiveBehind
    <3> QED
      BY <1>1, <1>4, <2>1, <2>2, <2>3, <2>4, <2>8, <3>1, EscapeDrops
  <2> QED
    BY <2>7, <2>8
<1> QED
  BY <1>3, <1>4

(* What every step of the machine keeps.                                   *)
LEMMA MachineKeeps ==
  ASSUME Inv, phase = "run", NEW e \in Effects(frame, pc), NEW S, After(e[1], frame', S),
         pc' \in Nodes, phase' \in {"run", "done"}, UNCHANGED <<fn, cursor, changed, live_in>>
  PROVE  /\ Types' /\ Started' /\ SweepConsistent' /\ LoansConsistent' /\ DropsConsistent'
         /\ AllNeeded' /\ NeverStale' /\ NeverDropped' /\ LocalsEnded'
         /\ Straightforward' => ~Has("lost", Droppable(Vars \ Outliving))'
<1>1. /\ frame' \in Frame /\ OwnLoans(frame') /\ frame'.bad = e[1].bad
      /\ \A v \in Vars : frame'.slot[v] =
           IF v \in S /\ e[1].slot[v] = "held" THEN "gone" ELSE e[1].slot[v]
  BY DEF After, Cut
<1>2. Nodes' = Nodes /\ Loans' = Loans /\ Code' = Code /\ Tries' = Tries
  BY SameFunction
<1>3. Types'
  <2>1. Begun' = Begun
    BY <1>2 DEF Begun, RegionInstrs
  <2>2. Frame' = Frame
    BY <2>1 DEF Frame
  <2>3. OwnLoans(frame)'
    BY <1>1 DEF OwnLoans
  <2> QED
    BY <1>1, <1>2, <2>2, <2>3 DEF Inv, Types
<1>4. Started' /\ SweepConsistent' /\ LoansConsistent'
  BY DEF Started, SweepConsistent, Sweeping, LoansConsistent
<1>5. DropsConsistent'
  <2>1. \A n : block_live_out(n)' = block_live_out(n)
    BY DEF block_live_out
  <2> QED
    BY <1>2, <2>1 DEF Inv, DropsConsistent
<1>6. AllNeeded'
  BY SameFunction DEF Inv, AllNeeded, LiveNeeded
<1>7. NeverStale' /\ NeverDropped'
  BY <1>1, <1>2, EffectSafe, SameGuards DEF NeverStale, NeverDropped
<1>8. LocalsEnded'
  <2> SUFFICES ASSUME OwnLocals, RegionsClean, NEW v \in Locals
               PROVE  frame'.slot[v] # "held"
    BY SameStatic DEF LocalsEnded, LocalsGone
  <2>1. v \in Vars /\ e[1].slot[v] # "held"
    BY EffectEndsLocals, LocalFacts DEF LocalsGone, Inv
  <2> QED
    BY <1>1, <2>1
<1>9. ASSUME Straightforward', Has("lost", Droppable(Vars \ Outliving))'
      PROVE  FALSE
  <2>1. Straightforward
    BY <1>9, SameGuards
  <2>2. Droppable(Vars \ Outliving)' = Droppable(Vars \ Outliving)
    BY SameFunction DEF Droppable, is_droppable_root
  <2>3. PICK v \in Droppable(Vars \ Outliving) : <<"lost", v>> \in frame'.bad
    BY <1>9, <2>2 DEF Has
  <2> QED
    BY <1>1, <2>1, <2>3, EffectLosesNothing
<1> QED
  BY <1>3, <1>4, <1>5, <1>6, <1>7, <1>8, <1>9

(* A step goes on to a successor, or escapes from a try.                   *)
Taken(e, s, S) ==
  /\ After(e[1], frame', S)
  /\ \/ e[2] = Fall /\ s \in fn.succ[pc] /\ S = GotoDrops(pc, s)
     \/ e[2] = s /\ S = entry_drops(s)

LEMMA StepForm ==
  ASSUME Inv, NEW s \in Nodes, Step(s)
  PROVE  /\ phase = "run" /\ pc' = s /\ UNCHANGED <<fn, phase, cursor, changed, live_in>>
         /\ \E e \in Effects(frame, pc) : \E S : Taken(e, s, S)
<1>1. /\ phase = "run" /\ pc' = s /\ UNCHANGED <<fn, phase, cursor, changed, live_in>>
  BY DEF Step
<1>2. PICK e \in Effects(frame, pc) :
        \/ e[2] = Fall /\ s \in fn.succ[pc] /\ frame' = DropVars(e[1], GotoDrops(pc, s))
        \/ e[2] = s /\ frame' = DropVars(e[1], entry_drops(s))
  BY DEF Step, Goto, GotoDrops
<1>3. e[1] \in Frame /\ OwnLoans(e[1])
  BY <1>1, EffectSafe
<1>4. /\ After(e[1], DropVars(e[1], GotoDrops(pc, s)), GotoDrops(pc, s))
      /\ After(e[1], DropVars(e[1], entry_drops(s)), entry_drops(s))
  BY <1>3, AfterDrop
<1>5. \E S : Taken(e, s, S)
  BY <1>2, <1>4 DEF Taken
<1> QED
  BY <1>1, <1>5

LEMMA ReturnForm ==
  ASSUME Inv, Return
  PROVE  /\ phase = "run" /\ phase' = "done" /\ UNCHANGED <<fn, cursor, changed, live_in, pc>>
         /\ \E e \in Effects(frame, pc) : \E S :
              /\ After(e[1], frame', S)
              /\ \/ e[2] = Fall /\ fn.succ[pc] = {} /\ S = last_use_drops(pc)
                 \/ e[2] = Leave
<1>1. phase = "run" /\ phase' = "done" /\ UNCHANGED <<fn, cursor, changed, live_in, pc>>
  BY DEF Return
<1>2. PICK e \in Effects(frame, pc) :
        \/ e[2] = Fall /\ fn.succ[pc] = {} /\ frame' = DropVars(e[1], last_use_drops(pc))
        \/ e[2] = Leave /\ frame' = e[1]
  BY DEF Return
<1>3. e[1] \in Frame /\ OwnLoans(e[1])
  BY <1>1, EffectSafe
<1>4. After(e[1], DropVars(e[1], last_use_drops(pc)), last_use_drops(pc)) /\ After(e[1], e[1], {})
  BY <1>3, AfterDrop
<1>5. \E S : /\ After(e[1], frame', S)
             /\ \/ e[2] = Fall /\ fn.succ[pc] = {} /\ S = last_use_drops(pc)
                \/ e[2] = Leave
  BY <1>2, <1>4
<1> QED
  BY <1>1, <1>5

LEMMA LoansStep ==
  ASSUME Inv, phase = "run", NEW e \in Effects(frame, pc), NEW s \in Nodes, NEW S, Taken(e, s, S),
         pc' = s, UNCHANGED <<fn, phase>>
  PROVE  LoansKept'
<1> SUFFICES ASSUME Tries = {}
             PROVE  \E L : (Accepted(L) /\ Covered(L, frame, pc) /\ GroupsCovered(frame, pc))'
  BY SameFunction DEF LoansKept
<1> DEFINE g == exec_instr(frame, fn.code[pc])
<1>1. /\ fn.code[pc].op # "try" /\ IsInstr(fn.code[pc]) /\ pc \in Nodes
      /\ e[1] = g /\ e[2] = Fall /\ Fall \notin Nodes
      /\ frame \in Frame /\ OwnLoans(frame)
  BY PlainEffect, RunFacts, EndNodes DEF Inv
<1>2. s \in fn.succ[pc] /\ frame'.bound = g.bound /\ frame'.stale = g.stale
  BY <1>1 DEF Taken, After
<1>3. PICK L : Accepted(L) /\ Covered(L, frame, pc) /\ GroupsCovered(frame, pc)
  BY DEF Inv, LoansKept
<1>4. Begun = Loans
  <2>1. OwnersSeen
    BY DEF OwnersSeen
  <2> QED
    BY <2>1, BegunFacts DEF Inv
<1>5. Covered(L, g, s) /\ GroupsCovered(g, s)
  BY <1>1, <1>2, <1>3, <1>4, CoveredStep DEF Inv
<1> HIDE DEF g
<1>6. Accepted(L)'
  BY <1>3 DEF Accepted, Nodes, Loans, Code, LoansOf, Out
<1>7. Covered(L, frame, pc)'
  BY <1>2, <1>5 DEF Covered
<1>8. GroupsCovered(frame, pc)'
  BY <1>2, <1>5 DEF GroupsCovered, FreshCovered, Nodes
<1> QED
  BY <1>6, <1>7, <1>8

(* What is held at the next node is live there.                            *)
LEMMA HeldStep ==
  ASSUME Inv, phase = "run", NEW e \in Effects(frame, pc), NEW s \in Nodes, NEW S, Taken(e, s, S),
         fn' = fn, Straightforward
  PROVE  HeldVars' \subseteq live_in[s]
<1>1. \A v \in Vars : frame'.slot[v] =
        IF v \in S /\ e[1].slot[v] = "held" THEN "gone" ELSE e[1].slot[v]
  BY DEF Taken, After, Cut
<1> SUFFICES ASSUME NEW v \in HeldVars'
             PROVE  v \in live_in[s]
  OBVIOUS
<1>2. v \in Vars \ Outliving /\ is_droppable_root(v) /\ frame'.slot[v] = "held"
  BY SameFunction DEF HeldVars, is_droppable_root
<1>3. v \notin S /\ e[1].slot[v] = "held"
  BY <1>1, <1>2
<1>4. /\ e[2] = Fall /\ v \notin last_use_drops(pc) => v \in block_live_out(pc)
      /\ e[2] \in Nodes => v \in live_in[e[2]] \union entry_drops(e[2])
  BY <1>2, <1>3, EffectHeld
<1>5. CASE e[2] = Fall /\ s \in fn.succ[pc] /\ S = GotoDrops(pc, s)
  <2>1. v \in block_live_out(pc)
    BY <1>3, <1>4, <1>5 DEF GotoDrops
  <2> QED
    BY <1>2, <1>3, <1>5, <2>1, RunFacts, DyingIsDropped DEF Inv
<1>6. CASE e[2] = s /\ S = entry_drops(s)
  BY <1>3, <1>4, <1>6
<1> QED
  BY <1>5, <1>6 DEF Taken

(* What is live at the next node has not been dropped.                     *)
LEMMA FoundStep ==
  ASSUME Inv, phase = "run", NEW e \in Effects(frame, pc), NEW s \in Nodes, NEW S, Taken(e, s, S),
         Seen, NEW v \in live_in[s] \ Locals
  PROVE  frame'.slot[v] # "gone"
<1>1. \A u \in Vars : frame'.slot[u] =
        IF u \in S /\ e[1].slot[u] = "held" THEN "gone" ELSE e[1].slot[u]
  BY DEF Taken, After, Cut
<1>2. v \in Vars \ Locals
  BY DEF Inv, Types
<1>3. /\ e[2] = Fall /\ v \in block_live_out(pc) => e[1].slot[v] # "gone"
      /\ e[2] \in Nodes /\ v \in live_in[e[2]] => e[1].slot[v] # "gone"
  BY <1>2, EffectFound
<1>4. CASE e[2] = Fall /\ s \in fn.succ[pc] /\ S = GotoDrops(pc, s)
  <2>1. v \in block_live_out(pc)
    BY <1>4 DEF block_live_out
  <2>2. v \notin S
    BY <1>4, RunFacts, DropsNotLive DEF Inv
  <2> QED
    BY <1>1, <1>2, <1>3, <1>4, <2>1, <2>2
<1>5. CASE e[2] = s /\ S = entry_drops(s)
  <2>1. v \notin S
    BY <1>5 DEF entry_drops, edge_dying, Droppable
  <2> QED
    BY <1>1, <1>2, <1>3, <1>5, <2>1
<1> QED
  BY <1>4, <1>5 DEF Taken

LEMMA MachineStep ==
  ASSUME Inv, NEW s \in Nodes, Step(s)
  PROVE  Inv'
<1>1. phase = "run" /\ pc' = s /\ UNCHANGED <<fn, phase, cursor, changed, live_in>>
  BY StepForm
<1>2. PICK e \in Effects(frame, pc) : \E S : Taken(e, s, S)
  BY StepForm
<1>3. PICK S : Taken(e, s, S)
  BY <1>2
<1>4. /\ Types' /\ Started' /\ SweepConsistent' /\ LoansConsistent' /\ DropsConsistent'
      /\ AllNeeded' /\ NeverStale' /\ NeverDropped' /\ LocalsEnded'
      /\ Straightforward' => ~Has("lost", Droppable(Vars \ Outliving))'
  <2>1. After(e[1], frame', S) /\ pc' \in Nodes /\ phase' \in {"run", "done"}
    BY <1>1, <1>3 DEF Taken
  <2> QED
    BY <1>1, <2>1, MachineKeeps
<1>5. LoansKept'
  BY <1>1, <1>3, LoansStep
<1>6. LiveFound'
  <2> SUFFICES ASSUME Seen
               PROVE  \A v \in live_in[s] \ Locals : frame'.slot[v] # "gone"
    BY <1>1, SameStatic, SameGuards DEF LiveFound, LiveNotGone
  <2> QED
    BY <1>1, <1>3, FoundStep
<1>7. HeldLive'
  <2> SUFFICES ASSUME Straightforward
               PROVE  HeldVars' \subseteq live_in[s]
    BY <1>1, SameGuards DEF HeldLive
  <2> QED
    BY <1>1, <1>3, HeldStep
<1>8. NothingIsLost'
  BY <1>1, <1>4 DEF NothingIsLost
<1> QED
  BY <1>4, <1>5, <1>6, <1>7, <1>8 DEF Inv

(* Where a function ends nothing is held.                                  *)
LEMMA ReturnStep ==
  ASSUME Inv, Return
  PROVE  Inv'
<1>1. phase = "run" /\ phase' = "done" /\ UNCHANGED <<fn, cursor, changed, live_in, pc>>
  BY ReturnForm
<1>2. PICK e \in Effects(frame, pc) : \E S :
              /\ After(e[1], frame', S)
              /\ \/ e[2] = Fall /\ fn.succ[pc] = {} /\ S = last_use_drops(pc)
                 \/ e[2] = Leave
  BY ReturnForm
<1>3. PICK S : /\ After(e[1], frame', S)
               /\ \/ e[2] = Fall /\ fn.succ[pc] = {} /\ S = last_use_drops(pc)
                  \/ e[2] = Leave
  BY <1>2
<1>4. /\ Types' /\ Started' /\ SweepConsistent' /\ LoansConsistent' /\ DropsConsistent'
      /\ AllNeeded' /\ NeverStale' /\ NeverDropped' /\ LocalsEnded'
      /\ Straightforward' => ~Has("lost", Droppable(Vars \ Outliving))'
  <2>1. pc' \in Nodes /\ phase' \in {"run", "done"}
    BY <1>1 DEF Inv, Types
  <2> QED
    BY <1>1, <1>3, <2>1, MachineKeeps
<1>5. LoansKept' /\ LiveFound' /\ HeldLive'
  BY <1>1 DEF LoansKept, LiveFound, HeldLive
<1>6. ASSUME Straightforward'
      PROVE  HeldVars' = {}
  <2>1. Straightforward
    BY <1>1, <1>6, SameGuards
  <2>2. e[2] # Leave
    <3>1. CASE pc \notin Tries
      BY <1>1, <3>1, PlainEffect, EndNodes DEF Inv
    <3>2. CASE pc \in Tries
      BY <1>1, <2>1, <3>2, TryEffect DEF Straightforward, NoLeave
    <3> QED
      BY <3>1, <3>2
  <2>3. e[2] = Fall /\ fn.succ[pc] = {} /\ S = last_use_drops(pc)
    BY <1>3, <2>2
  <2>4. \A v \in Vars : frame'.slot[v] =
          IF v \in S /\ e[1].slot[v] = "held" THEN "gone" ELSE e[1].slot[v]
    BY <1>3 DEF After, Cut
  <2> SUFFICES ASSUME NEW v \in HeldVars'
               PROVE  FALSE
    OBVIOUS
  <2>5. v \in Vars \ Outliving /\ is_droppable_root(v) /\ frame'.slot[v] = "held"
    BY <1>1, SameFunction DEF HeldVars, is_droppable_root
  <2>6. e[1].slot[v] = "held" /\ v \notin last_use_drops(pc)
    BY <2>3, <2>4, <2>5
  <2>7. v \in block_live_out(pc)
    BY <1>1, <2>1, <2>3, <2>5, <2>6, EffectHeld
  <2> QED
    BY <2>3, <2>7 DEF block_live_out
<1>7. NothingIsLost'
  BY <1>4, <1>6 DEF NothingIsLost
<1> QED
  BY <1>4, <1>5, <1>7 DEF Inv

(* The machine stops before an instruction that would read a moved slot.   *)
LEMMA MovedStep ==
  ASSUME Inv, Moved
  PROVE  Inv'
<1>1. /\ phase = "run" /\ ~Proceeds(frame, fn.code[pc]) /\ phase' = "done"
      /\ UNCHANGED <<fn, cursor, changed, live_in, pc, frame>>
  BY DEF Moved
<1>2. Nodes' = Nodes /\ Loans' = Loans /\ Code' = Code /\ Tries' = Tries
  BY <1>1, SameFunction
<1>3. Types'
  <2>1. Begun' = Begun
    BY <1>1, <1>2 DEF Begun, RegionInstrs
  <2>2. Frame' = Frame
    BY <2>1 DEF Frame
  <2> QED
    BY <1>1, <1>2, <2>2 DEF Inv, Types, OwnLoans
<1>4. Started' /\ SweepConsistent' /\ LoansConsistent'
  BY <1>1 DEF Started, SweepConsistent, Sweeping, LoansConsistent
<1>5. DropsConsistent'
  <2>1. \A n : block_live_out(n)' = block_live_out(n)
    BY <1>1 DEF block_live_out
  <2> QED
    BY <1>1, <1>2, <2>1 DEF Inv, DropsConsistent
<1>6. AllNeeded'
  BY <1>1, SameFunction DEF Inv, AllNeeded, LiveNeeded
<1>7. NeverStale' /\ NeverDropped'
  BY <1>1, <1>2, SameGuards DEF Inv, NeverStale, NeverDropped
<1>8. LoansKept' /\ LiveFound' /\ HeldLive'
  BY <1>1 DEF LoansKept, LiveFound, HeldLive
<1>9. LocalsEnded'
  BY <1>1, SameStatic DEF Inv, LocalsEnded, LocalsGone
<1>10. NothingIsLost'
  <2>1. ~Proceeds(frame, fn.code[pc])'
    BY <1>1 DEF Proceeds, Reads
  <2>2. Straightforward' = Straightforward
    BY <1>1, SameGuards
  <2>3. Droppable(Vars \ Outliving)' = Droppable(Vars \ Outliving)
    BY <1>1, SameFunction DEF Droppable, is_droppable_root
  <2> QED
    BY <1>1, <2>1, <2>2, <2>3 DEF Inv, NothingIsLost, Has
<1> QED
  BY <1>3, <1>4, <1>5, <1>6, <1>7, <1>8, <1>9, <1>10 DEF Inv

LEMMA Stutter ==
  ASSUME Inv, UNCHANGED vars
  PROVE  Inv'
<1>1. UNCHANGED <<fn, phase, cursor, changed, live_in, pc, frame>>
  BY DEF vars
<1>2. Nodes' = Nodes /\ Loans' = Loans /\ Code' = Code /\ Tries' = Tries
  BY <1>1, SameFunction
<1>3. Types'
  <2>1. Begun' = Begun
    BY <1>1, <1>2 DEF Begun, RegionInstrs
  <2>2. Frame' = Frame
    BY <2>1 DEF Frame
  <2> QED
    BY <1>1, <1>2, <2>2 DEF Inv, Types, OwnLoans
<1>4. LoansKept'
  BY <1>1, LoansKeptSame DEF Inv
<1>5. Seen' = Seen /\ Straightforward' = Straightforward
  BY <1>1, SameGuards
<1>6. OwnLocals' = OwnLocals /\ RegionsClean' = RegionsClean /\ Locals' = Locals
  BY <1>1, SameStatic
<1>7. Started' /\ AllNeeded'
  BY <1>1, SameFunction DEF Inv, Started, AllNeeded, LiveNeeded
<1>8. NeverStale' /\ NeverDropped' /\ LiveFound' /\ LocalsEnded'
  BY <1>1, <1>2, <1>5, <1>6
     DEF Inv, NeverStale, NeverDropped, LiveFound, LiveNotGone, LocalsEnded, LocalsGone
<1>9. \A n : block_live_out(n)' = block_live_out(n)
  BY <1>1 DEF block_live_out
<1>10. SweepConsistent' /\ LoansConsistent' /\ DropsConsistent'
  <2>1. \A n : new_in(n)' = new_in(n)
    BY <1>1, <1>2, <1>9 DEF new_in
  <2> QED
    BY <1>1, <1>2, <1>9, <2>1
       DEF Inv, SweepConsistent, Sweeping, LoansConsistent, DropsConsistent
<1>11. HeldVars' = HeldVars /\ Droppable(Vars \ Outliving)' = Droppable(Vars \ Outliving)
  BY <1>1, SameFunction DEF HeldVars, Droppable, is_droppable_root
<1>12. HeldLive' /\ NothingIsLost'
  BY <1>1, <1>5, <1>11 DEF Inv, HeldLive, NothingIsLost, Has, Proceeds, Reads
<1> QED
  BY <1>3, <1>4, <1>7, <1>8, <1>10, <1>12 DEF Inv

-----------------------------------------------------------------------------
(* The theorems.                                                           *)
LEMMA InitHolds ==
  ASSUME Init
  PROVE  Inv
<1>1. /\ fn \in Functions /\ phase = "loans" /\ cursor = fn.size /\ changed = FALSE
      /\ live_in = NothingLive /\ pc = 0 /\ frame = StartFrame
  BY DEF Init, StartFrame
<1>2. IsFunction(fn)
  BY <1>1, FunctionsAssumption
<1>3. Types
  <2>1. /\ fn.size \in Nat \ {0} /\ 0 \in Nodes /\ fn.size \in 0 .. fn.size
    BY <1>2 DEF IsFunction, Nodes
  <2>2. live_in \in [Nodes -> SUBSET Vars]
    BY <1>1 DEF NothingLive
  <2>3. frame.bound \in [Vars -> SUBSET Loans] /\ \A r \in Vars : frame.bound[r] = {}
    BY <1>1 DEF StartFrame
  <2>4. frame \in Frame
    BY <1>1 DEF StartFrame, Frame, Slots
  <2> QED
    BY <1>1, <2>1, <2>2, <2>3, <2>4 DEF Types, OwnLoans
<1>4. SweepConsistent
  <2>1. \A n \in Nodes : ~(n >= fn.size)
    BY <1>2 DEF IsFunction, Nodes
  <2> QED
    BY <1>1, <2>1 DEF SweepConsistent
<1>5. NeverStale /\ NeverDropped
  BY <1>1 DEF NeverStale, NeverDropped, StartFrame
<1>6. LocalsEnded
  <2> SUFFICES ASSUME OwnLocals, NEW v \in Locals
               PROVE  frame.slot[v] # "held"
    BY DEF LocalsEnded, LocalsGone
  <2>1. v \in Vars /\ v \notin fn.owned \union fn.borrowed
    BY <1>3, LocalFacts
  <2> QED
    BY <1>1, <2>1 DEF StartFrame
<1> QED
  BY <1>1, <1>3, <1>4, <1>5, <1>6
     DEF Inv, Started, LoansConsistent, DropsConsistent, LoansKept, AllNeeded, LiveFound,
         HeldLive, NothingIsLost

LEMMA StepPreserves ==
  ASSUME Inv, [Next]_vars
  PROVE  Inv'
<1>1. CASE Analysis
  BY <1>1, VisitNodeStep, NextSweepStep, EndLoanFixpointStep, AcceptLoansStep,
     RejectLoansStep, EndDropFixpointStep DEF Analysis
<1>2. CASE Machine
  BY <1>2, MachineStep, ReturnStep, MovedStep DEF Machine
<1>3. CASE Finished \/ UNCHANGED vars
  BY <1>3, Stutter DEF Finished
<1> QED
  BY <1>1, <1>2, <1>3 DEF Next

(* The sweeps keep what they have visited consistent, and when the machine  *)
(* runs what is live is found and needed, what is held is live, no local of *)
(* a try is left, and in a function without a try no live reference is      *)
(* stale.                                                                   *)
THEOREM DropsInvariant == Spec => []Inv
<1>1. Init => Inv
  BY InitHolds
<1>2. Inv /\ [Next]_vars => Inv'
  BY StepPreserves
<1> QED
  BY <1>1, <1>2, PTL DEF Spec

(* In a function without a try that `analyze_loans` accepts no reference is *)
(* used after its place was accessed behind its back, however many          *)
(* references and loans the function has.                                   *)
THEOREM ReferencesStayExclusive == Spec => []ReferencesAreExclusive
<1>1. Inv => ReferencesAreExclusive
  BY DEF Inv, NeverStale, ReferencesAreExclusive, Has
<1> QED
  BY <1>1, DropsInvariant, PTL

(* `elaborate_drops` destroys nothing that an instruction still reads, on   *)
(* no path, edge or way out of a try.                                       *)
THEOREM ValuesAreFound == Spec => []UsesFindValues
<1>1. Inv => UsesFindValues
  BY DEF Inv, NeverDropped, Seen, UsesFindValues, Has
<1> QED
  BY <1>1, DropsInvariant, PTL

(* Every value is destroyed once it is no longer needed on any path, none   *)
(* is overwritten before, none is left when the function returns, and no    *)
(* local survives its try.                                                  *)
THEOREM DestroyedOnTime == Spec => []DestroyedInTime
<1>1. ASSUME Inv
      PROVE  DestroyedInTime
  <2>1. TryLocalsDestroyed
    BY <1>1 DEF Inv, LocalsEnded, LocalsGone, Locals, TryLocalsDestroyed
  <2>2. DestroyedOnceUnneeded
    <3> SUFFICES ASSUME phase = "run", Straightforward, NEW v \in HeldVars
                 PROVE  v \in NeededAt(pc)
      BY DEF DestroyedOnceUnneeded
    <3>1. v \in live_in[pc] \ Outliving /\ v \in Vars /\ pc \in Nodes
      BY <1>1 DEF Inv, HeldLive, HeldVars, Types
    <3>2. Needed(v, pc)
      BY <1>1, <3>1 DEF Inv, AllNeeded, LiveNeeded
    <3>3. {u \in Vars : Needed(u, pc)} \subseteq NeededAt(pc)
      BY ExtendCloses DEF NeededAt
    <3> QED
      BY <3>1, <3>2, <3>3
  <2> QED
    BY <1>1, <2>1, <2>2 DEF Inv, DestroyedInTime
<1>2. Inv => DestroyedInTime
  BY <1>1
<1> QED
  BY <1>2, DropsInvariant, PTL
=============================================================================
