-------------------------- MODULE MoveExactProofs --------------------------
(***************************************************************************)
(* The move analysis finds no more than there is: its facts are the ones   *)
(* that executions bring, and where it rejects a function some execution   *)
(* does touch a moved value.                                               *)
(***************************************************************************)
EXTENDS MoveAnalysisProofs, LeastFixpoint

(* A place is gone when a tombstone lies on it or around it. *)
Gone(t, v, p) == \E q \in t[v] : p \in Inside(q)

(* The facts s are brought about by the arrivals T: where they do not say  *)
(* Owned some arrival finds the place gone, where they do not say Moved     *)
(* some arrival finds it there.                                            *)
Witnessed(s, T) ==
  \A v \in Vars, p \in Paths :
    /\ s[v][p] # "Owned" => \E t \in T : Gone(t, v, p)
    /\ s[v][p] # "Moved" => \E t \in T : ~Gone(t, v, p)

(* The facts s hold of an arrival with the tombstones t. *)
Holds(t, s) ==
  \A v \in Vars, p \in Paths :
    /\ s[v][p] = "Owned" => ~Gone(t, v, p)
    /\ s[v][p] = "Moved" => Gone(t, v, p)

(* What an instruction makes of the arrivals T. *)
Passed(T, i) == {Pass(t, i) : t \in T}

-----------------------------------------------------------------------------
(* The order of the places.                                                *)
LEMMA PlaceOrder ==
  /\ Whole \in Paths /\ Above(Whole) = {}
  /\ \A p \in Paths : p \in Inside(p) /\ p \in Inside(Whole)
  /\ \A p \in Paths : p \notin Above(p) /\ Inside(p) \subseteq Paths /\ Above(p) \subseteq Paths
  /\ \A p, q, r \in Paths : q \in Inside(p) /\ r \in Inside(q) => r \in Inside(p)
  /\ \A p, q, r \in Paths : r \in Inside(p) /\ r \in Inside(q)
       => q \in Inside(p) \/ q \in Above(p)
  /\ \A p, q, r \in Paths : q \in Above(p) /\ q \in Inside(r) => r \in Above(p)
  /\ \A p, q, r \in Paths : q \in Above(p) /\ r \in Inside(p) => r \in Inside(q)
<1>1. /\ Whole \in Paths /\ Above(Whole) = {}
      /\ \A p \in Paths : p \in Inside(p) /\ p \in Inside(Whole)
      /\ \A p \in Paths : p \notin Above(p) /\ Inside(p) \subseteq Paths /\ Above(p) \subseteq Paths
  BY PathsAssumption DEF Inside, Above
<1>2. \A p, q, r \in Paths : q \in Inside(p) /\ r \in Inside(q) => r \in Inside(p)
  BY PathsAssumption DEF Inside
<1>3. \A p, q, r \in Paths : r \in Inside(p) /\ r \in Inside(q)
        => q \in Inside(p) \/ q \in Above(p)
  BY PathsAssumption DEF Inside, Above
<1>4. \A p, q, r \in Paths : q \in Above(p) /\ q \in Inside(r) => r \in Above(p)
  BY PathsAssumption DEF Inside, Above
<1>5. \A p, q, r \in Paths : q \in Above(p) /\ r \in Inside(p) => r \in Inside(q)
  BY PathsAssumption DEF Inside, Above
<1> QED
  BY <1>1, <1>2, <1>3, <1>4, <1>5

(* The place nearest around a place lies inside every other place around it. *)
LEMMA Nearest ==
  ASSUME NEW p \in Paths, p # Whole
  PROVE  \E q \in Above(p) : \A r \in Above(p) : q \in Inside(r)
BY PathsAssumption DEF Above, Inside

(* Passing an instruction leaves tombstones on places, and none that were  *)
(* not there or are not of a place that the instruction moves.             *)
LEMMA PassType ==
  ASSUME NEW t \in Tombs, NEW i \in Instrs
  PROVE  Pass(t, i) \in Tombs
BY ExecType DEF Pass

LEMMA PassPlaces ==
  ASSUME NEW t \in Tombs, NEW i \in Instrs, i.op # "capture", NEW v \in Vars
  PROVE  Pass(t, i)[v] \subseteq t[v] \union (IF v = i.var THEN MovedPlaces(i) ELSE {})
<1>1. i.op \in Ops /\ i.var \in Vars
  BY DEF Instrs
<1>2. CASE Pass(t, i) = t
  BY <1>2
<1>3. CASE i.op = "def"
  BY <1>1, <1>3 DEF Pass, exec_instr, Tombs
<1>4. CASE i.op = "move"
  BY <1>1, <1>4 DEF Pass, exec_instr, Tombs, MovedPlaces
<1>5. CASE i.op = "take"
  BY <1>1, <1>5 DEF Pass, exec_instr, Tombs, MovedPlaces
<1>6. CASE i.op = "store"
  BY <1>1, <1>6 DEF Pass, exec_instr, Tombs
<1>7. CASE i.op \in {"nop", "use", "load", "storeIndex"}
  BY <1>7 DEF Pass, exec_instr
<1> QED
  BY <1>1, <1>2, <1>3, <1>4, <1>5, <1>6, <1>7 DEF Ops

-----------------------------------------------------------------------------
(* What one instruction does.                                              *)

(* An instruction changes one variable only. *)
LEMMA OtherVariables ==
  ASSUME NEW s \in State, NEW t \in Tombs, NEW i \in Instrs, i.op # "capture",
         NEW v \in Vars, v # i.var
  PROVE  Pass(t, i)[v] = t[v] /\ apply_effects(s, i)[v] = s[v]
<1>1. i.op \in Ops /\ i.var \in Vars
  BY DEF Instrs
<1>2. Pass(t, i)[v] = t[v]
  BY <1>1 DEF Pass, exec_instr, Tombs, Ops
<1>3. apply_effects(s, i)[v] = s[v]
  BY <1>1 DEF apply_effects, State, Ops
<1> QED
  BY <1>2, <1>3

(* A take leaves its place gone, and what is not in it as it was. *)
LEMMA TakePass ==
  ASSUME NEW t \in Tombs, NEW i \in Instrs, i.op = "take", NEW r \in Paths
  PROVE  Gone(Pass(t, i), i.var, r) <=> r \in Inside(i.path) \/ Gone(t, i.var, r)
<1>1. i.var \in Vars /\ i.path \in Paths /\ t[i.var] \subseteq Paths
  BY DEF Instrs, Tombs
<1>2. Pass(t, i)[i.var] = (t[i.var] \ Inside(i.path)) \union {i.path}
  BY <1>1 DEF Pass, exec_instr, Tombs
<1>3. \A q \in t[i.var] \cap Inside(i.path) : r \in Inside(q) => r \in Inside(i.path)
  BY <1>1, PlaceOrder
<1> QED
  BY <1>2, <1>3 DEF Gone

(* A store takes back the tombstones in its place, if it can be reached. *)
LEMMA StorePass ==
  ASSUME NEW t \in Tombs, NEW i \in Instrs, i.op = "store", NEW r \in Paths
  PROVE  /\ Gone(Pass(t, i), i.var, r) => Gone(t, i.var, r)
         /\ r \notin Inside(i.path) /\ Gone(t, i.var, r) => Gone(Pass(t, i), i.var, r)
         /\ Touches(t, i) => Pass(t, i) = t
         /\ ~Touches(t, i) /\ r \in Inside(i.path) => ~Gone(Pass(t, i), i.var, r)
<1>1. i.var \in Vars /\ i.path \in Paths /\ t[i.var] \subseteq Paths
  BY DEF Instrs, Tombs
<1>2. Touches(t, i) => Pass(t, i) = t
  BY DEF Pass
<1>3. ~Touches(t, i) => Pass(t, i)[i.var] = t[i.var] \ Inside(i.path)
  BY <1>1 DEF Pass, exec_instr, Tombs
<1>4. Touches(t, i) <=> t[i.var] \cap Above(i.path) # {}
  BY DEF Touches
<1>5. Gone(Pass(t, i), i.var, r) => Gone(t, i.var, r)
  BY <1>2, <1>3 DEF Gone
<1>6. ASSUME r \notin Inside(i.path), Gone(t, i.var, r)
      PROVE  Gone(Pass(t, i), i.var, r)
  <2>1. PICK q \in t[i.var] : r \in Inside(q)
    BY <1>6 DEF Gone
  <2>2. q \notin Inside(i.path)
    BY <1>1, <1>6, <2>1, PlaceOrder
  <2> QED
    BY <1>2, <1>3, <2>1, <2>2 DEF Gone
<1>7. ASSUME ~Touches(t, i), r \in Inside(i.path)
      PROVE  ~Gone(Pass(t, i), i.var, r)
  <2> SUFFICES ASSUME NEW q \in t[i.var], q \notin Inside(i.path), r \in Inside(q)
               PROVE  FALSE
    BY <1>3, <1>7 DEF Gone
  <2>1. q \in Above(i.path)
    BY <1>1, <1>7, PlaceOrder
  <2> QED
    BY <1>4, <1>7, <2>1
<1> QED
  BY <1>2, <1>5, <1>6, <1>7

(* A store to a place below a Moved one changes nothing; otherwise some     *)
(* arrival reaches its place.                                              *)
LEMMA StoreReaches ==
  ASSUME NEW s \in State, NEW T \in SUBSET Tombs, NEW i \in Instrs,
         i.op = "store", Witnessed(s, T),
         \A q \in Above(i.path) : s[i.var][q] # "Moved"
  PROVE  \E t \in T : ~Touches(t, i)
<1>1. i.var \in Vars /\ i.path \in Paths
  BY DEF Instrs
<1>2. CASE i.path = Whole
  <2>1. \E t \in T : TRUE
    BY <1>1 DEF Witnessed
  <2>2. Above(i.path) = {}
    BY <1>2, PlaceOrder
  <2> QED
    BY <2>1, <2>2 DEF Touches
<1>3. CASE i.path # Whole
  <2>1. PICK q \in Above(i.path) : \A r \in Above(i.path) : q \in Inside(r)
    BY <1>1, <1>3, Nearest
  <2>2. q \in Paths /\ s[i.var][q] # "Moved"
    BY <1>1, <2>1, PlaceOrder
  <2>3. PICK t \in T : ~Gone(t, i.var, q)
    BY <1>1, <2>2 DEF Witnessed
  <2>4. t[i.var] \cap Above(i.path) = {}
    BY <2>1, <2>3 DEF Gone
  <2> QED
    BY <2>4 DEF Touches
<1> QED
  BY <1>2, <1>3

(* The facts after an instruction are brought about by what it makes of the *)
(* arrivals that brought the facts before it.                              *)
LEMMA EffectWitnessed ==
  ASSUME NEW s \in State, NEW T \in SUBSET Tombs, NEW i \in Instrs,
         ~i.region, i.op # "capture", Witnessed(s, T)
  PROVE  Witnessed(apply_effects(s, i), Passed(T, i))
<1> DEFINE w == i.var
           p == i.path
           n == s[w]
           s2 == apply_effects(s, i)
<1>1. w \in Vars /\ p \in Paths /\ i.op \in Ops /\ DOMAIN s = Vars
  BY DEF Instrs, State
<1>2. ASSUME NEW v \in Vars, NEW r \in Paths, v # w
      PROVE  /\ s2[v][r] # "Owned" => \E t \in T : Gone(Pass(t, i), v, r)
             /\ s2[v][r] # "Moved" => \E t \in T : ~Gone(Pass(t, i), v, r)
  <2>1. s2[v] = s[v]
    <3>1. NoTombs \in Tombs
      BY DEF NoTombs, Tombs
    <3> QED
      BY <1>2, <3>1, OtherVariables
  <2>2. \A t \in T : Gone(Pass(t, i), v, r) <=> Gone(t, v, r)
    <3>1. \A t \in T : Pass(t, i)[v] = t[v]
      BY <1>2, OtherVariables
    <3> QED
      BY <3>1 DEF Gone
  <2> QED
    BY <2>1, <2>2 DEF Witnessed
<1>3. ASSUME NEW r \in Paths
      PROVE  /\ s2[w][r] # "Owned" => \E t \in T : Gone(Pass(t, i), w, r)
             /\ s2[w][r] # "Moved" => \E t \in T : ~Gone(Pass(t, i), w, r)
  <2>1. PICK any \in T : TRUE
    BY <1>1, PlaceOrder DEF Witnessed
  <2>2. CASE i.op = "def"
    <3>1. s2[w][r] = "Owned"
      BY <1>1, <2>2 DEF apply_effects, owned
    <3>2. Pass(any, i)[w] = {}
      BY <1>1, <2>1, <2>2 DEF Pass, exec_instr, Tombs
    <3> QED
      BY <2>1, <3>1, <3>2 DEF Gone
  <2>3. CASE i.op = "move"
    <3>1. s2[w][r] = "Moved"
      BY <1>1, <2>3, PlaceOrder DEF apply_effects, do_move
    <3>2. Pass(any, i)[w] = {Whole}
      BY <1>1, <2>1, <2>3 DEF Pass, exec_instr, Tombs
    <3> QED
      BY <2>1, <3>1, <3>2, PlaceOrder DEF Gone
  <2>4. CASE i.op = "take"
    <3>1. s2[w][r] = IF r \in Inside(p) THEN "Moved" ELSE s[w][r]
      BY <1>1, <2>4 DEF apply_effects, do_move
    <3>2. \A t \in T : Gone(Pass(t, i), w, r) <=> r \in Inside(p) \/ Gone(t, w, r)
      BY <2>4, TakePass
    <3>3. /\ s[w][r] # "Owned" => \E t \in T : Gone(t, w, r)
          /\ s[w][r] # "Moved" => \E t \in T : ~Gone(t, w, r)
      BY <1>1 DEF Witnessed
    <3> QED
      BY <2>1, <3>1, <3>2, <3>3
  <2>5. CASE i.op = "store" /\ \E q \in Above(p) : n[q] = "Moved"
    <3>1. s2[w][r] = s[w][r]
      BY <1>1, <2>5 DEF apply_effects, do_def
    <3>2. /\ s[w][r] # "Owned" => \E t \in T : Gone(t, w, r)
          /\ s[w][r] # "Moved" => \E t \in T : ~Gone(t, w, r)
      BY <1>1 DEF Witnessed
    <3>3. \A t \in T : /\ Gone(Pass(t, i), w, r) => Gone(t, w, r)
                       /\ r \notin Inside(p) /\ Gone(t, w, r) => Gone(Pass(t, i), w, r)
                       /\ Touches(t, i) => Pass(t, i) = t
      BY <2>5, StorePass
    <3>4. PICK q \in Above(p) : n[q] = "Moved"
      BY <2>5
    <3>5. PICK t \in T : Gone(t, w, q)
      BY <1>1, <3>4, PlaceOrder DEF Witnessed
    <3>6. PICK o \in t[w] : q \in Inside(o)
      BY <3>5 DEF Gone
    <3>7. t[w] \subseteq Paths
      BY <1>1 DEF Tombs
    <3>8. o \in Above(p)
      BY <1>1, <3>4, <3>6, <3>7, PlaceOrder
    <3>9. Pass(t, i) = t
      BY <2>5, <3>3, <3>6, <3>8 DEF Touches
    <3>10. r \in Inside(p) => Gone(Pass(t, i), w, r)
      BY <1>1, <3>6, <3>7, <3>8, <3>9, PlaceOrder DEF Gone
    <3> QED
      BY <3>1, <3>2, <3>3, <3>10
  <2>6. CASE i.op = "store" /\ ~\E q \in Above(p) : n[q] = "Moved"
    <3>1. s2[w][r] = IF r \in Inside(p) THEN "Owned" ELSE s[w][r]
      BY <1>1, <2>6 DEF apply_effects, do_def
    <3>2. /\ s[w][r] # "Owned" => \E t \in T : Gone(t, w, r)
          /\ s[w][r] # "Moved" => \E t \in T : ~Gone(t, w, r)
      BY <1>1 DEF Witnessed
    <3>3. PICK t \in T : ~Touches(t, i)
      BY <2>6, StoreReaches
    <3>4. r \in Inside(p) => ~Gone(Pass(t, i), w, r)
      BY <2>6, <3>3, StorePass
    <3>5. \A u \in T : /\ Gone(Pass(u, i), w, r) => Gone(u, w, r)
                       /\ r \notin Inside(p) /\ Gone(u, w, r) => Gone(Pass(u, i), w, r)
      BY <2>6, StorePass
    <3> QED
      BY <3>1, <3>2, <3>4, <3>5
  <2>7. CASE i.op \in {"nop", "use", "load", "storeIndex"}
    <3>1. s2 = s /\ \A t \in T : Pass(t, i) = t
      BY <2>7 DEF apply_effects, Pass, exec_instr
    <3> QED
      BY <1>1, <3>1 DEF Witnessed
  <2> QED
    BY <1>1, <2>2, <2>3, <2>4, <2>5, <2>6, <2>7 DEF Ops
<1>4. \A v \in Vars, r \in Paths :
        /\ s2[v][r] # "Owned" => \E t \in T : Gone(Pass(t, i), v, r)
        /\ s2[v][r] # "Moved" => \E t \in T : ~Gone(Pass(t, i), v, r)
  BY <1>2, <1>3
<1>5. \A v \in Vars, r \in Paths :
        /\ s2[v][r] # "Owned" => \E t \in Passed(T, i) : Gone(t, v, r)
        /\ s2[v][r] # "Moved" => \E t \in Passed(T, i) : ~Gone(t, v, r)
  <2> HIDE DEF s2
  <2>1. \A t \in T : Pass(t, i) \in Passed(T, i)
    BY DEF Passed
  <2> QED
    BY <1>4, <2>1
<1> QED
  BY <1>5 DEF Witnessed

(* A join is taken place by place. *)
LEMMA JoinAt ==
  ASSUME NEW ss, NEW v \in Vars, NEW p \in Paths
  PROVE  join_states(ss)[v][p] = join({s[v][p] : s \in ss})
<1>1. join_states(ss)[v][p] = join({nn[p] : nn \in {r[v] : r \in ss}})
  BY DEF join_states, join_node
<1>2. {nn[p] : nn \in {r[v] : r \in ss}} = {s[v][p] : s \in ss}
  OBVIOUS
<1> QED
  BY <1>1, <1>2

(* The facts after a join are brought about by all its incoming arrivals. *)
LEMMA JoinWitnessed ==
  ASSUME NEW ss, NEW Ts, ss # {},
         \A s \in ss : \E T \in Ts : Witnessed(s, T)
  PROVE  Witnessed(join_states(ss), UNION Ts)
<1> SUFFICES ASSUME NEW v \in Vars, NEW p \in Paths
             PROVE  /\ join_states(ss)[v][p] # "Owned" => \E t \in UNION Ts : Gone(t, v, p)
                    /\ join_states(ss)[v][p] # "Moved" => \E t \in UNION Ts : ~Gone(t, v, p)
  BY DEF Witnessed
<1>1. join_states(ss)[v][p] = join({s[v][p] : s \in ss})
  BY JoinAt
<1>2. \A s \in ss : /\ s[v][p] # "Owned" => \E t \in UNION Ts : Gone(t, v, p)
                    /\ s[v][p] # "Moved" => \E t \in UNION Ts : ~Gone(t, v, p)
  BY DEF Witnessed
<1>3. join_states(ss)[v][p] # "Owned" => \E s \in ss : s[v][p] # "Owned"
  BY <1>1 DEF join
<1>4. join_states(ss)[v][p] # "Moved" => \E s \in ss : s[v][p] # "Moved"
  BY <1>1 DEF join
<1> QED
  BY <1>2, <1>3, <1>4

(* Facts that hold of an arrival hold of it after a join with others. *)
LEMMA JoinHolds ==
  ASSUME NEW ss, NEW s \in ss, NEW t, Holds(t, s)
  PROVE  Holds(t, join_states(ss))
<1> SUFFICES ASSUME NEW v \in Vars, NEW p \in Paths
             PROVE  /\ join_states(ss)[v][p] = "Owned" => ~Gone(t, v, p)
                    /\ join_states(ss)[v][p] = "Moved" => Gone(t, v, p)
  BY DEF Holds
<1>1. join_states(ss)[v][p] = join({r[v][p] : r \in ss})
  BY JoinAt
<1>2. join_states(ss)[v][p] = "Owned" => s[v][p] = "Owned"
  BY <1>1 DEF join
<1>3. join_states(ss)[v][p] = "Moved" => s[v][p] = "Moved"
  BY <1>1 DEF join
<1> QED
  BY <1>2, <1>3 DEF Holds

(* Where the check finds Owned, the facts after the instruction hold of    *)
(* what it makes of an arrival.                                            *)
LEMMA EffectHolds ==
  ASSUME NEW s \in State, NEW t \in Tombs, NEW i \in Instrs,
         ~i.region, i.op # "capture",
         TouchState(s, i) = "Owned", Holds(t, s)
  PROVE  Holds(Pass(t, i), apply_effects(s, i))
<1> DEFINE w == i.var
           p == i.path
           s2 == apply_effects(s, i)
<1>1. w \in Vars /\ p \in Paths /\ i.op \in Ops /\ t[w] \subseteq Paths
  BY DEF Instrs, Tombs
<1>2. Covered(t, s)
  BY DEF Covered, Holds, Gone, Inside
<1>3. ~Touches(t, i) /\ Pass(t, i) = exec_instr(t, i)
  BY <1>2, TouchSound DEF Pass
<1>4. Covered(Pass(t, i), s2)
  BY <1>2, <1>3, EffectSound
<1>5. ASSUME NEW v \in Vars, NEW r \in Paths, s2[v][r] = "Owned"
      PROVE  ~Gone(Pass(t, i), v, r)
  BY <1>4, <1>5 DEF Covered, Gone
<1>6. ASSUME NEW v \in Vars, NEW r \in Paths, v # w, s2[v][r] = "Moved"
      PROVE  Gone(Pass(t, i), v, r)
  <2>1. Pass(t, i)[v] = t[v] /\ s2[v] = s[v]
    BY <1>6, OtherVariables
  <2> QED
    BY <1>6, <2>1 DEF Holds, Gone
<1>7. ASSUME NEW r \in Paths, s2[w][r] = "Moved"
      PROVE  Gone(Pass(t, i), w, r)
  <2>1. CASE i.op = "def"
    BY <1>1, <1>7, <2>1 DEF apply_effects, owned, State
  <2>2. CASE i.op = "move"
    <3>1. Pass(t, i)[w] = {Whole}
      BY <1>1, <2>2 DEF Pass, exec_instr, Tombs
    <3> QED
      BY <3>1, PlaceOrder DEF Gone
  <2>3. CASE i.op = "take"
    <3>1. s2[w][r] = IF r \in Inside(p) THEN "Moved" ELSE s[w][r]
      BY <1>1, <2>3 DEF apply_effects, do_move, State
    <3> QED
      BY <1>1, <1>7, <2>3, <3>1, TakePass DEF Holds
  <2>4. CASE i.op = "store"
    <3>1. \A q \in Above(p) : s[w][q] = "Owned"
      BY <2>4, BaseOwned DEF TouchState
    <3>2. s2[w][r] = IF r \in Inside(p) THEN "Owned" ELSE s[w][r]
      BY <1>1, <2>4, <3>1 DEF apply_effects, do_def, State
    <3>3. r \notin Inside(p) /\ s[w][r] = "Moved"
      BY <1>7, <3>2
    <3> QED
      BY <1>1, <2>4, <3>3, StorePass DEF Holds
  <2>5. CASE i.op \in {"nop", "use", "load", "storeIndex"}
    <3>1. s2 = s /\ Pass(t, i) = t
      BY <2>5 DEF apply_effects, Pass, exec_instr
    <3> QED
      BY <1>1, <1>7, <3>1 DEF Holds
  <2> QED
    BY <1>1, <2>1, <2>2, <2>3, <2>4, <2>5 DEF Ops
<1>8. \A v \in Vars, r \in Paths :
        /\ s2[v][r] = "Owned" => ~Gone(Pass(t, i), v, r)
        /\ s2[v][r] = "Moved" => Gone(Pass(t, i), v, r)
  BY <1>5, <1>6, <1>7
<1> QED
  BY <1>8 DEF Holds

(* Where the check does not find Owned, some arrival touches a tombstone;  *)
(* for a store to an element, if elements are not moved.                   *)
LEMMA TouchJustified ==
  ASSUME NEW s \in State, NEW T \in SUBSET Tombs, NEW i \in Instrs,
         Witnessed(s, T), TouchState(s, i) # "Owned",
         i.op = "storeIndex" => \A t \in T : i.path \notin t[i.var]
  PROVE  \E t \in T : Touches(t, i)
<1> DEFINE w == i.var
           p == i.path
           n == s[w]
<1>1. w \in Vars /\ p \in Paths /\ \A t \in T : t[w] \subseteq Paths
  BY DEF Instrs, Tombs
(* A place that is not Owned leads to a tombstone around it. *)
<1>2. ASSUME NEW q \in Paths, n[q] # "Owned"
      PROVE  \E t \in T : \E o \in t[w] : o \in Paths /\ q \in Inside(o)
  BY <1>1, <1>2 DEF Witnessed, Gone
<1>3. ASSUME NEW q \in Above(p), n[q] # "Owned"
      PROVE  \E t \in T : t[w] \cap Above(p) # {}
  <2>1. q \in Paths
    BY DEF Above
  <2>2. PICK t \in T : \E o \in t[w] : o \in Paths /\ q \in Inside(o)
    BY <1>2, <1>3, <2>1
  <2>3. PICK o \in t[w] : o \in Paths /\ q \in Inside(o)
    BY <2>2
  <2>4. o \in Above(p)
    BY <1>1, <2>1, <2>3, PlaceOrder
  <2> QED
    BY <2>3, <2>4
<1>4. CASE i.op \in {"use", "move"}
  <2>1. read(n, Whole) # "Owned"
    BY <1>4 DEF TouchState
  <2>2. whole(n, Whole) # "Owned"
    BY <2>1, PlaceOrder DEF read, Tainted
  <2>3. PICK q \in Inside(Whole) : n[q] # "Owned"
    BY <2>2 DEF whole, worst
  <2>4. \E t \in T : \E o \in t[w] : o \in Paths
    BY <1>2, <2>3 DEF Inside
  <2> QED
    BY <1>4, <2>4 DEF Touches
<1>5. CASE i.op \in {"load", "take"}
  <2>1. read(n, p) # "Owned"
    BY <1>5 DEF TouchState
  <2>2. CASE \E q \in Above(p) : n[q] # "Owned"
    <3>1. PICK t \in T : t[w] \cap Above(p) # {}
      BY <1>3, <2>2
    <3> QED
      BY <1>5, <3>1 DEF Touches
  <2>3. CASE ~\E q \in Above(p) : n[q] # "Owned"
    <3>1. whole(n, p) # "Owned"
      BY <2>1, <2>3 DEF read, Tainted
    <3>2. PICK q \in Inside(p) : n[q] # "Owned"
      BY <3>1 DEF whole, worst
    <3>3. q \in Paths
      BY DEF Inside
    <3>4. PICK t \in T : \E o \in t[w] : o \in Paths /\ q \in Inside(o)
      BY <1>2, <3>2, <3>3
    <3>5. PICK o \in t[w] : o \in Paths /\ q \in Inside(o)
      BY <3>4
    <3>6. o \in Inside(p) \/ o \in Above(p)
      BY <1>1, <3>2, <3>3, <3>5, PlaceOrder
    <3> QED
      BY <1>5, <3>5, <3>6 DEF Touches
  <2> QED
    BY <2>2, <2>3
<1>6. CASE i.op = "store"
  <2>1. base_at(n, Above(p)) # "Owned"
    BY <1>6 DEF TouchState
  <2>2. \E q \in Above(p) : n[q] # "Owned"
    BY <2>1 DEF base_at, Tainted
  <2>3. PICK t \in T : t[w] \cap Above(p) # {}
    BY <1>3, <2>2
  <2> QED
    BY <1>6, <2>3 DEF Touches
<1>7. CASE i.op = "storeIndex"
  <2>1. base_at(n, Above(p) \union {p}) # "Owned"
    BY <1>7 DEF TouchState
  <2>2. \E q \in Above(p) \union {p} : n[q] # "Owned"
    BY <2>1 DEF base_at, Tainted
  <2>3. CASE \E q \in Above(p) : n[q] # "Owned"
    <3>1. PICK t \in T : t[w] \cap Above(p) # {}
      BY <1>3, <2>3
    <3> QED
      BY <1>7, <3>1 DEF Touches
  <2>4. CASE n[p] # "Owned"
    <3>1. PICK t \in T : \E o \in t[w] : o \in Paths /\ p \in Inside(o)
      BY <1>1, <1>2, <2>4
    <3>2. PICK o \in t[w] : o \in Paths /\ p \in Inside(o)
      BY <3>1
    <3>3. o # p
      BY <1>7, <3>2
    <3>4. o \in Above(p)
      BY <1>1, <3>2, <3>3 DEF Inside, Above
    <3> QED
      BY <1>7, <3>2, <3>4 DEF Touches
  <2> QED
    BY <2>2, <2>3, <2>4
<1>8. CASE i.op \in {"nop", "def", "capture"}
  BY <1>8 DEF TouchState
<1>9. i.op \in Ops
  BY DEF Instrs
<1> QED
  BY <1>4, <1>5, <1>6, <1>7, <1>8, <1>9 DEF Ops

-----------------------------------------------------------------------------
(* The arrivals that MoveReference computes by recursion are the least that *)
(* another step adds nothing to.                                           *)
LEMMA NextArrived ==
  ASSUME IsFunction(fn), NEW r \in Arrived
  PROVE  ArriveNext(r) \in Arrived
<1>1. NoTombs \in Tombs
  BY DEF NoTombs, Tombs
<1>2. \A m \in Nodes : fn.code[m] \in Instrs /\ r[m] \subseteq Tombs
  BY DEF IsFunction, Nodes, Arrived
<1>3. \A n \in Nodes : \A m \in preds(n) : \A t \in r[m] : Pass(t, fn.code[m]) \in Tombs
  BY <1>2, PassType DEF preds
<1> QED
  BY <1>1, <1>3 DEF ArriveNext, Arrived

LEMMA NextAt ==
  ASSUME NEW r, NEW n \in Nodes, NEW t
  PROVE  t \in ArriveNext(r)[n] <=>
           \/ n = 0 /\ t = NoTombs
           \/ \E m \in preds(n) : \E u \in r[m] : t = Pass(u, fn.code[m])
BY DEF ArriveNext

LEMMA TombsFinite == IsFiniteSet(Tombs)
<1> DEFINE f == [t \in Tombs |-> {vp \in Vars \X Paths : vp[2] \in t[vp[1]]}]
           T == SUBSET (Vars \X Paths)
<1>1. IsFiniteSet(T)
  <2>1. IsFiniteSet(Vars \X Paths)
    BY FiniteAssumption, FS_Product
  <2> QED
    BY <2>1, FS_SUBSET
<1>2. f \in [Tombs -> T]
  OBVIOUS
<1>3. ASSUME NEW t \in Tombs, NEW u \in Tombs, f[t] = f[u]
      PROVE  t = u
  <2>1. \A v \in Vars, p \in Paths : <<v, p>> \in f[t] <=> p \in t[v]
    OBVIOUS
  <2>2. \A v \in Vars, p \in Paths : <<v, p>> \in f[u] <=> p \in u[v]
    OBVIOUS
  <2>3. \A v \in Vars, p \in Paths : p \in t[v] <=> p \in u[v]
    BY <1>3, <2>1, <2>2
  <2>4. \A v \in Vars : t[v] = u[v]
    BY <2>3 DEF Tombs
  <2> QED
    BY <2>4 DEF Tombs
<1>4. f \in Injection(Tombs, T)
  <2> HIDE DEF f, T
  <2>1. \A t, u \in Tombs : f[t] = f[u] => t = u
    BY <1>3
  <2> QED
    BY <1>2, <2>1 DEF Injection, IsInjective
<1> QED
  <2> HIDE DEF f, T
  <2> QED
    BY <1>1, <1>4, FS_Injection

LEMMA ArrivalsLeast ==
  ASSUME IsFunction(fn)
  PROVE  /\ Arrivals \in Arrived /\ ArriveNext(Arrivals) = Arrivals
         /\ \A s \in Arrived : (\A n \in Nodes : ArriveNext(s)[n] \subseteq s[n])
              => \A n \in Nodes : Arrivals[n] \subseteq s[n]
<1> DEFINE g == [r \in Arrived |-> ArriveNext(r)]
<1>1. Arrived = Families(Nodes, Tombs)
  BY DEF Arrived, Families
<1>2. g \in [Arrived -> Arrived]
  BY NextArrived
<1>3. IsFiniteSet(Nodes) /\ IsFiniteSet(Tombs)
  <2>1. 0 \in Int /\ fn.size - 1 \in Int
    BY DEF IsFunction
  <2> QED
    BY <2>1, FS_Interval, TombsFinite DEF Nodes
<1>4. Monotone(g, Nodes, Tombs)
  <2> SUFFICES ASSUME NEW r \in Arrived, NEW s \in Arrived, Within(r, s)
               PROVE  Within(ArriveNext(r), ArriveNext(s))
    BY <1>1 DEF Monotone
  <2>1. \A m \in Nodes : r[m] \subseteq s[m]
    BY DEF Within, Arrived
  <2>2. DOMAIN ArriveNext(r) = Nodes
    BY DEF ArriveNext
  <2>3. \A n \in Nodes : preds(n) \subseteq Nodes
    BY DEF preds
  <2>4. ASSUME NEW n \in Nodes, NEW t \in ArriveNext(r)[n]
        PROVE  t \in ArriveNext(s)[n]
    BY <2>1, <2>3, NextAt
  <2> QED
    BY <2>2, <2>4 DEF Within
<1>5. ArrivalsFrom = [r \in Arrived |->
                        IF ArriveNext(r) = r THEN r ELSE ArrivalsFrom[ArriveNext(r)]]
  <2> DEFINE P(f) == f = [r \in Arrived |-> IF ArriveNext(r) = r THEN r ELSE f[ArriveNext(r)]]
  <2>1. PICK f : Iterates(f, g, Arrived)
    BY <1>2, IterationExists
  <2>2. f = [r \in Arrived |-> IF g[r] = r THEN r ELSE f[g[r]]]
    BY <2>1 DEF Iterates
  <2>3. P(f)
    BY <2>2
  <2>4. P(CHOOSE h : P(h))
    <3> HIDE DEF P
    <3> QED
      BY <2>3
  <2> QED
    BY <2>4 DEF ArrivalsFrom
<1>6. Iterates(ArrivalsFrom, g, Arrived)
  <2>1. ArrivalsFrom = [r \in Arrived |-> IF g[r] = r THEN r ELSE ArrivalsFrom[g[r]]]
    BY <1>5
  <2> QED
    BY <2>1 DEF Iterates
<1>7. Arrivals = ArrivalsFrom[[n \in Nodes |-> {}]]
  BY DEF Arrivals
<1>8. /\ Arrivals \in Arrived /\ g[Arrivals] = Arrivals
      /\ \A s \in Arrived : Within(g[s], s) => Within(Arrivals, s)
  <2> HIDE DEF g
  <2> QED
    BY <1>1, <1>2, <1>3, <1>4, <1>6, <1>7, IterationIsLeast
<1>9. ASSUME NEW s \in Arrived, \A n \in Nodes : ArriveNext(s)[n] \subseteq s[n]
      PROVE  \A n \in Nodes : Arrivals[n] \subseteq s[n]
  <2>1. DOMAIN g[s] = Nodes /\ DOMAIN Arrivals = Nodes
    BY <1>2, <1>8 DEF Arrived
  <2>2. Within(g[s], s)
    BY <1>9, <2>1 DEF Within
  <2> QED
    BY <1>8, <2>1, <2>2 DEF Within
<1> QED
  BY <1>8, <1>9

(* An arrival has tombstones only on places that the function moves. *)
LEMMA ArrivalsMoved ==
  ASSUME IsFunction(fn), Transparent
  PROVE  \A n \in Nodes : \A t \in Arrivals[n] : \A v \in Vars : t[v] \subseteq Moves(v)
<1> DEFINE s == [n \in Nodes |-> {t \in Tombs : \A v \in Vars : t[v] \subseteq Moves(v)}]
<1>1. s \in Arrived
  BY DEF Arrived
<1>2. ASSUME NEW n \in Nodes, NEW t \in ArriveNext(s)[n]
      PROVE  t \in s[n]
  <2>1. t \in Tombs
    BY <1>1, NextArrived DEF Arrived
  <2>2. CASE t = NoTombs
    BY <2>1, <2>2 DEF NoTombs
  <2>3. CASE \E m \in preds(n) : \E u \in s[m] : t = Pass(u, fn.code[m])
    <3>1. PICK m \in preds(n) : \E u \in s[m] : t = Pass(u, fn.code[m])
      BY <2>3
    <3>2. PICK u \in s[m] : t = Pass(u, fn.code[m])
      BY <3>1
    <3>3. m \in Nodes /\ fn.code[m] \in Instrs /\ fn.code[m].op # "capture"
      BY DEF preds, IsFunction, Nodes, Transparent
    <3>4. u \in Tombs /\ \A v \in Vars : u[v] \subseteq Moves(v)
      BY <3>2, <3>3
    <3>5. MovedPlaces(fn.code[m]) \subseteq Moves(fn.code[m].var)
      BY <3>3 DEF Moves
    <3>6. \A v \in Vars : t[v] \subseteq Moves(v)
      <4> HIDE DEF s
      <4> QED
        BY <3>2, <3>3, <3>4, <3>5, PassPlaces
    <3> QED
      BY <2>1, <3>6
  <2>4. t = NoTombs \/ \E m \in preds(n) : \E u \in s[m] : t = Pass(u, fn.code[m])
    <3> HIDE DEF s
    <3> QED
      BY <1>2, NextAt
  <2> QED
    BY <2>2, <2>3, <2>4
<1>3. \A n \in Nodes : Arrivals[n] \subseteq s[n]
  <2> HIDE DEF s
  <2> QED
    BY <1>1, <1>2, ArrivalsLeast
<1> QED
  BY <1>3

-----------------------------------------------------------------------------
(* The inductive invariant of the analysis: each fact is brought about by  *)
(* arrivals, and is the entry state where the sweep has not been.          *)
NodeWitnessed(r, n) ==
  Witnessed(ins[n], r[n]) /\ Witnessed(outs[n], Passed(r[n], fn.code[n]))

FactsWitnessed ==
  /\ \A n \in Nodes \ visited : ins[n] = entry
  /\ Transparent /\ NoDeadCode =>
       \A r \in Arrived : ArriveNext(r) = r => \A n \in visited : NodeWitnessed(r, n)

(* A verdict against the function stands at the node it was found at. *)
RejectedAt ==
  /\ verdict = "none" <=> phase \in {"fix", "report"}
  /\ Rejected => phase = "done" /\ cursor \in Nodes /\ ReportState(cursor) # "Owned"

ExactInv == IInv /\ FactsWitnessed /\ RejectedAt

(* More arrivals bring about at least as much. *)
LEMMA MoreWitnesses ==
  ASSUME NEW s, NEW T, NEW U, T \subseteq U, Witnessed(s, T)
  PROVE  Witnessed(s, U)
BY DEF Witnessed

(* The facts that a visit stores are brought about by arrivals. *)
LEMMA VisitWitnessed ==
  ASSUME TypeOK, Transparent, NoDeadCode, NEW r \in Arrived, ArriveNext(r) = r,
         \A n \in visited : NodeWitnessed(r, n),
         NEW c \in Nodes, Reached(c)
  PROVE  Witnessed(new_in(c), r[c]) /\ Witnessed(new_out(c), Passed(r[c], fn.code[c]))
<1>1. fn.code[c] \in Instrs /\ ~fn.code[c].region /\ fn.code[c].op # "capture"
      /\ r[c] \in SUBSET Tombs
  BY DEF TypeOK, IsFunction, Nodes, Transparent, Arrived
<1>2. ASSUME isEntry(c)
      PROVE  Witnessed(new_in(c), r[c])
  <2>1. c = 0 /\ new_in(c) = entry
    BY <1>2 DEF isEntry, NoDeadCode, new_in
  <2>2. NoTombs \in r[c]
    BY <2>1, NextAt
  <2>3. Witnessed(entry, r[c])
    BY <2>2 DEF Witnessed, entry, owned, NoTombs, Gone
  <2> QED
    BY <2>1, <2>3
<1>3. ASSUME ~isEntry(c)
      PROVE  Witnessed(new_in(c), r[c])
  <2> DEFINE M == preds(c) \cap visited
             ss == {outs[m] : m \in M}
             Ts == {Passed(r[m], fn.code[m]) : m \in M}
  <2>1. ss # {} /\ new_in(c) = join_states(ss)
    BY <1>3 DEF Reached, new_in
  <2>2. \A s \in ss : \E T \in Ts : Witnessed(s, T)
    BY DEF NodeWitnessed
  <2>3. Witnessed(new_in(c), UNION Ts)
    <3> HIDE DEF ss, Ts
    <3> QED
      BY <2>1, <2>2, JoinWitnessed
  <2>4. UNION Ts \subseteq r[c]
    <3>1. \A m \in M : \A t \in Passed(r[m], fn.code[m]) : t \in r[c]
      BY NextAt DEF Passed
    <3> QED
      BY <3>1
  <2> QED
    BY <2>3, <2>4, MoreWitnesses
<1>4. Witnessed(new_in(c), r[c])
  BY <1>2, <1>3
<1>5. new_in(c) \in State
  BY StateTypes DEF new_in, TypeOK
<1> QED
  BY <1>1, <1>4, <1>5, EffectWitnessed DEF new_out

(* Nothing but the function under analysis decides the arrivals. *)
LEMMA SameArrivals ==
  ASSUME fn' = fn
  PROVE  /\ Nodes' = Nodes /\ Arrived' = Arrived
         /\ Transparent' = Transparent /\ NoDeadCode' = NoDeadCode
         /\ \A r : ArriveNext(r)' = ArriveNext(r)
BY DEF Nodes, Arrived, Transparent, NoDeadCode, ArriveNext, preds

(* Each step keeps the facts brought about. *)
LEMMA FactsWitnessedStep ==
  ASSUME TypeOK, FactsWitnessed, [Next]_vars
  PROVE  FactsWitnessed'
<1>1. fn' = fn /\ Nodes' = Nodes /\ fn.size \in Nat
  BY FunctionFixed DEF TypeOK
<1>2. /\ Arrived' = Arrived /\ Transparent' = Transparent /\ NoDeadCode' = NoDeadCode
      /\ \A r : ArriveNext(r)' = ArriveNext(r)
  BY <1>1, SameArrivals
<1>3. CASE UNCHANGED <<visited, ins, outs>>
  <2>1. \A n \in Nodes \ visited' : ins'[n] = entry
    BY <1>3 DEF FactsWitnessed
  <2>2. ASSUME Transparent, NoDeadCode, NEW r \in Arrived, ArriveNext(r) = r,
               NEW n \in visited'
        PROVE  NodeWitnessed(r, n)'
    <3>1. NodeWitnessed(r, n)
      BY <1>3, <2>2 DEF FactsWitnessed
    <3> QED
      BY <1>1, <1>3, <3>1 DEF NodeWitnessed, Witnessed, Passed
  <2> QED
    BY <1>1, <1>2, <2>1, <2>2 DEF FactsWitnessed
<1>4. CASE UpdateNode
  <2>1. /\ cursor \in Nodes /\ Reached(cursor)
        /\ visited' = visited \union {cursor}
        /\ ins' = [ins EXCEPT ![cursor] = new_in(cursor)]
        /\ outs' = [outs EXCEPT ![cursor] = new_out(cursor)]
    BY <1>1, <1>4 DEF UpdateNode, Nodes, TypeOK
  <2>2. DOMAIN ins = Nodes /\ DOMAIN outs = Nodes /\ visited \subseteq Nodes
    BY DEF TypeOK
  <2>3. \A n \in Nodes \ visited' : ins'[n] = entry
    BY <2>1, <2>2 DEF FactsWitnessed
  <2>4. ASSUME Transparent, NoDeadCode, NEW r \in Arrived, ArriveNext(r) = r,
               NEW n \in visited'
        PROVE  NodeWitnessed(r, n)'
    <3>1. \A m \in visited : NodeWitnessed(r, m)
      BY <2>4 DEF FactsWitnessed
    <3>2. CASE n = cursor
      <4>1. ins'[n] = new_in(n) /\ outs'[n] = new_out(n)
        BY <2>1, <2>2, <3>2
      <4>2. Witnessed(new_in(n), r[n]) /\ Witnessed(new_out(n), Passed(r[n], fn.code[n]))
        BY <2>1, <2>4, <3>1, <3>2, VisitWitnessed
      <4> QED
        BY <1>1, <4>1, <4>2 DEF NodeWitnessed, Witnessed, Passed
    <3>3. CASE n # cursor
      <4>1. n \in visited /\ ins'[n] = ins[n] /\ outs'[n] = outs[n]
        BY <2>1, <2>2, <3>3
      <4>2. NodeWitnessed(r, n)
        BY <3>1, <4>1
      <4> QED
        BY <1>1, <4>1, <4>2 DEF NodeWitnessed, Witnessed, Passed
    <3> QED
      BY <3>2, <3>3
  <2> QED
    BY <1>1, <1>2, <2>3, <2>4 DEF FactsWitnessed
<1> QED
  BY <1>3, <1>4 DEF Next, Sweep, Report, Machine, SkipNode, KeepNode, NextSweep,
     EndFixpoint, ReportClean, ReportViolation, Accept, Step, Return, TouchMoved,
     Finished, vars, analysisVars

(* A verdict is given once, at the node where the reporting pass stands. *)
LEMMA RejectedAtStep ==
  ASSUME TypeOK, RejectedAt, [Next]_vars
  PROVE  RejectedAt'
<1>1. fn' = fn /\ Nodes' = Nodes /\ fn.size \in Nat
  BY FunctionFixed DEF TypeOK
<1>2. CASE Sweep \/ ReportClean
  <2>1. phase \in {"fix", "report"} /\ phase' \in {"fix", "report"} /\ verdict' = verdict
    BY <1>2 DEF Sweep, SkipNode, KeepNode, UpdateNode, NextSweep, EndFixpoint, ReportClean
  <2> QED
    BY <2>1 DEF RejectedAt, Rejected
<1>3. CASE ReportViolation
  <2>1. /\ cursor \in Nodes /\ ReportState(cursor) # "Owned" /\ phase' = "done"
        /\ verdict' # "none" /\ UNCHANGED <<cursor, visited, ins, outs>>
    BY <1>1, <1>3 DEF ReportViolation, analysisVars, Nodes, TypeOK
  <2>2. ReportState(cursor)' = ReportState(cursor)
    BY <1>1, <2>1 DEF ReportState
  <2> QED
    BY <1>1, <2>1, <2>2 DEF RejectedAt
<1>4. CASE Accept
  BY <1>4 DEF Accept, RejectedAt, Rejected
<1>5. CASE Machine
  <2>1. phase = "run" /\ phase' \in {"run", "done"} /\ verdict' = verdict
    BY <1>5 DEF Machine, Step, Return, TouchMoved
  <2> QED
    BY <2>1 DEF RejectedAt, Rejected
<1>6. CASE UNCHANGED vars
  <2>1. UNCHANGED <<phase, verdict, cursor, visited, ins, outs>>
    BY <1>6 DEF vars, analysisVars
  <2>2. ReportState(cursor)' = ReportState(cursor)
    BY <1>1, <2>1 DEF ReportState
  <2> QED
    BY <1>1, <2>1, <2>2 DEF RejectedAt, Rejected
<1> QED
  BY <1>2, <1>3, <1>4, <1>5, <1>6 DEF Next, Report, Finished

(* The invariant with the reasons of the facts holds of every behaviour. *)
THEOREM ExactInvariant == Spec => []ExactInv
<1>1. Init => FactsWitnessed /\ RejectedAt
  BY DEF Init, FactsWitnessed, RejectedAt, Rejected
<1>2. IInv /\ FactsWitnessed /\ RejectedAt /\ [Next]_vars
        => FactsWitnessed' /\ RejectedAt'
  BY FactsWitnessedStep, RejectedAtStep DEF IInv
<1> QED
  BY <1>1, <1>2, Invariant, PTL DEF Spec, ExactInv

-----------------------------------------------------------------------------
(* A function that is rejected has, in its arrivals, one that touches a     *)
(* moved value at the node of the verdict.                                 *)
LEMMA RejectedJustified == ExactInv => RejectionsAreJustified
<1> SUFFICES ASSUME ExactInv, Rejected, Transparent, NoDeadCode, ElementsStay
             PROVE  \E t \in Arrivals[cursor] : Touches(t, fn.code[cursor])
  BY DEF RejectionsAreJustified
<1> DEFINE i == fn.code[cursor]
           T == Arrivals[cursor]
<1>1. /\ TypeOK /\ IsFunction(fn) /\ cursor \in Nodes /\ ReportState(cursor) # "Owned"
      /\ i \in Instrs /\ ~i.region /\ i.op # "capture"
  BY DEF ExactInv, IInv, RejectedAt, TypeOK, IsFunction, Nodes, Transparent
<1>2. Arrivals \in Arrived /\ ArriveNext(Arrivals) = Arrivals /\ T \in SUBSET Tombs
  BY <1>1, ArrivalsLeast DEF Arrived
<1>3. cursor \in visited
  <2>1. entry \in State /\ \A v \in Vars, p \in Paths : entry[v][p] = "Owned"
    BY StateTypes DEF entry, owned
  <2>2. i.var \in Vars /\ i.path \in Paths
    BY <1>1 DEF Instrs
  <2>3. \A p \in Paths : read(entry[i.var], p) = "Owned"
    BY <2>1, <2>2 DEF read, Tainted, whole, worst, Above, Inside
  <2>4. \A c \in SUBSET Paths : base_at(entry[i.var], c) = "Owned"
    BY <2>1, <2>2 DEF base_at, Tainted
  <2>5. TouchState(entry, i) = "Owned"
    BY <2>2, <2>3, <2>4, PlaceOrder DEF TouchState, Above
  <2> QED
    BY <1>1, <2>5 DEF ReportState
<1>4. TouchState(ins[cursor], i) # "Owned" /\ ins[cursor] \in State
  BY <1>1, <1>3 DEF ReportState, TypeOK
<1>5. Witnessed(ins[cursor], T)
  BY <1>2, <1>3 DEF ExactInv, FactsWitnessed, NodeWitnessed
<1>6. i.op = "storeIndex" => \A t \in T : i.path \notin t[i.var]
  <2>1. i.var \in Vars
    BY <1>1 DEF Instrs
  <2>2. \A t \in T : t[i.var] \subseteq Moves(i.var)
    BY <1>1, <2>1, ArrivalsMoved
  <2>3. i.op = "storeIndex" => i.path \notin Moves(i.var)
    BY <1>1 DEF ElementsStay
  <2> QED
    BY <2>2, <2>3
<1> QED
  BY <1>1, <1>2, <1>4, <1>5, <1>6, TouchJustified

(* No spurious UseAfterMove or ConditionallyMoved: where the analysis       *)
(* rejects a function, some execution touches a moved value.               *)
THEOREM RejectionsHaveReasons == Spec => []RejectionsAreJustified
<1> QED
  BY ExactInvariant, RejectedJustified, PTL

(* In a function that passes the check every fact holds of every arrival. *)
LEMMA FactsHold ==
  ASSUME TypeOK, Transparent, NoDeadCode, \A n \in Nodes : Consistent(n),
         \A n \in Nodes : ReportState(n) = "Owned"
  PROVE  /\ \A n \in visited : \A t \in Arrivals[n] : Holds(t, ins[n])
         /\ \A n \in Nodes \ visited : Arrivals[n] = {}
<1> DEFINE s == [n \in Nodes |-> IF n \in visited THEN {t \in Tombs : Holds(t, ins[n])} ELSE {}]
<1>1. s \in Arrived
  BY DEF Arrived
<1>2. ASSUME NEW n \in Nodes, NEW t \in ArriveNext(s)[n]
      PROVE  t \in s[n]
  <2>1. t \in Tombs
    BY <1>1, NextArrived DEF Arrived, TypeOK
  <2>2. CASE n = 0 /\ t = NoTombs
    <3>1. n \in visited /\ ins[n] = entry
      BY <2>2 DEF Consistent, Reached, Settled, isEntry, new_in
    <3>2. Holds(t, entry)
      BY <2>2 DEF Holds, entry, owned, NoTombs, Gone
    <3> QED
      BY <2>1, <3>1, <3>2
  <2>3. CASE \E m \in preds(n) : \E u \in s[m] : t = Pass(u, fn.code[m])
    <3>1. PICK m \in preds(n) : \E u \in s[m] : t = Pass(u, fn.code[m])
      BY <2>3
    <3>2. PICK u \in s[m] : t = Pass(u, fn.code[m])
      BY <3>1
    <3>3. /\ m \in Nodes /\ fn.code[m] \in Instrs /\ ~fn.code[m].region
          /\ fn.code[m].op # "capture" /\ n \in fn.succ[m]
      BY DEF preds, TypeOK, IsFunction, Nodes, Transparent
    <3>4. m \in visited /\ u \in Tombs /\ Holds(u, ins[m]) /\ ins[m] \in State
      BY <3>2, <3>3 DEF TypeOK
    <3>5. TouchState(ins[m], fn.code[m]) = "Owned"
      BY <3>3, <3>4 DEF ReportState
    <3>6. outs[m] = apply_effects(ins[m], fn.code[m])
      BY <3>3, <3>4 DEF Consistent, Settled, new_out
    <3>7. Holds(t, outs[m])
      BY <3>2, <3>3, <3>4, <3>5, <3>6, EffectHolds
    <3>8. ~isEntry(n)
      <4>1. n # 0
        BY <3>3 DEF TypeOK, IsFunction, Nodes
      <4> QED
        BY <3>1, <4>1 DEF isEntry
    <3>9. n \in visited /\ ins[n] = join_states({outs[k] : k \in preds(n) \cap visited})
      BY <3>1, <3>4, <3>8 DEF Consistent, Reached, Settled, new_in
    <3>10. Holds(t, ins[n])
      <4>1. outs[m] \in {outs[k] : k \in preds(n) \cap visited}
        BY <3>1, <3>4
      <4> QED
        BY <3>7, <3>9, <4>1, JoinHolds
    <3> QED
      BY <2>1, <3>9, <3>10
  <2>4. (n = 0 /\ t = NoTombs) \/ \E m \in preds(n) : \E u \in s[m] : t = Pass(u, fn.code[m])
    <3> HIDE DEF s
    <3> QED
      BY <1>2, NextAt
  <2> QED
    BY <2>2, <2>3, <2>4
<1>3. \A n \in Nodes : Arrivals[n] \subseteq s[n]
  <2> HIDE DEF s
  <2> QED
    BY <1>1, <1>2, ArrivalsLeast DEF TypeOK
<1> QED
  BY <1>3 DEF TypeOK

(* Facts that are brought about by the arrivals and hold of each of them    *)
(* are their summary.                                                      *)
LEMMA SummaryOf ==
  ASSUME NEW s \in State, NEW T, Witnessed(s, T), \A t \in T : Holds(t, s)
  PROVE  s = Summary(T)
<1>1. ASSUME NEW v \in Vars, NEW p \in Paths
      PROVE  s[v][p] = join({StateOf(t, v, p) : t \in T})
  <2>1. \A t \in T : StateOf(t, v, p) = IF Gone(t, v, p) THEN "Moved" ELSE "Owned"
    BY DEF StateOf, Gone
  <2>2. s[v][p] \in Own
    BY DEF State, Node
  <2>3. CASE s[v][p] = "Owned"
    <3>1. \A t \in T : StateOf(t, v, p) = "Owned"
      BY <2>1, <2>3 DEF Holds
    <3> QED
      BY <2>3, <3>1 DEF join
  <2>4. CASE s[v][p] = "Moved"
    <3>1. \A t \in T : StateOf(t, v, p) = "Moved"
      BY <2>1, <2>4 DEF Holds
    <3>2. \E t \in T : StateOf(t, v, p) = "Moved"
      BY <2>1, <2>4 DEF Witnessed
    <3> QED
      BY <2>4, <3>1, <3>2 DEF join
  <2>5. CASE s[v][p] = "MaybeMoved"
    <3>1. \E t \in T : StateOf(t, v, p) = "Moved"
      BY <2>1, <2>5 DEF Witnessed
    <3>2. \E t \in T : StateOf(t, v, p) = "Owned"
      BY <2>1, <2>5 DEF Witnessed
    <3> QED
      BY <2>5, <3>1, <3>2 DEF join
  <2> QED
    BY <2>2, <2>3, <2>4, <2>5 DEF Own
<1>2. s = [v \in Vars |-> [p \in Paths |-> s[v][p]]]
  BY DEF State, Node
<1> QED
  BY <1>1, <1>2 DEF Summary

(* Once the reporting pass has gone through, the facts are the summary of   *)
(* the arrivals.                                                           *)
LEMMA AcceptedExact == ExactInv => AcceptedFactsAreExact
<1> SUFFICES ASSUME ExactInv, phase = "report", cursor = fn.size, Transparent, NoDeadCode,
                    NEW n \in Nodes
             PROVE  ins[n] = Summary(Arrivals[n])
  BY DEF AcceptedFactsAreExact
<1>1. TypeOK /\ IsFunction(fn) /\ \A m \in Nodes : Consistent(m)
  BY DEF ExactInv, IInv, SweepConsistent, TypeOK
<1>2. \A m \in Nodes : ReportState(m) = "Owned"
  <2>1. \A m \in Nodes : m < fn.size
    BY <1>1 DEF IsFunction, Nodes
  <2> QED
    BY <2>1 DEF ExactInv, IInv, ReportedClean
<1>3. Arrivals \in Arrived /\ ArriveNext(Arrivals) = Arrivals
  BY <1>1, ArrivalsLeast
<1>4. CASE n \in visited
  <2>1. Witnessed(ins[n], Arrivals[n])
    BY <1>3, <1>4 DEF ExactInv, FactsWitnessed, NodeWitnessed
  <2>2. \A t \in Arrivals[n] : Holds(t, ins[n])
    BY <1>1, <1>2, <1>4, FactsHold
  <2>3. ins[n] \in State
    BY <1>1 DEF TypeOK
  <2> QED
    BY <2>1, <2>2, <2>3, SummaryOf
<1>5. CASE n \notin visited
  <2>1. Arrivals[n] = {}
    BY <1>1, <1>2, <1>5, FactsHold
  <2>2. ins[n] = entry
    BY <1>5 DEF ExactInv, FactsWitnessed
  <2>3. Summary({}) = entry
    BY DEF Summary, join, entry, owned
  <2> QED
    BY <2>1, <2>2, <2>3
<1> QED
  BY <1>4, <1>5

(* In an accepted function the analysis is exact: Moved on every path,      *)
(* Owned on every path, MaybeMoved otherwise, with nothing spurious at the  *)
(* heads of loops.                                                         *)
THEOREM FactsAreExact == Spec => []AcceptedFactsAreExact
<1> QED
  BY ExactInvariant, AcceptedExact, PTL
=============================================================================
