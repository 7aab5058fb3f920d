---------------------------- MODULE LeastFixpoint ----------------------------
(***************************************************************************)
(* A monotone function on finite families of finite sets, applied again    *)
(* and again to the empty family, ends in its least fixpoint.  The         *)
(* reference definitions of the analyses are computed that way, by         *)
(* recursion; with the two facts below a proof can use them although it    *)
(* cannot unfold the recursion.  They and induction up to a bound follow   *)
(* from the well-foundedness of the subsets of a finite set.               *)
(***************************************************************************)
EXTENDS FiniteSetTheorems, WellFoundedInduction, TLAPS

(* Induction up to N, with a set in the place of a predicate. *)
LEMMA RangeInduction ==
  ASSUME NEW N \in Nat, NEW S, 0 \in S, \A k \in 1 .. N : k - 1 \in S => k \in S
  PROVE  \A k \in 0 .. N : k \in S
<1> SUFFICES ASSUME NEW bad \in 0 .. N, bad \notin S
             PROVE  FALSE
  OBVIOUS
<1> DEFINE U == 0 .. N
           T == {0 .. k : k \in U \ S}
<1>1. IsFiniteSet(U)
  BY FS_Interval
<1>2. T \subseteq FiniteSubsetsOf(U) /\ T # {}
  <2>1. \A k \in U \ S : IsFiniteSet(0 .. k) /\ 0 .. k \in SUBSET U
    BY FS_Interval
  <2> QED
    BY <2>1 DEF FiniteSubsetsOf
<1>3. PICK u \in T : \A y \in T : ~(<<y, u>> \in StrictSubsetOrdering(U))
  <2> HIDE DEF T, U
  <2> QED
    BY <1>1, <1>2, FS_StrictSubsetOrderingWellFounded, WFMin
<1>4. PICK k \in U \ S : u = 0 .. k
  BY <1>3
<1>5. k \in 1 .. N /\ k - 1 \in U /\ k - 1 \notin S
  BY <1>4
<1>6. 0 .. k - 1 \in T /\ 0 .. k - 1 \subseteq 0 .. k /\ 0 .. k - 1 # 0 .. k
  <2>1. k \in 0 .. k /\ k \notin 0 .. k - 1
    BY <1>5
  <2>2. 0 .. k - 1 \subseteq 0 .. k
    BY <1>5
  <2> QED
    BY <1>5, <2>1, <2>2
<1>7. 0 .. k \in SUBSET U /\ 0 .. k - 1 \in SUBSET U
  BY <1>5
<1> QED
  BY <1>3, <1>4, <1>6, <1>7 DEF StrictSubsetOrdering

-----------------------------------------------------------------------------
(* Families of subsets of E, one for each member of K. *)
Families(K, E) == [K -> SUBSET E]
Within(r, s) == \A k \in DOMAIN r : r[k] \subseteq s[k]

(* f follows g until nothing changes any more. *)
Iterates(f, g, S) == f = [r \in S |-> IF g[r] = r THEN r ELSE f[g[r]]]

(* The members of S from which g leads to x. *)
LeadTo(g, S, x) ==
  {y \in S : \A U \in SUBSET S :
     x \in U /\ (\A z \in S : g[z] \in U => z \in U) => y \in U}

(* Where g leads to is a matter of one step. *)
LEMMA LeadToStep ==
  ASSUME NEW S, NEW g \in [S -> S], NEW x \in S, g[x] = x
  PROVE  /\ x \in LeadTo(g, S, x)
         /\ \A y \in S : y \in LeadTo(g, S, x) <=> g[y] \in LeadTo(g, S, x)
<1> DEFINE P == LeadTo(g, S, x)
<1>1. x \in P
  BY DEF LeadTo
<1>2. ASSUME NEW y \in S, g[y] \in P
      PROVE  y \in P
  BY <1>2 DEF LeadTo
<1>3. ASSUME NEW y \in S, y \in P
      PROVE  g[y] \in P
  <2> DEFINE U == {z \in P : g[z] \in P}
  <2>1. U \in SUBSET S
    BY DEF LeadTo
  <2>2. x \in U
    BY <1>1
  <2>3. \A z \in S : g[z] \in U => z \in U
    BY <1>2
  <2>4. y \in U
    BY <1>3, <2>1, <2>2, <2>3 DEF LeadTo
  <2> QED
    BY <2>4
<1> QED
  BY <1>1, <1>2, <1>3

(* From one place g leads to one fixpoint only. *)
LEMMA LeadToOne ==
  ASSUME NEW S, NEW g \in [S -> S], NEW x \in S, NEW z \in S, g[x] = x, g[z] = z,
         NEW y \in S, y \in LeadTo(g, S, x), y \in LeadTo(g, S, z)
  PROVE  x = z
<1> DEFINE P == LeadTo(g, S, x)
           U == P \ {z}
<1> SUFFICES ASSUME x # z PROVE FALSE
  OBVIOUS
<1>1. /\ x \in P /\ P \subseteq S
      /\ \A w \in S : w \in P <=> g[w] \in P
  BY LeadToStep DEF LeadTo
<1> HIDE DEF P
<1>2. x \in U /\ U \in SUBSET S
  BY <1>1
<1>3. ASSUME NEW w \in S, g[w] \in U
      PROVE  w \in U
  BY <1>1, <1>3
<1>4. z \in P
  <2> SUFFICES ASSUME z \notin P PROVE FALSE
    OBVIOUS
  <2>1. z \in S \ P /\ S \ P \in SUBSET S
    OBVIOUS
  <2>2. \A w \in S : g[w] \in S \ P => w \in S \ P
    BY <1>1
  <2>3. y \in S \ P
    BY <2>1, <2>2 DEF LeadTo
  <2> QED
    BY <2>3 DEF P
<1>5. \A y1 \in P : y1 \in U
  BY <1>2, <1>3 DEF P, LeadTo
<1> QED
  BY <1>4, <1>5

(* So there is a function that follows g, and the recursion defines one. *)
LEMMA IterationExists ==
  ASSUME NEW S, NEW g \in [S -> S]
  PROVE  \E f : Iterates(f, g, S)
<1> DEFINE Ends(y) == {x \in S : g[x] = x /\ y \in LeadTo(g, S, x)}
           f == [y \in S |-> CHOOSE x \in Ends(y) : TRUE]
<1>1. ASSUME NEW y \in S, g[y] = y
      PROVE  f[y] = y
  <2>1. y \in Ends(y)
    BY <1>1, LeadToStep
  <2>2. \A x \in Ends(y) : x = y
    BY <1>1, <2>1, LeadToOne
  <2> HIDE DEF Ends
  <2> QED
    BY <2>1, <2>2
<1>2. ASSUME NEW y \in S
      PROVE  Ends(g[y]) = Ends(y)
  BY LeadToStep
<1>3. \A y \in S : f[g[y]] = f[y]
  <2> HIDE DEF Ends
  <2> QED
    BY <1>2
<1>4. f = [y \in S |-> IF g[y] = y THEN y ELSE f[g[y]]]
  <2>1. \A y \in S : f[y] = IF g[y] = y THEN y ELSE f[g[y]]
    BY <1>1, <1>3
  <2>2. f = [y \in S |-> f[y]]
    OBVIOUS
  <2> HIDE DEF f
  <2> QED
    BY <2>1, <2>2
<1> QED
  BY <1>4 DEF Iterates

(* It gives the fixpoint that g leads to. *)
LEMMA IterationArrives ==
  ASSUME NEW S, NEW g \in [S -> S], NEW f, Iterates(f, g, S),
         NEW x \in S, g[x] = x, NEW y \in S, y \in LeadTo(g, S, x)
  PROVE  f[y] = x
<1> DEFINE U == {z \in S : f[z] = x}
<1>1. \A z \in S : f[z] = IF g[z] = z THEN z ELSE f[g[z]]
  BY DEF Iterates
<1>2. x \in U /\ U \in SUBSET S
  BY <1>1
<1>3. \A z \in S : g[z] \in U => z \in U
  BY <1>1
<1>4. y \in U
  BY <1>2, <1>3 DEF LeadTo
<1> QED
  BY <1>4

(* The families between the empty one and every one that g does not add to. *)
Growing(g, K, E) ==
  {r \in Families(K, E) :
     Within(r, g[r]) /\ \A s \in Families(K, E) : Within(g[s], s) => Within(r, s)}

Monotone(g, K, E) ==
  \A r, s \in Families(K, E) : Within(r, s) => Within(g[r], g[s])

(* A monotone step stays between them. *)
LEMMA GrowingStep ==
  ASSUME NEW K, NEW E, NEW g \in [Families(K, E) -> Families(K, E)],
         Monotone(g, K, E), NEW r \in Growing(g, K, E)
  PROVE  g[r] \in Growing(g, K, E)
<1>1. r \in Families(K, E) /\ g[r] \in Families(K, E) /\ Within(r, g[r])
  BY DEF Growing
<1>2. Within(g[r], g[g[r]])
  BY <1>1 DEF Monotone
<1>3. ASSUME NEW s \in Families(K, E), Within(g[s], s)
      PROVE  Within(g[r], s)
  <2>1. Within(r, s)
    BY <1>3 DEF Growing
  <2>2. Within(g[r], g[s])
    BY <1>1, <2>1 DEF Monotone
  <2>3. DOMAIN g[r] = K /\ DOMAIN g[s] = K
    BY <1>1 DEF Families
  <2> QED
    BY <1>3, <2>2, <2>3 DEF Within
<1> QED
  BY <1>1, <1>2, <1>3 DEF Growing

(* As a family cannot grow for ever, every growing one leads to a fixpoint. *)
LEMMA GrowingEnds ==
  ASSUME NEW K, NEW E, IsFiniteSet(K), IsFiniteSet(E),
         NEW g \in [Families(K, E) -> Families(K, E)], Monotone(g, K, E),
         NEW r \in Growing(g, K, E)
  PROVE  \E x \in Families(K, E) : g[x] = x /\ r \in LeadTo(g, Families(K, E), x)
<1> DEFINE S == Families(K, E)
           U == K \X E
           Missing(s) == {ke \in U : ke[2] \notin s[ke[1]]}
           Lost == {s \in Growing(g, K, E) :
                      \A x \in S : g[x] = x => s \notin LeadTo(g, S, x)}
           T == {Missing(s) : s \in Lost}
<1> SUFFICES ASSUME r \in Lost PROVE FALSE
  OBVIOUS
<1>1. IsFiniteSet(U)
  BY FS_Product
<1>2. T \subseteq FiniteSubsetsOf(U) /\ T # {}
  <2>1. \A s : Missing(s) \in SUBSET U
    OBVIOUS
  <2>2. \A s : IsFiniteSet(Missing(s))
    <3> HIDE DEF U, Missing
    <3> QED
      BY <1>1, <2>1, FS_Subset
  <2>3. \A s : Missing(s) \in FiniteSubsetsOf(U)
    <3> HIDE DEF U, Missing
    <3> QED
      BY <2>1, <2>2 DEF FiniteSubsetsOf
  <2> HIDE DEF Missing, Lost
  <2> QED
    BY <2>3
<1>3. PICK m \in T : \A y \in T : ~(<<y, m>> \in StrictSubsetOrdering(U))
  <2> HIDE DEF T, U
  <2> QED
    BY <1>2, FS_StrictSubsetOrderingWellFounded, WFMin
<1>4. PICK s \in Lost : m = Missing(s)
  BY <1>3
<1>5. s \in Growing(g, K, E) /\ s \in S /\ g[s] \in S /\ Within(s, g[s])
  BY <1>4 DEF Growing
<1>6. g[s] # s
  BY <1>4, <1>5, LeadToStep
<1>7. g[s] \in Lost
  <2>1. g[s] \in Growing(g, K, E)
    BY <1>5, GrowingStep
  <2>2. \A x \in S : g[x] = x => g[s] \notin LeadTo(g, S, x)
    BY <1>4, <1>5, LeadToStep
  <2> QED
    BY <2>1, <2>2
<1>8. <<Missing(g[s]), Missing(s)>> \in StrictSubsetOrdering(U)
  <2>1. Missing(g[s]) \subseteq Missing(s)
    BY <1>5 DEF Within, Families
  <2>2. PICK k \in K : g[s][k] # s[k]
    BY <1>5, <1>6 DEF Families
  <2>3. PICK e \in E : e \in g[s][k] /\ e \notin s[k]
    BY <1>5, <2>2 DEF Within, Families
  <2>4. <<k, e>> \in Missing(s) /\ <<k, e>> \notin Missing(g[s])
    BY <2>3
  <2>5. Missing(g[s]) \in SUBSET U /\ Missing(s) \in SUBSET U
    OBVIOUS
  <2> HIDE DEF Missing, U
  <2> QED
    BY <2>1, <2>4, <2>5 DEF StrictSubsetOrdering
<1>9. Missing(g[s]) \in T
  BY <1>7
<1> HIDE DEF Missing, T, U, Lost
<1> QED
  BY <1>3, <1>4, <1>8, <1>9

(* The recursion that follows a monotone g from the empty family gives the *)
(* least of the families that g does not add to, and g leaves it alone.    *)
THEOREM IterationIsLeast ==
  ASSUME NEW K, NEW E, IsFiniteSet(K), IsFiniteSet(E),
         NEW g \in [Families(K, E) -> Families(K, E)], Monotone(g, K, E),
         NEW f, Iterates(f, g, Families(K, E)), NEW x, x = f[[k \in K |-> {}]]
  PROVE  /\ x \in Families(K, E) /\ g[x] = x
         /\ \A s \in Families(K, E) : Within(g[s], s) => Within(x, s)
<1> DEFINE S == Families(K, E)
           G == Growing(g, K, E)
           bottom == [k \in K |-> {}]
<1>1. bottom \in G
  <2>1. bottom \in S
    BY DEF Families
  <2>2. \A s : Within(bottom, s)
    BY DEF Within
  <2> QED
    BY <2>1, <2>2 DEF Growing
<1>2. PICK y \in S : g[y] = y /\ bottom \in LeadTo(g, S, y)
  BY <1>1, GrowingEnds
<1>3. bottom \in S /\ f[bottom] = y
  <2>1. bottom \in S
    BY DEF Families
  <2> QED
    BY <1>2, <2>1, IterationArrives
<1>4. y \in G
  <2> DEFINE U == {z \in S : z \in G => y \in G}
  <2>1. y \in U /\ U \in SUBSET S
    BY <1>2
  <2>2. \A z \in S : g[z] \in U => z \in U
    BY GrowingStep
  <2>3. bottom \in U
    BY <1>2, <2>1, <2>2 DEF LeadTo
  <2> QED
    BY <1>1, <2>3
<1> QED
  BY <1>2, <1>3, <1>4 DEF Growing

(* A monotone function on families has a fixpoint: what the families that   *)
(* it adds nothing to have in common.                                      *)
THEOREM MonotoneHasFixpoint ==
  ASSUME NEW K, NEW E, NEW g \in [Families(K, E) -> Families(K, E)], Monotone(g, K, E)
  PROVE  \E x \in Families(K, E) : g[x] = x
<1> DEFINE S == Families(K, E)
           Pre == {s \in S : Within(g[s], s)}
           x == [k \in K |-> {e \in E : \A s \in Pre : e \in s[k]}]
<1>1. x \in S
  BY DEF Families
<1>2. \A s \in Pre : Within(x, s)
  BY DEF Within
<1>3. g[x] \in S
  <2> HIDE DEF x
  <2> QED
    BY <1>1
<1>4. \A s \in Pre : Within(g[x], s)
  <2> HIDE DEF x
  <2>1. ASSUME NEW s \in Pre
        PROVE  Within(g[x], s)
    <3>1. Within(g[x], g[s]) /\ Within(g[s], s) /\ g[s] \in S
      BY <1>1, <1>2 DEF Monotone
    <3>2. DOMAIN g[x] = K /\ DOMAIN g[s] = K
      BY <1>3, <3>1 DEF Families
    <3> QED
      BY <3>1, <3>2 DEF Within
  <2> QED
    BY <2>1
<1>5. Within(g[x], x)
  <2>1. ASSUME NEW k \in K, NEW e \in g[x][k]
        PROVE  e \in x[k]
    <3>1. e \in E
      BY <1>3 DEF Families
    <3>2. \A s \in Pre : e \in s[k]
      BY <1>3, <1>4 DEF Within, Families
    <3> QED
      BY <3>1, <3>2
  <2>2. DOMAIN g[x] = K
    BY <1>3 DEF Families
  <2> HIDE DEF x
  <2> QED
    BY <2>1, <2>2 DEF Within
<1>6. g[x] \in Pre
  <2>1. Within(g[g[x]], g[x])
    <3> HIDE DEF x
    <3> QED
      BY <1>1, <1>3, <1>5 DEF Monotone
  <2> HIDE DEF x
  <2> QED
    BY <1>3, <2>1
<1>7. Within(x, g[x])
  BY <1>2, <1>6
<1>8. g[x] = x
  <2>1. DOMAIN g[x] = K /\ DOMAIN x = K
    BY <1>3 DEF Families
  <2>2. \A k \in K : g[x][k] = x[k]
    <3> HIDE DEF x
    <3> QED
      BY <1>5, <1>7, <2>1 DEF Within
  <2> HIDE DEF x
  <2> QED
    BY <1>1, <1>3, <2>1, <2>2 DEF Families
<1> QED
  BY <1>1, <1>8
=============================================================================
