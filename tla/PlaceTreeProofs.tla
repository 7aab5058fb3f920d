--------------------------- MODULE PlaceTreeProofs ---------------------------
(***************************************************************************)
(* Proofs about PlaceTree for every set of keys and every set of places    *)
(* that contains what is around each of its members.                       *)
(***************************************************************************)
EXTENDS PlaceTree, FiniteSetTheorems, WellFoundedInduction, TLAPS

(* A set of natural numbers has a least one.                               *)
LEMMA LeastNatural ==
  ASSUME NEW S \in SUBSET Nat, S # {}
  PROVE  \E m \in S : \A k \in S : m <= k
<1>1. PICK n \in S : TRUE
  OBVIOUS
<1> DEFINE U == 0..n
           T == {0..k : k \in S \intersect U}
<1>2. IsFiniteSet(U)
  BY <1>1, FS_Interval
<1>3. T \subseteq FiniteSubsetsOf(U) /\ T # {}
  <2>1. \A k \in S \intersect U : IsFiniteSet(0..k) /\ 0..k \in SUBSET U
    BY <1>1, FS_Interval
  <2> QED
    BY <1>1, <2>1 DEF FiniteSubsetsOf
<1>4. PICK u \in T : \A y \in T : ~(<<y, u>> \in StrictSubsetOrdering(U))
  <2> HIDE DEF T, U
  <2> QED
    BY <1>3, FS_StrictSubsetOrderingWellFounded, WFMin
<1>5. PICK m \in S \intersect U : u = 0..m
  BY <1>4
<1>6. ASSUME NEW k \in S, k < m
      PROVE  FALSE
  <2>1. k \in U /\ 0..k \in T
    BY <1>6, <1>5, <1>1
  <2>2. 0..k \subseteq 0..m /\ 0..k # 0..m
    <3>1. 0..k \subseteq 0..m
      BY <1>6, <1>5
    <3>2. m \in 0..m /\ m \notin 0..k
      BY <1>6, <1>5
    <3> QED
      BY <3>1, <3>2
  <2>3. 0..k \in SUBSET U /\ 0..m \in SUBSET U
    BY <2>1, <1>5, <1>1
  <2>4. <<0..k, u>> \in StrictSubsetOrdering(U)
    BY <1>5, <2>2, <2>3 DEF StrictSubsetOrdering
  <2> QED
    BY <2>1, <2>4, <1>4
<1> QED
  BY <1>5, <1>6

-----------------------------------------------------------------------------
(* What it is for a place to be another or around it: the prefixes.        *)
LEMMA PrefixIs ==
  ASSUME NEW p \in Places, NEW q \in Places
  PROVE  IsPrefix(p, q) <=> Len(p) <= Len(q) /\ \A i \in 1..Len(p) : p[i] = q[i]
<1>1. p \in Seq(Key) /\ q \in Seq(Key)
  BY PlacesAssumption
<1> QED
  BY <1>1 DEF IsPrefix

LEMMA PrefixOrder ==
  /\ \A p \in Places : IsPrefix(p, p) /\ IsPrefix(<<>>, p)
  /\ \A p, q \in Places : IsPrefix(p, q) /\ IsPrefix(q, p) => p = q
  /\ \A p, q, r \in Places : IsPrefix(p, q) /\ IsPrefix(q, r) => IsPrefix(p, r)
  /\ \A p, q, r \in Places :
       IsPrefix(p, r) /\ IsPrefix(q, r) => IsPrefix(p, q) \/ IsPrefix(q, p)
<1>0. Places \subseteq Seq(Key) /\ <<>> \in Places
  BY PlacesAssumption
<1>1. \A p \in Places : IsPrefix(p, p) /\ IsPrefix(<<>>, p)
  BY <1>0, PrefixIs
<1>2. \A p, q \in Places : IsPrefix(p, q) /\ IsPrefix(q, p) => p = q
  BY <1>0, PrefixIs
<1>3. \A p, q, r \in Places : IsPrefix(p, q) /\ IsPrefix(q, r) => IsPrefix(p, r)
  BY <1>0, PrefixIs
<1>4. \A p, q, r \in Places :
        IsPrefix(p, r) /\ IsPrefix(q, r) => IsPrefix(p, q) \/ IsPrefix(q, p)
  BY <1>0, PrefixIs
<1> QED
  BY <1>1, <1>2, <1>3, <1>4

(* The nodes on the way to a place, the place included.                    *)
LEMMA PrefixesAre ==
  ASSUME NEW p \in Places
  PROVE  Prefixes(p) = {q \in Places : IsPrefix(q, p)}
<1>1. p \in Seq(Key) /\ Prefixes(p) \subseteq Places
  BY PlacesAssumption
<1>2. ASSUME NEW l \in 0..Len(p)
      PROVE  IsPrefix(SubSeq(p, 1, l), p)
  <2>1. SubSeq(p, 1, l) \in Places
    BY <1>1 DEF Prefixes
  <2>2. Len(SubSeq(p, 1, l)) = l /\ \A i \in 1..l : SubSeq(p, 1, l)[i] = p[i]
    BY <1>1
  <2>3. IsPrefix(SubSeq(p, 1, l), p) <=>
          /\ Len(SubSeq(p, 1, l)) <= Len(p)
          /\ \A i \in 1..Len(SubSeq(p, 1, l)) : SubSeq(p, 1, l)[i] = p[i]
    BY <2>1, PrefixIs
  <2> QED
    BY <1>1, <2>2, <2>3
<1>3. ASSUME NEW q \in Places, IsPrefix(q, p)
      PROVE  q \in Prefixes(p)
  <2>1. q \in Seq(Key) /\ Len(q) \in 0..Len(p)
    BY <1>1, <1>3, PlacesAssumption, PrefixIs
  <2>2. \A i \in 1..Len(q) : p[i] = q[i]
    BY <1>3, PrefixIs
  <2>3. q = SubSeq(p, 1, Len(q))
    BY <2>1, <2>2, <1>1
  <2> QED
    BY <2>1, <2>3 DEF Prefixes
<1> QED
  BY <1>1, <1>2, <1>3 DEF Prefixes

(* Places satisfy what PlaceState and MoveAnalysis assume of them: paths   *)
(* of keys, closed under prefixes, form a tree.                            *)
THEOREM PlacesFormATree == M!PathsAssumption
<1>1. /\ <<>> \in Places
      /\ Prefixed \subseteq Places \X Places
      /\ \A p, q \in Places : <<p, q>> \in Prefixed <=> IsPrefix(p, q)
  BY PlacesAssumption DEF Prefixed
<1>2. ASSUME NEW p \in Places \ {<<>>}
      PROVE  \E q \in Places \ {p} :
               <<q, p>> \in Prefixed
                 /\ \A r \in Places \ {p} : <<r, p>> \in Prefixed => <<r, q>> \in Prefixed
  <2> DEFINE q == SubSeq(p, 1, Len(p) - 1)
  <2>1. p \in Seq(Key) /\ Len(p) \in Nat /\ Len(p) > 0
    BY PlacesAssumption
  <2>2. q \in Prefixes(p)
    BY <2>1 DEF Prefixes
  <2>3. Len(q) = Len(p) - 1 /\ \A i \in 1..Len(q) : q[i] = p[i]
    <3>1. \A l \in 0..Len(p) :
            Len(SubSeq(p, 1, l)) = l /\ \A i \in 1..l : SubSeq(p, 1, l)[i] = p[i]
      BY <2>1
    <3> DEFINE l == Len(p) - 1
    <3>2. l \in 0..Len(p)
      BY <2>1
    <3> HIDE DEF l
    <3>3. Len(SubSeq(p, 1, l)) = l /\ \A i \in 1..l : SubSeq(p, 1, l)[i] = p[i]
      BY <3>1, <3>2
    <3> QED
      BY <3>3 DEF q, l
  <2> HIDE DEF q
  <2>4. q \in Places /\ q # p /\ IsPrefix(q, p)
    BY <2>2, <2>3, <2>1, PrefixesAre
  <2>5. ASSUME NEW r \in Places \ {p}, IsPrefix(r, p)
        PROVE  IsPrefix(r, q)
    <3>1. r \in Seq(Key) /\ Len(r) <= Len(p) /\ \A i \in 1..Len(r) : r[i] = p[i]
      BY <2>5, PlacesAssumption, PrefixIs
    <3>2. Len(r) # Len(p)
      BY <2>1, <3>1
    <3> QED
      BY <2>1, <2>3, <2>4, <3>1, <3>2, PrefixIs
  <2> QED
    BY <1>1, <2>4, <2>5
<1> QED
  BY <1>1, <1>2, PrefixOrder DEF M!PathsAssumption

(* Of the places around a given one, some set of which is not empty, one   *)
(* is the outermost and one the innermost.                                 *)
LEMMA ChainEnds ==
  ASSUME NEW p \in Places, NEW S \in SUBSET Places, S # {},
         \A q \in S : IsPrefix(q, p)
  PROVE  /\ Outermost(S) \in S /\ \A r \in S : IsPrefix(Outermost(S), r)
         /\ Innermost(S) \in S /\ \A r \in S : IsPrefix(r, Innermost(S))
<1>0. \A q \in S : Len(q) \in Nat /\ Len(p) - Len(q) \in Nat
  BY PlacesAssumption, PrefixIs
<1>1. \A q, r \in S : Len(q) <= Len(r) => IsPrefix(q, r)
  BY PlacesAssumption, PrefixIs
<1>2. \E q \in S : \A r \in S : IsPrefix(q, r)
  <2> DEFINE lens == {Len(q) : q \in S}
  <2>1. lens \in SUBSET Nat /\ lens # {}
    BY <1>0
  <2>2. PICK m \in lens : \A k \in lens : m <= k
    <3> HIDE DEF lens
    <3> QED
      BY <2>1, LeastNatural
  <2> QED
    BY <1>1, <2>2
<1>3. \E q \in S : \A r \in S : IsPrefix(r, q)
  <2> DEFINE room(q) == Len(p) - Len(q)
  <2>1. PICK m \in {room(q) : q \in S} : \A k \in {room(q) : q \in S} : m <= k
    <3>1. {room(q) : q \in S} \in SUBSET Nat /\ {room(q) : q \in S} # {}
      BY <1>0
    <3> HIDE DEF room
    <3> QED
      BY <3>1, LeastNatural
  <2>2. PICK q \in S : m = room(q)
    BY <2>1
  <2>3. \A r \in S : Len(r) <= Len(q)
    <3> SUFFICES ASSUME NEW r \in S PROVE Len(r) <= Len(q)
      OBVIOUS
    <3>1. room(q) <= room(r)
      BY <2>1, <2>2
    <3> QED
      BY <3>1, <1>0, PlacesAssumption
  <2> QED
    BY <1>1, <2>3
<1>4. Outermost(S) \in S /\ \A r \in S : IsPrefix(Outermost(S), r)
  BY <1>2 DEF Outermost
<1>5. Innermost(S) \in S /\ \A r \in S : IsPrefix(r, Innermost(S))
  BY <1>3 DEF Innermost
<1> QED
  BY <1>4, <1>5

-----------------------------------------------------------------------------
(* The trees of the program: every node lies within nodes.                 *)
IsTree(t) ==
  /\ DOMAIN t \subseteq Places /\ <<>> \in DOMAIN t
  /\ \A p \in DOMAIN t : t[p] \in M!Own
  /\ \A p \in DOMAIN t, q \in Places : IsPrefix(q, p) => q \in DOMAIN t

(* The total function that a tree stands for.                              *)
Denoted(t) == [p \in Places |-> base(t, p)]

(* A place has the base of the nearest node around it.                     *)
LEMMA NearestNode ==
  ASSUME NEW t, IsTree(t), NEW p \in Places
  PROVE  \E d \in DOMAIN t :
           /\ IsPrefix(d, p) /\ base(t, p) = t[d]
           /\ \A r \in DOMAIN t : IsPrefix(r, p) => IsPrefix(r, d)
<1>1. <<>> \in OnWay(t, p) /\ OnWay(t, p) \in SUBSET Places
  BY PrefixOrder DEF OnWay, IsTree
<1>2. \A q \in OnWay(t, p) : IsPrefix(q, p)
  BY DEF OnWay
<1>3. /\ Innermost(OnWay(t, p)) \in OnWay(t, p)
      /\ \A r \in OnWay(t, p) : IsPrefix(r, Innermost(OnWay(t, p)))
  BY <1>1, <1>2, ChainEnds
<1> QED
  BY <1>3 DEF OnWay, base

LEMMA BaseIs ==
  ASSUME NEW t, IsTree(t), NEW p \in Places, NEW d \in DOMAIN t, IsPrefix(d, p),
         \A r \in DOMAIN t : IsPrefix(r, p) => IsPrefix(r, d)
  PROVE  base(t, p) = t[d]
<1>1. PICK e \in DOMAIN t :
        /\ IsPrefix(e, p) /\ base(t, p) = t[e]
        /\ \A r \in DOMAIN t : IsPrefix(r, p) => IsPrefix(r, e)
  BY NearestNode
<1>2. IsPrefix(d, e) /\ IsPrefix(e, d)
  BY <1>1
<1>3. d = e
  BY <1>2, PrefixOrder DEF IsTree
<1> QED
  BY <1>1, <1>3

LEMMA BaseOfNode ==
  ASSUME NEW t, IsTree(t), NEW p \in DOMAIN t
  PROVE  base(t, p) = t[p]
<1>1. p \in Places /\ IsPrefix(p, p)
  BY PrefixOrder DEF IsTree
<1> QED
  BY <1>1, BaseIs

LEMMA BaseType ==
  ASSUME NEW t, IsTree(t), NEW p \in Places
  PROVE  base(t, p) \in M!Own
BY NearestNode DEF IsTree

(* The walk that replaces what is at p and inside it.                      *)
LEMMA ReplaceDenotes ==
  ASSUME NEW t, IsTree(t), NEW p \in Places, NEW own \in M!Own
  PROVE  /\ IsTree(Replace(t, p, own))
         /\ \A q \in Places :
              base(Replace(t, p, own), q) = IF IsPrefix(p, q) THEN own ELSE base(t, q)
<1> DEFINE s == Replace(t, p, own)
           kept == {q \in DOMAIN t : ~IsPrefix(p, q)}
<1>1. /\ DOMAIN s = kept \union Prefixes(p)
      /\ \A q \in DOMAIN s : s[q] = IF q = p THEN own ELSE base(t, q)
  BY DEF Replace
<1>2. Prefixes(p) = {q \in Places : IsPrefix(q, p)}
  BY PrefixesAre
<1> HIDE DEF s
<1>3. DOMAIN s \subseteq Places /\ <<>> \in DOMAIN s
  BY <1>1, <1>2, PrefixOrder, PlacesAssumption DEF IsTree
<1>4. \A q \in DOMAIN s : s[q] \in M!Own
  BY <1>1, <1>3, BaseType
<1>5. ASSUME NEW q \in DOMAIN s, NEW r \in Places, IsPrefix(r, q)
      PROVE  r \in DOMAIN s
  <2>1. CASE q \in Prefixes(p)
    BY <2>1, <1>5, <1>1, <1>2, PrefixOrder
  <2>2. CASE q \in kept
    <3>1. r \in DOMAIN t
      BY <2>2, <1>5 DEF IsTree
    <3>2. ~IsPrefix(p, r)
      BY <2>2, <1>5, PrefixOrder DEF IsTree
    <3> QED
      BY <3>1, <3>2, <1>1
  <2> QED
    BY <2>1, <2>2, <1>1
<1>6. IsTree(s)
  BY <1>3, <1>4, <1>5 DEF IsTree
<1>7. ASSUME NEW q \in Places, IsPrefix(p, q)
      PROVE  base(s, q) = own
  <2>1. p \in DOMAIN s /\ s[p] = own
    BY <1>1, <1>2, PrefixOrder
  <2>2. ASSUME NEW r \in DOMAIN s, IsPrefix(r, q)
        PROVE  IsPrefix(r, p)
    BY <2>2, <1>1, <1>2, <1>3, <1>7, PrefixOrder
  <2> QED
    BY <2>1, <2>2, <1>6, <1>7, BaseIs
<1>8. ASSUME NEW q \in Places, ~IsPrefix(p, q)
      PROVE  base(s, q) = base(t, q)
  <2>1. PICK e \in DOMAIN s :
          /\ IsPrefix(e, q) /\ base(s, q) = s[e]
          /\ \A r \in DOMAIN s : IsPrefix(r, q) => IsPrefix(r, e)
    BY <1>6, NearestNode
  <2>2. PICK d \in DOMAIN t :
          /\ IsPrefix(d, q) /\ base(t, q) = t[d]
          /\ \A r \in DOMAIN t : IsPrefix(r, q) => IsPrefix(r, d)
    BY NearestNode
  <2>3. e \in Places /\ d \in Places /\ e # p
    BY <2>1, <2>2, <1>3, <1>8 DEF IsTree
  <2>4. s[e] = base(t, e)
    BY <1>1, <2>1, <2>3
  <2>5. d \in DOMAIN s
    BY <2>2, <2>3, <1>1, <1>8, PrefixOrder
  <2>6. IsPrefix(d, e)
    BY <2>1, <2>2, <2>5
  <2>7. \A r \in DOMAIN t : IsPrefix(r, e) => IsPrefix(r, d)
    BY <2>1, <2>2, <2>3, PrefixOrder DEF IsTree
  <2>8. base(t, e) = t[d]
    BY <2>3, <2>6, <2>7, BaseIs
  <2> QED
    BY <2>1, <2>2, <2>4, <2>8
<1> QED
  BY <1>6, <1>7, <1>8 DEF s

LEMMA MoveDenotes ==
  ASSUME NEW t, IsTree(t), NEW p \in Places
  PROVE  IsTree(do_move(t, p)) /\ Denoted(do_move(t, p)) = M!do_move(Denoted(t), p)
<1>1. "Moved" \in M!Own
  BY DEF M!Own
<1>2. M!Inside(p) = {q \in Places : IsPrefix(p, q)}
  BY DEF M!Inside, Prefixed
<1>3. /\ IsTree(do_move(t, p))
      /\ \A q \in Places :
           base(do_move(t, p), q) = IF q \in M!Inside(p) THEN "Moved" ELSE base(t, q)
  BY <1>1, <1>2, ReplaceDenotes DEF do_move
<1> QED
  BY <1>3 DEF Denoted, M!do_move

LEMMA DefDenotes ==
  ASSUME NEW t, IsTree(t), NEW p \in Places
  PROVE  IsTree(do_def(t, p)) /\ Denoted(do_def(t, p)) = M!do_def(Denoted(t), p)
<1>1. "Owned" \in M!Own
  BY DEF M!Own
<1>2. /\ M!Inside(p) = {q \in Places : IsPrefix(p, q)}
      /\ M!Above(p) = {q \in Places : IsPrefix(q, p) /\ q # p}
  BY DEF M!Inside, M!Above, Prefixed
<1>3. (\E q \in OnWay(t, p) \ {p} : t[q] = "Moved")
        <=> \E q \in M!Above(p) : Denoted(t)[q] = "Moved"
  <2>1. ASSUME NEW q \in OnWay(t, p) \ {p}, t[q] = "Moved"
        PROVE  \E r \in M!Above(p) : Denoted(t)[r] = "Moved"
    <3>1. q \in DOMAIN t /\ q \in Places /\ q \in M!Above(p)
      BY <1>2 DEF OnWay, IsTree
    <3>2. base(t, q) = "Moved"
      BY <2>1, <3>1, BaseOfNode
    <3> QED
      BY <3>1, <3>2 DEF Denoted
  <2>2. ASSUME NEW q \in M!Above(p), Denoted(t)[q] = "Moved"
        PROVE  \E r \in OnWay(t, p) \ {p} : t[r] = "Moved"
    <3>1. q \in Places /\ IsPrefix(q, p) /\ q # p
      BY <1>2
    <3>2. PICK d \in DOMAIN t : IsPrefix(d, q) /\ base(t, q) = t[d]
      BY <3>1, NearestNode
    <3>3. d \in OnWay(t, p) \ {p}
      BY <3>1, <3>2, PrefixOrder DEF OnWay, IsTree
    <3> QED
      BY <2>2, <3>1, <3>2, <3>3 DEF Denoted
  <2> QED
    BY <2>1, <2>2
<1>4. /\ IsTree(Replace(t, p, "Owned"))
      /\ \A q \in Places :
           base(Replace(t, p, "Owned"), q) =
             IF q \in M!Inside(p) THEN "Owned" ELSE base(t, q)
  BY <1>1, <1>2, ReplaceDenotes
<1>5. CASE \E q \in OnWay(t, p) \ {p} : t[q] = "Moved"
  <2>1. do_def(t, p) = t
    BY <1>5 DEF do_def
  <2>2. M!do_def(Denoted(t), p) = Denoted(t)
    BY <1>5, <1>3 DEF M!do_def
  <2> QED
    BY <2>1, <2>2
<1>6. CASE ~\E q \in OnWay(t, p) \ {p} : t[q] = "Moved"
  <2>1. do_def(t, p) = Replace(t, p, "Owned")
    BY <1>6 DEF do_def
  <2>2. M!do_def(Denoted(t), p) =
          [q \in Places |-> IF q \in M!Inside(p) THEN "Owned" ELSE Denoted(t)[q]]
    BY <1>6, <1>3 DEF M!do_def
  <2>3. Denoted(Replace(t, p, "Owned")) =
          [q \in Places |-> IF q \in M!Inside(p) THEN "Owned" ELSE Denoted(t)[q]]
    BY <1>4 DEF Denoted
  <2> QED
    BY <1>4, <2>1, <2>2, <2>3
<1> QED
  BY <1>5, <1>6

LEMMA JoinDenotes ==
  ASSUME NEW a, IsTree(a), NEW b, IsTree(b)
  PROVE  /\ IsTree(join_node(a, b))
         /\ Denoted(join_node(a, b)) = M!join_node({Denoted(a), Denoted(b)})
<1> DEFINE s == join_node(a, b)
<1>1. /\ DOMAIN s = DOMAIN a \union DOMAIN b
      /\ \A q \in DOMAIN s : s[q] = join(base(a, q), base(b, q))
  BY DEF join_node
<1> HIDE DEF s
<1>2. DOMAIN s \subseteq Places /\ <<>> \in DOMAIN s
  BY <1>1 DEF IsTree
<1>3. \A q \in Places : join(base(a, q), base(b, q)) \in M!Own
  BY BaseType DEF join, M!Own
<1>4. \A p \in DOMAIN s, q \in Places : IsPrefix(q, p) => q \in DOMAIN s
  BY <1>1 DEF IsTree
<1>5. IsTree(s)
  BY <1>1, <1>2, <1>3, <1>4 DEF IsTree
<1>6. ASSUME NEW q \in Places
      PROVE  base(s, q) = join(base(a, q), base(b, q))
  <2>1. PICK e \in DOMAIN s :
          /\ IsPrefix(e, q) /\ base(s, q) = s[e]
          /\ \A r \in DOMAIN s : IsPrefix(r, q) => IsPrefix(r, e)
    BY <1>5, NearestNode
  <2>2. ASSUME NEW t, IsTree(t), DOMAIN t \subseteq DOMAIN s
        PROVE  base(t, q) = base(t, e)
    <3>1. PICK d \in DOMAIN t :
            /\ IsPrefix(d, q) /\ base(t, q) = t[d]
            /\ \A r \in DOMAIN t : IsPrefix(r, q) => IsPrefix(r, d)
      BY <2>2, NearestNode
    <3>2. IsPrefix(d, e) /\ e \in Places
      BY <2>1, <2>2, <3>1, <1>2
    <3>3. \A r \in DOMAIN t : IsPrefix(r, e) => IsPrefix(r, d)
      BY <2>1, <2>2, <3>1, <3>2, PrefixOrder DEF IsTree
    <3>4. base(t, e) = t[d]
      BY <2>2, <3>2, <3>3, BaseIs
    <3> QED
      BY <3>1, <3>4
  <2>3. base(a, q) = base(a, e) /\ base(b, q) = base(b, e)
    BY <2>2, <1>1
  <2> QED
    BY <2>1, <2>3, <1>1
<1>7. \A x, y \in M!Own : join(x, y) = M!join({x, y})
  BY DEF join, M!join, M!Own
<1>8. ASSUME NEW q \in Places
      PROVE  base(s, q) = M!join({n[q] : n \in {Denoted(a), Denoted(b)}})
  <2>1. {n[q] : n \in {Denoted(a), Denoted(b)}} = {base(a, q), base(b, q)}
    BY DEF Denoted
  <2>2. base(a, q) \in M!Own /\ base(b, q) \in M!Own
    BY BaseType
  <2> QED
    BY <1>6, <1>7, <2>1, <2>2
<1>9. Denoted(s) = M!join_node({Denoted(a), Denoted(b)})
  BY <1>8 DEF Denoted, M!join_node
<1> QED
  BY <1>5, <1>9 DEF s

-----------------------------------------------------------------------------
(* A check passes the nodes on its way, the function all places around the *)
(* one it asks for: they find the same outermost place that is not Owned.  *)
LEMMA RefusalsAgree ==
  ASSUME NEW t, IsTree(t), NEW p \in Places, NEW W \in SUBSET Prefixes(p),
         \A q \in W, r \in Places : IsPrefix(r, q) => r \in W
  PROVE  LET N == Refusing(t, W \intersect DOMAIN t)
             T == M!Tainted(Denoted(t), W)
         IN  /\ N = {} <=> T = {}
             /\ N # {} => t[Outermost(N)] = M!outermost(Denoted(t), T)
<1> DEFINE N == Refusing(t, W \intersect DOMAIN t)
           T == M!Tainted(Denoted(t), W)
<1>1. W \subseteq Places /\ \A q \in W : IsPrefix(q, p)
  BY PrefixesAre
<1>2. N \subseteq T
  <2>1. \A q \in W \intersect DOMAIN t : Denoted(t)[q] = t[q]
    BY <1>1, BaseOfNode DEF Denoted
  <2> QED
    BY <2>1 DEF Refusing, M!Tainted
<1>3. ASSUME NEW q \in T
      PROVE  \E d \in N : IsPrefix(d, q)
  <2>1. q \in W /\ q \in Places /\ base(t, q) # "Owned"
    BY <1>1 DEF M!Tainted, Denoted
  <2>2. PICK d \in DOMAIN t : IsPrefix(d, q) /\ base(t, q) = t[d]
    BY <2>1, NearestNode
  <2>3. d \in W
    BY <2>1, <2>2 DEF IsTree
  <2> QED
    BY <2>1, <2>2, <2>3 DEF Refusing
<1>4. ASSUME N # {}
      PROVE  t[Outermost(N)] = M!outermost(Denoted(t), T)
  <2> DEFINE o == Outermost(N)
  <2>1. N \in SUBSET Places /\ \A q \in N : IsPrefix(q, p)
    BY <1>1 DEF Refusing
  <2>2. o \in N /\ \A r \in N : IsPrefix(o, r)
    <3> HIDE DEF N
    <3> QED
      BY <1>4, <2>1, ChainEnds
  <2>3. o \in T /\ o \in Places /\ t[o] \in M!Own /\ t[o] # "Owned"
    BY <2>1, <2>2, <1>2 DEF Refusing, IsTree
  <2>4. Denoted(t)[o] = t[o]
    BY <2>2, <2>3, BaseOfNode DEF Denoted, Refusing
  <2>5. T \subseteq Places
    BY <1>1 DEF M!Tainted
  <2> HIDE DEF o, N, T
  <2>6. \A r \in T : IsPrefix(o, r)
    BY <1>3, <2>1, <2>2, <2>5, PrefixOrder
  <2>7. \A q \in T : (\A r \in T : <<q, r>> \in Prefixed) <=> q = o
    BY <2>3, <2>5, <2>6, PrefixOrder DEF Prefixed
  <2>8. M!outermost(Denoted(t), T) = IF t[o] = "Moved" THEN "Moved" ELSE "MaybeMoved"
    BY <2>3, <2>4, <2>7 DEF M!outermost
  <2> QED
    BY <2>3, <2>8 DEF M!Own, o
<1> QED
  BY <1>2, <1>3, <1>4

(* The worst state of a node and of the nodes in it is that of all the     *)
(* places in it.                                                           *)
LEMMA WholeAgrees ==
  ASSUME NEW t, IsTree(t), NEW p \in DOMAIN t
  PROVE  whole(t, p) = M!whole(Denoted(t), p)
<1> DEFINE states == {t[q] : q \in {q \in DOMAIN t : IsPrefix(p, q)}}
<1>1. states = {Denoted(t)[q] : q \in M!Inside(p)}
  <2>0. p \in Places
    BY DEF IsTree
  <2>1. ASSUME NEW q \in DOMAIN t, IsPrefix(p, q)
        PROVE  q \in M!Inside(p) /\ Denoted(t)[q] = t[q]
    BY <2>0, <2>1, BaseOfNode DEF M!Inside, Prefixed, Denoted, IsTree
  <2>2. ASSUME NEW q \in M!Inside(p)
        PROVE  \E r \in DOMAIN t : IsPrefix(p, r) /\ Denoted(t)[q] = t[r]
    <3>1. q \in Places /\ IsPrefix(p, q)
      BY DEF M!Inside, Prefixed
    <3>2. PICK d \in DOMAIN t :
            /\ IsPrefix(d, q) /\ base(t, q) = t[d]
            /\ \A r \in DOMAIN t : IsPrefix(r, q) => IsPrefix(r, d)
      BY <3>1, NearestNode
    <3> QED
      BY <3>1, <3>2 DEF Denoted
  <2> QED
    BY <2>1, <2>2
<1>2. states \subseteq M!Own /\ states # {}
  BY PrefixOrder DEF IsTree
<1> HIDE DEF states
<1>3. \A s \in states : severity(s) <= severity(M!worst(states))
  BY <1>2 DEF severity, M!worst, M!Own
<1>4. M!worst(states) \in states
  BY <1>2 DEF M!worst, M!Own
<1>5. \A x, y \in M!Own : severity(x) <= severity(y) /\ severity(y) <= severity(x) => x = y
  BY DEF severity, M!Own
<1>6. whole(t, p) = CHOOSE o \in states : \A s \in states : severity(s) <= severity(o)
  BY DEF whole, states
<1>7. whole(t, p) = M!worst(states)
  BY <1>2, <1>3, <1>4, <1>5, <1>6
<1> QED
  BY <1>1, <1>7 DEF M!whole

LEMMA ReadAgrees ==
  ASSUME NEW t, IsTree(t), NEW p \in Places
  PROVE  read(t, p) = M!read(Denoted(t), p)
<1> DEFINE W == M!Above(p)
           N == Refusing(t, W \intersect DOMAIN t)
           T == M!Tainted(Denoted(t), W)
<1>1. W = {q \in Places : IsPrefix(q, p) /\ q # p}
  BY DEF M!Above, Prefixed
<1>2. W \in SUBSET Prefixes(p)
  BY <1>1, PrefixesAre
<1>3. \A q \in W, r \in Places : IsPrefix(r, q) => r \in W
  BY <1>1, PrefixOrder
<1>4. (N = {} <=> T = {}) /\ (N # {} => t[Outermost(N)] = M!outermost(Denoted(t), T))
  <2> HIDE DEF W
  <2> QED
    BY <1>2, <1>3, RefusalsAgree
<1>5. OnWay(t, p) \ {p} = W \intersect DOMAIN t
  BY <1>1 DEF OnWay, IsTree
<1>6. read(t, p) = IF N # {} THEN t[Outermost(N)]
                   ELSE IF p \in DOMAIN t THEN whole(t, p) ELSE "Owned"
  BY <1>5 DEF read
<1>7. M!read(Denoted(t), p) = IF T # {} THEN M!outermost(Denoted(t), T)
                              ELSE M!whole(Denoted(t), p)
  BY DEF M!read
<1>8. ASSUME N = {}, p \notin DOMAIN t
      PROVE  M!whole(Denoted(t), p) = "Owned"
  <2>1. PICK d \in DOMAIN t :
          /\ IsPrefix(d, p) /\ base(t, p) = t[d]
          /\ \A r \in DOMAIN t : IsPrefix(r, p) => IsPrefix(r, d)
    BY NearestNode
  <2>2. d \in W /\ t[d] = "Owned"
    BY <1>1, <1>8, <2>1 DEF Refusing, IsTree
  <2>3. ASSUME NEW q \in M!Inside(p)
        PROVE  Denoted(t)[q] = "Owned"
    <3>1. q \in Places /\ IsPrefix(p, q)
      BY DEF M!Inside, Prefixed
    <3>2. \A r \in DOMAIN t : IsPrefix(r, q) => IsPrefix(r, p)
      BY <3>1, <1>8, PrefixOrder DEF IsTree
    <3>3. base(t, q) = t[d]
      BY <2>1, <3>1, <3>2, BaseIs, PrefixOrder DEF IsTree
    <3> QED
      BY <2>2, <3>1, <3>3 DEF Denoted
  <2> QED
    BY <2>3 DEF M!whole, M!worst
<1> QED
  BY <1>4, <1>6, <1>7, <1>8, WholeAgrees

LEMMA BaseAtAgrees ==
  ASSUME NEW t, IsTree(t), NEW p \in Places
  PROVE  base_at(t, p) = M!base_at(Denoted(t), Prefixes(p))
<1> DEFINE W == Prefixes(p)
<1>1. W = {q \in Places : IsPrefix(q, p)}
  BY PrefixesAre
<1>2. \A q \in W, r \in Places : IsPrefix(r, q) => r \in W
  BY <1>1, PrefixOrder
<1>3. OnWay(t, p) = W \intersect DOMAIN t
  BY <1>1 DEF OnWay, IsTree
<1> QED
  BY <1>2, <1>3, RefusalsAgree DEF base_at, M!base_at

-----------------------------------------------------------------------------
(* Inductive: the trees are trees, and denote the functions beside them.   *)
IInv ==
  /\ IsTree(tree) /\ map = Denoted(tree)
  /\ IsTree(other) /\ mapOther = Denoted(other)

LEMMA InvInit == Init => IInv
<1> SUFFICES ASSUME Init PROVE IInv
  OBVIOUS
<1> DEFINE t == Leaf("Owned")
<1>1. IsTree(t)
  <2>1. \A q \in Places : IsPrefix(q, <<>>) => q = <<>>
    BY PrefixOrder, PlacesAssumption
  <2> QED
    BY <2>1, PlacesAssumption DEF IsTree, Leaf, M!Own
<1>2. \A p \in Places : base(t, p) = "Owned"
  <2>1. \A d \in DOMAIN t : t[d] = "Owned"
    BY DEF Leaf
  <2> HIDE DEF t
  <2> QED
    BY <1>1, <2>1, NearestNode
<1>3. Denoted(t) = M!owned
  BY <1>2 DEF Denoted, M!owned
<1> QED
  BY <1>1, <1>3 DEF Init, IInv

LEMMA InvStep == IInv /\ [Next]_vars => IInv'
<1> SUFFICES ASSUME IInv, [Next]_vars PROVE IInv'
  OBVIOUS
<1> USE DEF IInv
<1>1. ASSUME NEW p \in Places, Move(p) PROVE IInv'
  BY <1>1, MoveDenotes DEF Move
<1>2. ASSUME NEW p \in Places, Define(p) PROVE IInv'
  BY <1>2, DefDenotes DEF Define
<1>3. CASE Fork
  BY <1>3 DEF Fork
<1>4. CASE Switch
  BY <1>4 DEF Switch
<1>5. CASE Merge
  BY <1>5, JoinDenotes DEF Merge
<1>6. CASE UNCHANGED vars
  BY <1>6 DEF vars
<1> QED
  BY <1>1, <1>2, <1>3, <1>4, <1>5, <1>6 DEF Next

(* The trees that any moves, definitions and merges build denote the total *)
(* functions that the same operations of PlaceState give.                  *)
THEOREM TreesDenote == Spec => []IInv
<1> QED
  BY InvInit, InvStep, PTL DEF Spec

(* No read and no write check of the analysis can tell the sparse trees    *)
(* from the total functions, for every set of places.                      *)
THEOREM TreesRefineMaps == Spec => []TreeDenotesMap
<1>1. IInv => TreeDenotesMap
  BY ReadAgrees, BaseAtAgrees DEF IInv, TreeDenotesMap, ReadsAgree, WritesAgree
<1> QED
  BY <1>1, TreesDenote, PTL

-----------------------------------------------------------------------------
(* What is inside a Moved place is Moved.  A Moved node may have children  *)
(* (a field moved after the whole), against the comment at                 *)
(* src/src/analysis/mod.rs:969, but they say what it does; so a walk that  *)
(* ends at a Moved node (do_def) misses nothing behind it.                 *)
Uniform(m) ==
  \A p, q \in Places : IsPrefix(p, q) /\ m[p] = "Moved" => m[q] = "Moved"

LEMMA UniformStep ==
  IInv /\ Uniform(map) /\ Uniform(mapOther) /\ [Next]_vars
    => Uniform(map)' /\ Uniform(mapOther)'
<1> SUFFICES ASSUME IInv, Uniform(map), Uniform(mapOther), [Next]_vars
             PROVE  Uniform(map)' /\ Uniform(mapOther)'
  OBVIOUS
<1> DEFINE Goal == Uniform(map)' /\ Uniform(mapOther)'
<1>1. ASSUME NEW p \in Places
      PROVE  /\ M!Inside(p) = {q \in Places : IsPrefix(p, q)}
             /\ M!Above(p) = {q \in Places : IsPrefix(q, p) /\ q # p}
  BY DEF M!Inside, M!Above, Prefixed
<1>2. ASSUME NEW p \in Places, Move(p) PROVE Goal
  <2>1. \A q \in Places : map'[q] = IF IsPrefix(p, q) THEN "Moved" ELSE map[q]
    BY <1>1, <1>2 DEF Move, M!do_move
  <2> QED
    BY <1>2, <2>1, PrefixOrder DEF Move, Uniform
<1>3. ASSUME NEW p \in Places, Define(p) PROVE Goal
  <2>1. CASE \E q \in M!Above(p) : map[q] = "Moved"
    BY <1>3, <2>1 DEF Define, M!do_def, Uniform
  <2>2. CASE ~\E q \in M!Above(p) : map[q] = "Moved"
    <3>1. \A q \in Places : map'[q] = IF IsPrefix(p, q) THEN "Owned" ELSE map[q]
      BY <1>1, <1>3, <2>2 DEF Define, M!do_def
    <3>2. \A q \in Places : IsPrefix(q, p) /\ q # p => map[q] # "Moved"
      BY <1>1, <2>2
    <3>3. Uniform(map)'
      BY <3>1, <3>2, PrefixOrder DEF Uniform
    <3> QED
      BY <1>3, <3>3 DEF Define, Uniform
  <2> QED
    BY <2>1, <2>2
<1>4. CASE Fork
  BY <1>4 DEF Fork, Uniform
<1>5. CASE Switch
  BY <1>5 DEF Switch, Uniform
<1>6. CASE Merge
  <2>1. \A q \in Places :
          map'[q] = "Moved" <=> map[q] = "Moved" /\ mapOther[q] = "Moved"
    <3> SUFFICES ASSUME NEW q \in Places
                 PROVE  map'[q] = "Moved" <=> map[q] = "Moved" /\ mapOther[q] = "Moved"
      OBVIOUS
    <3>1. map'[q] = M!join({map[q], mapOther[q]})
      BY <1>6 DEF Merge, M!join_node
    <3> QED
      BY <3>1 DEF M!join
  <2> QED
    BY <1>6, <2>1 DEF Merge, Uniform
<1>7. CASE UNCHANGED vars
  BY <1>7 DEF vars, Uniform
<1> QED
  BY <1>2, <1>3, <1>4, <1>5, <1>6, <1>7 DEF Next

THEOREM MovedIsUniform ==
  Spec => [](\A p \in DOMAIN tree, q \in Places :
               IsPrefix(p, q) /\ tree[p] = "Moved" => base(tree, q) = "Moved")
<1>1. Init => Uniform(map) /\ Uniform(mapOther)
  BY DEF Init, M!owned, Uniform
<1>2. IInv /\ Uniform(map)
        => \A p \in DOMAIN tree, q \in Places :
             IsPrefix(p, q) /\ tree[p] = "Moved" => base(tree, q) = "Moved"
  BY BaseOfNode DEF IInv, IsTree, Denoted, Uniform
<1> QED
  BY <1>1, <1>2, TreesDenote, UniformStep, PTL DEF Spec

=============================================================================
