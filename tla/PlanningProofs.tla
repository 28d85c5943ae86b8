--------------------------- MODULE PlanningProofs ---------------------------
(***************************************************************************)
(* Whatever the phone holds and the volume, however it compares names:     *)
(* what the planner may rely on, from the order of a snapshot to the plan. *)
(***************************************************************************)
EXTENDS Planning, SequenceTheorems, FiniteSetTheorems, NaturalsInduction, TLAPS

Paths == Seq(Names) \ {Root}
-----------------------------------------------------------------------------
(* Numbers and paths.                                                      *)

LEMMA Least ==
    ASSUME NEW S \in SUBSET Nat, S # {}
    PROVE  \E n \in S : \A m \in S : n <= m
<1>1. PICK n \in S : \A m \in S : <<m, n>> \notin OpToRel(<, Nat)
    BY NatLessThanWellFounded, WFMin
<1>2. \A m \in S : ~(m < n)
    BY <1>1 DEF OpToRel
<1> QED BY <1>2

LEMMA PathsEqual ==
    ASSUME NEW p \in Seq(Names), NEW q \in Seq(Names), Len(p) = Len(q),
           \A k \in 1..Len(p) : p[k] = q[k]
    PROVE  p = q
<1> QED OBVIOUS

LEMMA RankType ==
    ASSUME NEW n \in Names
    PROVE  Rank(n) \in 1..Len(Alphabet) /\ Alphabet[Rank(n)] = n
<1>1. Alphabet \in Seq(STRING) BY RelPathAssumption
<1>2. \E i \in DOMAIN Alphabet : Alphabet[i] = n
    BY DEF Names, Range
<1>3. DOMAIN Alphabet = 1..Len(Alphabet) BY <1>1
<1> QED BY <1>2, <1>3 DEF Rank

LEMMA RankInjective ==
    ASSUME NEW m \in Names, NEW n \in Names, Rank(m) = Rank(n)
    PROVE  m = n
<1> QED BY RankType

LEMMA PrefixOf ==
    ASSUME NEW p \in Seq(Names), NEW q \in Seq(Names)
    PROVE  IsPrefix(p, q) <=> Len(p) <= Len(q) /\ \A k \in 1..Len(p) : p[k] = q[k]
<1>1. ASSUME Len(p) <= Len(q), SubSeq(p, 1, Len(p)) = SubSeq(q, 1, Len(p)),
             NEW k \in 1..Len(p)
      PROVE  p[k] = q[k]
    <2>1. SubSeq(p, 1, Len(p))[k] = p[k] OBVIOUS
    <2>2. SubSeq(q, 1, Len(p))[k] = q[k] BY <1>1
    <2> QED BY <1>1, <2>1, <2>2
<1>2. ASSUME Len(p) <= Len(q), \A k \in 1..Len(p) : p[k] = q[k]
      PROVE  SubSeq(p, 1, Len(p)) = SubSeq(q, 1, Len(p))
    BY <1>2
<1> QED BY <1>1, <1>2 DEF IsPrefix

\* p and q agree below i.
Agree(p, q, i) == \A k \in 1..(i - 1) : p[k] = q[k]

LEMMA SubSeqAgree ==
    ASSUME NEW p \in Seq(Names), NEW q \in Seq(Names),
           NEW i \in DOMAIN p \cap DOMAIN q
    PROVE  SubSeq(p, 1, i - 1) = SubSeq(q, 1, i - 1) <=> Agree(p, q, i)
<1> i \in 1..Len(p) /\ i \in 1..Len(q) OBVIOUS
<1>1. ASSUME SubSeq(p, 1, i - 1) = SubSeq(q, 1, i - 1), NEW k \in 1..(i - 1)
      PROVE  p[k] = q[k]
    <2>1. SubSeq(p, 1, i - 1)[k] = p[k] OBVIOUS
    <2>2. SubSeq(q, 1, i - 1)[k] = q[k] OBVIOUS
    <2> QED BY <1>1, <2>1, <2>2
<1>2. ASSUME Agree(p, q, i) PROVE SubSeq(p, 1, i - 1) = SubSeq(q, 1, i - 1)
    BY <1>2 DEF Agree
<1> QED BY <1>1, <1>2 DEF Agree

\* How two paths can be in order: at the segment where they part, or one goes on.
PartAt(p, q, i) ==
    /\ i \in 1..Len(p) /\ i \in 1..Len(q)
    /\ Agree(p, q, i) /\ Rank(p[i]) < Rank(q[i])
GoesOn(p, q) == Len(p) < Len(q) /\ \A k \in 1..Len(p) : p[k] = q[k]

LEMMA BeforeMeans ==
    ASSUME NEW p \in Seq(Names), NEW q \in Seq(Names)
    PROVE  Before(p, q) <=> GoesOn(p, q) \/ \E i \in 1..Len(p) : PartAt(p, q, i)
<1>1. IsStrictPrefix(p, q) <=> GoesOn(p, q)
    <2>1. ASSUME IsPrefix(p, q), p # q PROVE Len(p) < Len(q)
        BY <2>1, PrefixOf, PathsEqual
    <2> QED BY <2>1, PrefixOf DEF IsStrictPrefix, GoesOn
<1>2. DOMAIN p = 1..Len(p) /\ DOMAIN q = 1..Len(q) OBVIOUS
<1>3. (\E i \in DOMAIN p \cap DOMAIN q :
            /\ SubSeq(p, 1, i - 1) = SubSeq(q, 1, i - 1)
            /\ Rank(p[i]) < Rank(q[i]))
        <=> \E i \in 1..Len(p) : PartAt(p, q, i)
    BY <1>2, SubSeqAgree DEF PartAt
<1> QED BY <1>1, <1>3 DEF Before
-----------------------------------------------------------------------------
(* The order of a snapshot is a total one.                                 *)

LEMMA BeforeIrreflexive ==
    ASSUME NEW p \in Seq(Names)
    PROVE  ~Before(p, p)
<1>1. \A i \in 1..Len(p) : Rank(p[i]) \in Nat
    BY RankType, RelPathAssumption
<1> QED BY <1>1, BeforeMeans DEF GoesOn, PartAt

LEMMA BeforeTransitive ==
    ASSUME NEW p \in Seq(Names), NEW q \in Seq(Names), NEW r \in Seq(Names),
           Before(p, q), Before(q, r)
    PROVE  Before(p, r)
<1>r. \A s \in {p, q, r} : \A i \in 1..Len(s) : s[i] \in Names /\ Rank(s[i]) \in Nat
    BY RankType, RelPathAssumption
<1>1. CASE GoesOn(p, q) /\ GoesOn(q, r)
    <2>1. GoesOn(p, r) BY <1>1 DEF GoesOn
    <2> QED BY <2>1, BeforeMeans
<1>2. CASE GoesOn(p, q) /\ \E j \in 1..Len(q) : PartAt(q, r, j)
    <2>1. PICK j \in 1..Len(q) : PartAt(q, r, j) BY <1>2
    <2>2. CASE j > Len(p)
        <3>1. GoesOn(p, r) BY <1>2, <2>1, <2>2 DEF GoesOn, PartAt, Agree
        <3> QED BY <3>1, BeforeMeans
    <2>3. CASE j <= Len(p)
        <3>1. PartAt(p, r, j) BY <1>2, <2>1, <2>3 DEF GoesOn, PartAt, Agree
        <3> QED BY <3>1, <2>3, BeforeMeans
    <2> QED BY <2>2, <2>3
<1>3. CASE (\E i \in 1..Len(p) : PartAt(p, q, i)) /\ GoesOn(q, r)
    <2>1. PICK i \in 1..Len(p) : PartAt(p, q, i) BY <1>3
    <2>2. PartAt(p, r, i) BY <1>3, <2>1 DEF GoesOn, PartAt, Agree
    <2> QED BY <2>2, BeforeMeans
<1>4. CASE /\ \E i \in 1..Len(p) : PartAt(p, q, i)
           /\ \E j \in 1..Len(q) : PartAt(q, r, j)
    <2>1. PICK i \in 1..Len(p) : PartAt(p, q, i) BY <1>4
    <2>2. PICK j \in 1..Len(q) : PartAt(q, r, j) BY <1>4
    <2>3. CASE i < j
        <3>1. PartAt(p, r, i) BY <2>1, <2>2, <2>3 DEF PartAt, Agree
        <3> QED BY <3>1, BeforeMeans
    <2>4. CASE i = j
        <3>1. PartAt(p, r, i) BY <2>1, <2>2, <2>4, <1>r DEF PartAt, Agree
        <3> QED BY <3>1, BeforeMeans
    <2>5. CASE j < i
        <3>1. PartAt(p, r, j) BY <2>1, <2>2, <2>5 DEF PartAt, Agree
        <3> QED BY <3>1, <2>5, BeforeMeans
    <2> QED BY <2>3, <2>4, <2>5
<1> QED BY <1>1, <1>2, <1>3, <1>4, BeforeMeans

LEMMA BeforeTotal ==
    ASSUME NEW p \in Seq(Names), NEW q \in Seq(Names), p # q
    PROVE  Before(p, q) \/ Before(q, p)
<1> DEFINE D == {i \in 1..Len(p) : i \in 1..Len(q) /\ p[i] # q[i]}
<1>1. CASE D = {}
    <2>1. \A k \in 1..Len(p) : k \in 1..Len(q) => p[k] = q[k] BY <1>1
    <2>2. CASE Len(p) < Len(q)
        <3>1. GoesOn(p, q) BY <2>1, <2>2 DEF GoesOn
        <3> QED BY <3>1, BeforeMeans
    <2>3. CASE Len(q) < Len(p)
        <3>1. GoesOn(q, p) BY <2>1, <2>3 DEF GoesOn
        <3> QED BY <3>1, BeforeMeans
    <2>4. CASE Len(p) = Len(q)
        BY <2>1, <2>4, PathsEqual
    <2> QED BY <2>2, <2>3, <2>4
<1>2. CASE D # {}
    <2> D \in SUBSET Nat OBVIOUS
    <2> HIDE DEF D
    <2>1. PICK i \in D : \A m \in D : i <= m BY <1>2, Least
    <2> USE DEF D
    <2>2. i \in 1..Len(p) /\ i \in 1..Len(q) /\ p[i] # q[i] BY <2>1
    <2>3. Agree(p, q, i) /\ Agree(q, p, i) BY <2>1, <2>2 DEF Agree
    <2>4. Rank(p[i]) # Rank(q[i]) BY <2>2, RankInjective
    <2>5. Rank(p[i]) \in Nat /\ Rank(q[i]) \in Nat BY <2>2, RankType, RelPathAssumption
    <2>6. PartAt(p, q, i) \/ PartAt(q, p, i) BY <2>2, <2>3, <2>4, <2>5 DEF PartAt
    <2> QED BY <2>2, <2>6, BeforeMeans
<1> QED BY <1>1, <1>2

\* What lies between a folder and something in it lies in it as well.
LEMMA BetweenIsBeneath ==
    ASSUME NEW p \in Seq(Names), NEW q \in Seq(Names), NEW r \in Seq(Names),
           Before(p, q), Before(q, r), StartsWith(r, p)
    PROVE  StartsWith(q, p)
<1>r. \A s \in {p, q, r} : \A i \in 1..Len(s) : Rank(s[i]) \in Nat
    BY RankType, RelPathAssumption
<1>1. Len(p) <= Len(r) /\ \A k \in 1..Len(p) : p[k] = r[k]
    BY PrefixOf DEF StartsWith
<1>2. SUFFICES ASSUME NEW i \in 1..Len(p), PartAt(p, q, i) PROVE FALSE
    BY BeforeMeans, PrefixOf DEF GoesOn, StartsWith
<1>3. ~GoesOn(q, r)
    BY <1>1, <1>2, <1>r DEF GoesOn, PartAt
<1>4. PICK j \in 1..Len(q) : PartAt(q, r, j) BY <1>3, BeforeMeans
<1>5. CASE j < i
    <2>1. j \in 1..Len(p) /\ j \in 1..(i - 1) BY <1>2, <1>5
    <2>2. q[j] = p[j] BY <1>2, <2>1 DEF PartAt, Agree
    <2>3. Rank(q[j]) < Rank(r[j]) BY <1>4 DEF PartAt
    <2>4. p[j] = r[j] BY <1>1, <2>1
    <2>5. Rank(r[j]) \in Nat BY <1>4, <1>r DEF PartAt
    <2> QED BY <2>2, <2>3, <2>4, <2>5
<1>6. CASE j = i BY <1>1, <1>2, <1>4, <1>6, <1>r DEF PartAt
<1>7. CASE j > i BY <1>1, <1>2, <1>4, <1>7, <1>r DEF PartAt, Agree
<1> QED BY <1>5, <1>6, <1>7
-----------------------------------------------------------------------------
(* A snapshot lists every entry once, in order.                            *)

EntryType == [path : Paths, kind : {"file", "dir"}, size : Nat, modified : Nat]

IsListing(s) ==
    /\ s \in Seq(EntryType)
    /\ \A i, j \in 1..Len(s) : i < j => Before(s[i].path, s[j].path)
    /\ \A i \in 1..Len(s) : \A n \in 1..(Len(s[i].path) - 1) :
        \E j \in 1..Len(s) : s[j].path = SubSeq(s[i].path, 1, n) /\ s[j].kind = "dir"
    /\ \A i \in 1..Len(s) : \A n \in 1..Len(s[i].path) : s[i].path[n] \notin OddNames
    /\ \A i \in 1..Len(s) : s[i].kind = "dir" => s[i].size = 0

\* The entries before e.
Ahead(S, e) == {f \in S : Before(f.path, e.path)}
Position(S) == [e \in S |-> Cardinality(Ahead(S, e)) + 1]

LEMMA AheadGrows ==
    ASSUME NEW S, IsSource(S), NEW e \in S, NEW f \in S, Before(e.path, f.path)
    PROVE  Cardinality(Ahead(S, e)) < Cardinality(Ahead(S, f))
<1>1. S \subseteq EntryType /\ IsFiniteSet(S) BY DEF IsSource, EntryType, Paths
<1>p. \A g \in S : g.path \in Seq(Names) BY <1>1 DEF EntryType, Paths
<1>2. Ahead(S, e) \subseteq Ahead(S, f)
    BY <1>p, BeforeTransitive DEF Ahead
<1>3. e \in Ahead(S, f) /\ e \notin Ahead(S, e)
    BY <1>p, BeforeIrreflexive DEF Ahead
<1>4. Ahead(S, f) \in SUBSET S BY DEF Ahead
<1>5. IsFiniteSet(Ahead(S, f)) BY <1>1, <1>4, FS_Subset
<1>6. /\ IsFiniteSet(Ahead(S, e))
      /\ Cardinality(Ahead(S, e)) <= Cardinality(Ahead(S, f))
      /\ Cardinality(Ahead(S, e)) # Cardinality(Ahead(S, f))
    BY <1>2, <1>3, <1>5, FS_Subset
<1>7. Cardinality(Ahead(S, e)) \in Nat /\ Cardinality(Ahead(S, f)) \in Nat
    BY <1>5, <1>6, FS_CardinalityType
<1> QED BY <1>6, <1>7

LEMMA PositionBijective ==
    ASSUME NEW S, IsSource(S)
    PROVE  /\ Cardinality(S) \in Nat
           /\ Position(S) \in [S -> 1..Cardinality(S)]
           /\ \A e, f \in S : Position(S)[e] = Position(S)[f] => e = f
           /\ \A n \in 1..Cardinality(S) : \E e \in S : Position(S)[e] = n
<1>1. S \subseteq EntryType /\ IsFiniteSet(S) BY DEF IsSource, EntryType, Paths
<1>p. \A g \in S : g.path \in Seq(Names) BY <1>1 DEF EntryType, Paths
<1>2. Cardinality(S) \in Nat BY <1>1, FS_CardinalityType
<1>3. ASSUME NEW e \in S PROVE Position(S)[e] \in 1..Cardinality(S)
    <2>1. Ahead(S, e) \in SUBSET S BY DEF Ahead
    <2>2. e \notin Ahead(S, e) BY <1>p, BeforeIrreflexive DEF Ahead
    <2>3. IsFiniteSet(Ahead(S, e)) /\ Cardinality(Ahead(S, e)) <= Cardinality(S)
        BY <1>1, <2>1, FS_Subset
    <2>4. Cardinality(Ahead(S, e)) # Cardinality(S)
        BY <1>1, <2>1, <2>2, FS_Subset
    <2>5. Cardinality(Ahead(S, e)) \in Nat BY <2>3, FS_CardinalityType
    <2> QED BY <1>2, <2>3, <2>4, <2>5 DEF Position
<1>4. Position(S) \in [S -> 1..Cardinality(S)]
    <2>1. Position(S) = [e \in S |-> Position(S)[e]] BY DEF Position
    <2> QED BY <1>3, <2>1
<1>5. ASSUME NEW e \in S, NEW f \in S, e # f PROVE Position(S)[e] # Position(S)[f]
    <2>1. e.path # f.path BY <1>5 DEF IsSource
    <2>2. Before(e.path, f.path) \/ Before(f.path, e.path) BY <1>p, <2>1, BeforeTotal
    <2>3. Cardinality(Ahead(S, e)) < Cardinality(Ahead(S, f))
            \/ Cardinality(Ahead(S, f)) < Cardinality(Ahead(S, e))
        BY <2>2, AheadGrows
    <2>4. Position(S)[e] \in Nat /\ Position(S)[f] \in Nat BY <1>2, <1>3
    <2>5. Ahead(S, e) \in SUBSET S /\ Ahead(S, f) \in SUBSET S BY DEF Ahead
    <2>6. Cardinality(Ahead(S, e)) \in Nat /\ Cardinality(Ahead(S, f)) \in Nat
        BY <1>1, <2>5, FS_Subset, FS_CardinalityType
    <2> QED BY <2>3, <2>6 DEF Position
<1>6. \A e, f \in S : Position(S)[e] = Position(S)[f] => e = f BY <1>5
<1>7. Position(S) \in Injection(S, 1..Cardinality(S))
    BY <1>4, <1>6 DEF Injection, IsInjective
<1>8. IsFiniteSet(1..Cardinality(S)) /\ Cardinality(1..Cardinality(S)) = Cardinality(S)
    BY <1>2, FS_Interval
<1>9. Position(S) \in Surjection(S, 1..Cardinality(S))
    BY <1>7, <1>8, FS_Injection
<1>10. \A n \in 1..Cardinality(S) : \E e \in S : Position(S)[e] = n
    BY <1>9 DEF Surjection
<1> QED BY <1>2, <1>4, <1>6, <1>10

LEMMA SnapshotLists ==
    ASSUME NEW S, IsSource(S)
    PROVE  IsListing(Snapshot(S))
<1> DEFINE N == Cardinality(S)
           s == Snapshot(S)
           pick(i) == CHOOSE e \in S : Cardinality(Ahead(S, e)) = i - 1
<1>1. S \subseteq EntryType /\ IsFiniteSet(S) BY DEF IsSource, EntryType, Paths
<1>p. \A g \in S : g.path \in Seq(Names) BY <1>1 DEF EntryType, Paths
<1>2. N \in Nat BY PositionBijective
<1>3. s = [i \in 1..N |-> pick(i)] BY DEF Snapshot, Ahead
<1>4. ASSUME NEW i \in 1..N
      PROVE  pick(i) \in S /\ Cardinality(Ahead(S, pick(i))) = i - 1
    <2>1. PICK e \in S : Position(S)[e] = i BY PositionBijective
    <2>2. Ahead(S, e) \in SUBSET S BY DEF Ahead
    <2>3. Cardinality(Ahead(S, e)) \in Nat BY <1>1, <2>2, FS_Subset, FS_CardinalityType
    <2>4. Cardinality(Ahead(S, e)) = i - 1 BY <2>1, <2>3 DEF Position
    <2> QED BY <2>4
<1> HIDE DEF pick
<1>5. s \in Seq(S) /\ Len(s) = N /\ \A i \in 1..N : s[i] = pick(i)
    BY <1>2, <1>3, <1>4
<1> HIDE DEF s, N
<1>6. s \in Seq(EntryType)
    BY <1>1, <1>5
<1>7. ASSUME NEW i \in 1..N, NEW j \in 1..N, i < j
      PROVE  Before(s[i].path, s[j].path)
    <2>1. pick(i) \in S /\ pick(j) \in S BY <1>4
    <2>2. pick(i) # pick(j) BY <1>2, <1>4, <1>7
    <2>3. pick(i).path # pick(j).path BY <2>1, <2>2 DEF IsSource
    <2>4. ~Before(pick(j).path, pick(i).path)
        BY <1>2, <1>4, <1>7, <2>1, AheadGrows
    <2>5. Before(pick(i).path, pick(j).path) BY <1>p, <2>1, <2>3, <2>4, BeforeTotal
    <2> QED BY <1>5, <2>5
<1>8. ASSUME NEW i \in 1..N, NEW n \in 1..(Len(s[i].path) - 1)
      PROVE  \E j \in 1..N : s[j].path = SubSeq(s[i].path, 1, n) /\ s[j].kind = "dir"
    <2>1. s[i] \in S BY <1>4, <1>5
    <2>2. PICK f \in S : f.path = SubSeq(s[i].path, 1, n) /\ f.kind = "dir"
        BY <2>1 DEF IsSource
    <2>3. Position(S)[f] \in 1..N BY PositionBijective DEF N
    <2>4. PICK j \in 1..N : j = Position(S)[f] BY <2>3
    <2>5. Ahead(S, f) \in SUBSET S /\ Ahead(S, pick(j)) \in SUBSET S BY DEF Ahead
    <2>6. Cardinality(Ahead(S, f)) \in Nat BY <1>1, <2>5, FS_Subset, FS_CardinalityType
    <2>7. Position(S)[pick(j)] = j
        BY <1>2, <1>4, <2>4 DEF Position
    <2>8. pick(j) = f BY <1>4, <2>4, <2>7, PositionBijective
    <2> QED BY <1>5, <2>2, <2>8
<1>9. ASSUME NEW i \in 1..N, NEW n \in 1..Len(s[i].path)
      PROVE  s[i].path[n] \notin OddNames
    <2>1. s[i] \in S /\ s[i].path \in Seq(Names) BY <1>4, <1>5, <1>p
    <2>2. s[i].path[n] \in Range(s[i].path) BY <2>1 DEF Range
    <2> QED BY <2>1, <2>2 DEF IsSource
<1>10. \A i \in 1..N : s[i].kind = "dir" => s[i].size = 0
    BY <1>4, <1>5 DEF IsSource
<1> QED BY <1>5, <1>6, <1>7, <1>8, <1>9, <1>10 DEF IsListing, s
-----------------------------------------------------------------------------
(* How a volume compares names.                                            *)

SameName(m, n, fold) == IF fold = "exact" THEN m = n ELSE Folded[m] = Folded[n]

LEMMA SameMeans ==
    ASSUME NEW p \in Seq(Names), NEW q \in Seq(Names), NEW fold \in Foldings
    PROVE  Same(p, q, fold) <=>
               Len(p) = Len(q) /\ \A k \in 1..Len(p) : SameName(p[k], q[k], fold)
<1>1. CASE fold = "exact"
    BY <1>1, PathsEqual DEF Same, SameName
<1>2. CASE fold # "exact"
    <2>1. DOMAIN Fold(p) = 1..Len(p) /\ DOMAIN Fold(q) = 1..Len(q) BY DEF Fold
    <2>2. Len(p) \in Nat /\ Len(q) \in Nat OBVIOUS
    <2>3. ASSUME Fold(p) = Fold(q)
          PROVE  Len(p) = Len(q) /\ \A k \in 1..Len(p) : Folded[p[k]] = Folded[q[k]]
        <3>1. 1..Len(p) = 1..Len(q) BY <2>1, <2>3
        <3>2. Len(p) = Len(q) BY <2>2, <3>1
        <3>3. ASSUME NEW k \in 1..Len(p) PROVE Folded[p[k]] = Folded[q[k]]
            <4>1. Fold(p)[k] = Folded[p[k]] /\ Fold(q)[k] = Folded[q[k]]
                BY <3>2 DEF Fold
            <4> QED BY <2>3, <4>1
        <3> QED BY <3>2, <3>3
    <2>4. ASSUME Len(p) = Len(q), \A k \in 1..Len(p) : Folded[p[k]] = Folded[q[k]]
          PROVE  Fold(p) = Fold(q)
        BY <2>4 DEF Fold
    <2> QED BY <1>2, <2>3, <2>4 DEF Same, SameName
<1> QED BY <1>1, <1>2

LEMMA SameIsEquivalence ==
    ASSUME NEW fold \in Foldings, NEW p, NEW q, NEW r
    PROVE  /\ Same(p, p, fold)
           /\ Same(p, q, fold) => Same(q, p, fold)
           /\ Same(p, q, fold) /\ Same(q, r, fold) => Same(p, r, fold)
<1> QED BY DEF Same

LEMMA SameAsBoth ==
    ASSUME NEW fold \in Foldings, NEW p, NEW q, NEW r, Same(p, q, fold), Same(r, q, fold)
    PROVE  Same(p, r, fold)
<1> QED BY DEF Same

LEMMA UpToType ==
    ASSUME NEW p \in Seq(Names), NEW n \in 0..Len(p)
    PROVE  /\ SubSeq(p, 1, n) \in Seq(Names) /\ Len(SubSeq(p, 1, n)) = n
           /\ \A k \in 1..n : SubSeq(p, 1, n)[k] = p[k]
<1> QED OBVIOUS

LEMMA UpToUpTo ==
    ASSUME NEW p \in Seq(Names), NEW n \in 0..Len(p), NEW m \in 0..n
    PROVE  SubSeq(SubSeq(p, 1, n), 1, m) = SubSeq(p, 1, m)
<1>1. SubSeq(p, 1, n) \in Seq(Names) /\ Len(SubSeq(p, 1, n)) = n BY UpToType
<1>2. m \in 0..Len(p) OBVIOUS
<1>3. /\ SubSeq(SubSeq(p, 1, n), 1, m) \in Seq(Names)
      /\ Len(SubSeq(SubSeq(p, 1, n), 1, m)) = m
      /\ \A k \in 1..m : SubSeq(SubSeq(p, 1, n), 1, m)[k] = SubSeq(p, 1, n)[k]
    BY <1>1, UpToType
<1>4. /\ SubSeq(p, 1, m) \in Seq(Names) /\ Len(SubSeq(p, 1, m)) = m
      /\ \A k \in 1..m : SubSeq(p, 1, m)[k] = p[k]
    BY <1>2, UpToType
<1>5. \A k \in 1..m : SubSeq(p, 1, n)[k] = p[k] BY UpToType
<1> QED BY <1>3, <1>4, <1>5, PathsEqual

LEMMA SameUpTo ==
    ASSUME NEW fold \in Foldings, NEW p \in Seq(Names), NEW q \in Seq(Names),
           Same(p, q, fold), NEW n \in 0..Len(p)
    PROVE  Same(SubSeq(p, 1, n), SubSeq(q, 1, n), fold)
<1>1. Len(p) = Len(q) /\ \A k \in 1..Len(p) : SameName(p[k], q[k], fold) BY SameMeans
<1>2. /\ SubSeq(p, 1, n) \in Seq(Names) /\ Len(SubSeq(p, 1, n)) = n
      /\ \A k \in 1..n : SubSeq(p, 1, n)[k] = p[k] BY UpToType
<1>3. /\ SubSeq(q, 1, n) \in Seq(Names) /\ Len(SubSeq(q, 1, n)) = n
      /\ \A k \in 1..n : SubSeq(q, 1, n)[k] = q[k] BY <1>1, UpToType
<1>4. \A k \in 1..n : SameName(SubSeq(p, 1, n)[k], SubSeq(q, 1, n)[k], fold)
    BY <1>1, <1>2, <1>3
<1> QED BY <1>2, <1>3, <1>4, SameMeans
-----------------------------------------------------------------------------
(* What carrying out an action makes of a volume.                          *)

ItemType ==
    [path : Paths, size : Nat, modified : Nat,
     is : {"file", "dir", "locked", "broken", "special"},
     record : [read : {"whole", "torn", "fails"}, ours : BOOLEAN, path : Seq(Names),
               size : Nat, modified : Nat, bytes : Nat]]

LEMMA VolumeFacts ==
    ASSUME NEW items, NEW fold, IsVolume(items, fold)
    PROVE  /\ items \subseteq ItemType
           /\ \A i \in items : i.path \in Seq(Names) /\ i.path # Root
           /\ \A i, j \in items : Same(i.path, j.path, fold) => i = j
           /\ \A i \in items : \A n \in 1..(Len(i.path) - 1) :
                \E j \in items : j.path = SubSeq(i.path, 1, n) /\ IsFolder(j)
<1>1. items \subseteq ItemType BY DEF IsVolume, ItemType, Paths
<1>2. \A i \in items : i.path \in Seq(Names) /\ i.path # Root
    BY <1>1 DEF ItemType, Paths
<1> QED BY <1>1, <1>2 DEF IsVolume

LEMMA DeepestIs ==
    ASSUME NEW items, NEW path \in Seq(Names)
    PROVE  LET n == Deepest(items, path)
           IN  /\ n \in 0..Len(path)
               /\ n = 0 \/ Has(items, path, n)
               /\ \A m \in (n + 1)..Len(path) : ~Has(items, path, m)
<1> DEFINE S == {n \in 0..Len(path) : \A m \in (n + 1)..Len(path) : ~Has(items, path, m)}
<1>1. Len(path) \in S /\ S \in SUBSET Nat OBVIOUS
<1>2. PICK n \in S : \A m \in S : n <= m
    <2> HIDE DEF S
    <2> QED BY <1>1, Least
<1>3. ASSUME n # 0 PROVE Has(items, path, n)
    <2>1. n - 1 \notin S
        <3> HIDE DEF S
        <3> QED BY <1>1, <1>2, <1>3
    <2>2. n - 1 \in 0..Len(path) BY <1>2, <1>3
    <2>3. PICK m \in ((n - 1) + 1)..Len(path) : Has(items, path, m) BY <2>1, <2>2
    <2>4. m = n \/ m \in (n + 1)..Len(path) BY <1>2, <2>3
    <2> QED BY <1>2, <2>3, <2>4
<1>4. \E k \in 0..Len(path) :
        /\ k = 0 \/ Has(items, path, k)
        /\ \A m \in (k + 1)..Len(path) : ~Has(items, path, m)
    BY <1>2, <1>3
<1> QED BY <1>4 DEF Deepest

LEMMA DeepestUnique ==
    ASSUME NEW items, NEW path \in Seq(Names), NEW n \in 0..Len(path),
           n = 0 \/ Has(items, path, n),
           \A m \in (n + 1)..Len(path) : ~Has(items, path, m)
    PROVE  Deepest(items, path) = n
<1> DEFINE d == Deepest(items, path)
<1>1. /\ d \in 0..Len(path) /\ (d = 0 \/ Has(items, path, d))
      /\ \A m \in (d + 1)..Len(path) : ~Has(items, path, m)
    BY DeepestIs
<1> HIDE DEF d
<1>2. ~(d < n) BY <1>1
<1>3. ~(n < d) BY <1>1
<1> QED BY <1>1, <1>2, <1>3 DEF d

LEMMA VolumeItem ==
    ASSUME NEW items, IsVolume(items, folds), folds \in Foldings,
           NEW path \in Paths, AtIn(items, path) # {}
    PROVE  \E i \in items :
               /\ AtIn(items, path) = {i}
               /\ i.path \in Paths /\ Same(i.path, path, folds)
               /\ Spelling(items, path) = i.path
<1>1. PICK i \in AtIn(items, path) : TRUE OBVIOUS
<1>2. i \in items /\ Same(i.path, path, folds) BY <1>1 DEF AtIn
<1>3. ASSUME NEW j \in AtIn(items, path) PROVE j = i
    <2>1. j \in items /\ Same(j.path, path, folds) BY DEF AtIn
    <2>2. Same(j.path, i.path, folds) BY <1>2, <2>1, SameIsEquivalence
    <2> QED BY <1>2, <2>1, <2>2 DEF IsVolume
<1>4. AtIn(items, path) = {i} BY <1>1, <1>3
<1>5. (CHOOSE j \in AtIn(items, path) : TRUE) = i BY <1>4
<1>6. path # Root BY DEF Paths
<1>7. i.path \in Paths BY <1>2 DEF IsVolume, Paths
<1> QED BY <1>2, <1>4, <1>5, <1>6, <1>7 DEF Spelling

LEMMA VolumeClosed ==
    ASSUME NEW items, IsVolume(items, folds), folds \in Foldings,
           NEW path \in Seq(Names), NEW n \in 1..Len(path), Has(items, path, n),
           NEW m \in 1..n
    PROVE  Has(items, path, m)
<1>1. /\ SubSeq(path, 1, n) \in Seq(Names) /\ Len(SubSeq(path, 1, n)) = n
      /\ SubSeq(SubSeq(path, 1, n), 1, m) = SubSeq(path, 1, m)
    BY UpToType, UpToUpTo
<1>2. PICK i \in items : Same(i.path, SubSeq(path, 1, n), folds)
    BY DEF Has, AtIn
<1>3. i.path \in Seq(Names) BY DEF IsVolume
<1>4. Len(i.path) = n BY <1>1, <1>2, <1>3, SameMeans
<1>5. CASE m = n BY <1>5
<1>6. CASE m < n
    <2>0. m \in 1..(Len(i.path) - 1) BY <1>4, <1>6
    <2>1. PICK j \in items : j.path = SubSeq(i.path, 1, m)
        BY <2>0, VolumeFacts
    <2>2. Same(j.path, SubSeq(path, 1, m), folds)
        <3>1. m \in 0..Len(i.path) BY <1>4, <1>6
        <3>2. Same(SubSeq(i.path, 1, m), SubSeq(SubSeq(path, 1, n), 1, m), folds)
            BY <1>1, <1>2, <1>3, <3>1, SameUpTo
        <3> QED BY <1>1, <2>1, <3>2
    <2> QED BY <2>2 DEF Has, AtIn
<1> QED BY <1>5, <1>6

\* The part of a path that a volume has, as it spells it.
LEMMA KeptIs ==
    ASSUME NEW items, IsVolume(items, folds), folds \in Foldings,
           NEW path \in Seq(Names)
    PROVE  LET d == Deepest(items, path)
               K == Kept(items, path)
           IN  /\ d \in 0..Len(path)
               /\ K \in Seq(Names) /\ Len(K) = Len(path) /\ Same(K, path, folds)
               /\ d # 0 => \E i \in items : i.path = SubSeq(K, 1, d)
               /\ \A k \in (d + 1)..Len(path) : K[k] = path[k]
<1> DEFINE d == Deepest(items, path)
           K == Kept(items, path)
           head == Spelling(items, SubSeq(path, 1, d))
<1>1. d \in 0..Len(path) /\ (d # 0 => Has(items, path, d)) BY DeepestIs
<1>2. K = head \o SubSeq(path, d + 1, Len(path)) BY DEF Kept
<1>3. /\ head \in Seq(Names) /\ Len(head) = d /\ Same(head, SubSeq(path, 1, d), folds)
      /\ d # 0 => \E i \in items : i.path = head
    <2>0. SubSeq(path, 1, d) \in Seq(Names) /\ Len(SubSeq(path, 1, d)) = d BY <1>1, UpToType
    <2>1. CASE d = 0
        <3>1. SubSeq(path, 1, d) = Root BY <2>0, <2>1 DEF Root
        <3>2. head = Root BY <3>1 DEF Spelling
        <3>3. Root \in Seq(Names) /\ Len(Root) = 0 BY DEF Root
        <3> QED BY <2>1, <3>1, <3>2, <3>3, SameIsEquivalence
    <2>2. CASE d # 0
        <3>1. SubSeq(path, 1, d) \in Paths BY <2>0, <2>2 DEF Paths, Root
        <3>2. AtIn(items, SubSeq(path, 1, d)) # {} BY <1>1, <2>2 DEF Has
        <3>3. PICK i \in items : /\ i.path \in Paths /\ Same(i.path, SubSeq(path, 1, d), folds)
                                  /\ head = i.path
            BY <3>1, <3>2, VolumeItem
        <3>4. head \in Seq(Names) BY <3>3 DEF Paths
        <3>5. Len(head) = d BY <2>0, <3>3, <3>4, SameMeans
        <3> QED BY <3>3, <3>4, <3>5
    <2> QED BY <2>1, <2>2
<1> HIDE DEF head, d, K
<1>4. /\ K \in Seq(Names) /\ Len(K) = Len(path)
      /\ \A k \in 1..d : K[k] = head[k]
      /\ \A k \in (d + 1)..Len(path) : K[k] = path[k]
    <2>1. /\ SubSeq(path, d + 1, Len(path)) \in Seq(Names)
          /\ Len(SubSeq(path, d + 1, Len(path))) = Len(path) - d
          /\ \A k \in 1..(Len(path) - d) : SubSeq(path, d + 1, Len(path))[k] = path[d + k]
        BY <1>1
    <2>2. Len(K) = Len(path) /\ K \in Seq(Names)
        <3> DEFINE rest == SubSeq(path, d + 1, Len(path))
        <3>1. rest \in Seq(Names) /\ Len(rest) = Len(path) - d BY <2>1
        <3>2. K = head \o rest BY <1>2
        <3> HIDE DEF rest
        <3>3. head \o rest \in Seq(Names) /\ Len(head \o rest) = Len(head) + Len(rest)
            BY <1>3, <3>1, ConcatProperties
        <3> QED BY <1>1, <1>3, <3>1, <3>2, <3>3
    <2>3. \A k \in 1..d : K[k] = head[k] BY <1>1, <1>2, <1>3, <2>1
    <2>4. ASSUME NEW k \in (d + 1)..Len(path) PROVE K[k] = path[k]
        <3>1. K[k] = SubSeq(path, d + 1, Len(path))[k - d] BY <1>1, <1>2, <1>3, <2>1
        <3>2. k - d \in 1..(Len(path) - d) /\ d + (k - d) = k BY <1>1
        <3> QED BY <2>1, <3>1, <3>2
    <2> QED BY <2>2, <2>3, <2>4
<1>5. SubSeq(K, 1, d) = head
    <2>1. /\ SubSeq(K, 1, d) \in Seq(Names) /\ Len(SubSeq(K, 1, d)) = d
          /\ \A k \in 1..d : SubSeq(K, 1, d)[k] = K[k]
        BY <1>1, <1>4, UpToType
    <2> QED BY <1>3, <1>4, <2>1, PathsEqual
<1>6. Same(K, path, folds)
    <2>1. /\ SubSeq(path, 1, d) \in Seq(Names)
          /\ \A k \in 1..d : SubSeq(path, 1, d)[k] = path[k]
        BY <1>1, UpToType
    <2>2. \A k \in 1..d : SameName(head[k], SubSeq(path, 1, d)[k], folds)
        BY <1>3, <2>1, SameMeans
    <2>3. \A k \in 1..d : SameName(K[k], path[k], folds) BY <1>4, <2>1, <2>2
    <2>4. \A k \in (d + 1)..Len(path) : SameName(K[k], path[k], folds)
        BY <1>4 DEF SameName
    <2>5. \A k \in 1..Len(K) : SameName(K[k], path[k], folds)
        BY <1>1, <1>4, <2>3, <2>4
    <2> QED BY <1>4, <2>5, SameMeans
<1> QED BY <1>1, <1>3, <1>4, <1>5, <1>6 DEF K, d

\* What is kept of a path's folder is the folder of what is kept of the path.
LEMMA KeptUpTo ==
    ASSUME NEW items, IsVolume(items, folds), folds \in Foldings,
           NEW path \in Seq(Names), NEW n \in 0..Len(path)
    PROVE  Kept(items, SubSeq(path, 1, n)) = SubSeq(Kept(items, path), 1, n)
<1> DEFINE d == Deepest(items, path)
           K == Kept(items, path)
           q == SubSeq(path, 1, n)
           e == Deepest(items, q)
           Q == Kept(items, q)
<1>1. /\ d \in 0..Len(path) /\ (d = 0 \/ Has(items, path, d))
      /\ \A m \in (d + 1)..Len(path) : ~Has(items, path, m)
    BY DeepestIs
<1>2. q \in Seq(Names) /\ Len(q) = n /\ \A k \in 1..n : q[k] = path[k] BY UpToType
<1>3. /\ K \in Seq(Names) /\ Len(K) = Len(path) /\ Same(K, path, folds)
      /\ d # 0 => \E i \in items : i.path = SubSeq(K, 1, d)
      /\ \A k \in (d + 1)..Len(path) : K[k] = path[k]
    BY KeptIs
<1>4. /\ e \in 0..Len(q)
      /\ Q \in Seq(Names) /\ Len(Q) = Len(q) /\ Same(Q, q, folds)
      /\ e # 0 => \E i \in items : i.path = SubSeq(Q, 1, e)
      /\ \A k \in (e + 1)..Len(q) : Q[k] = q[k]
    BY <1>2, KeptIs
<1>5. \A m \in 1..n : Has(items, q, m) <=> Has(items, path, m)
    <2> SUFFICES ASSUME NEW m \in 1..n PROVE Has(items, q, m) <=> Has(items, path, m)
        OBVIOUS
    <2>1. SubSeq(q, 1, m) = SubSeq(path, 1, m) BY UpToUpTo
    <2> QED BY <2>1 DEF Has
<1>6. CASE d <= n
    <2>1. e = d
        <3>1. d \in 0..Len(q) /\ (d = 0 \/ Has(items, q, d)) BY <1>1, <1>2, <1>5, <1>6
        <3>2. \A m \in (d + 1)..Len(q) : ~Has(items, q, m) BY <1>1, <1>2, <1>5, <1>6
        <3> QED BY <1>2, <3>1, <3>2, DeepestUnique
    <2>2. SubSeq(Q, 1, d) = SubSeq(K, 1, d)
        <3>1. CASE d = 0 
            BY <1>3, <1>4, <3>1, UpToType, PathsEqual
        <3>2. CASE d # 0
            <4>1. PICK i \in items : i.path = SubSeq(K, 1, d) BY <1>3, <3>2
            <4>2. PICK j \in items : j.path = SubSeq(Q, 1, d) BY <1>4, <2>1, <3>2
            <4>3. Same(i.path, SubSeq(path, 1, d), folds)
                BY <1>1, <1>3, <4>1, SameUpTo
            <4>4. Same(j.path, SubSeq(q, 1, d), folds)
                BY <1>4, <1>2, <2>1, <4>2, SameUpTo
            <4>5. SubSeq(q, 1, d) = SubSeq(path, 1, d) BY <1>1, <1>6, UpToUpTo
            <4>6. Same(i.path, j.path, folds) BY <4>3, <4>4, <4>5, SameAsBoth
            <4> QED BY <4>1, <4>2, <4>6, VolumeFacts
        <3> QED BY <3>1, <3>2
    <2>3. \A k \in 1..d : Q[k] = K[k]
        <3>1. \A k \in 1..d : SubSeq(Q, 1, d)[k] = Q[k] BY <1>1, <1>2, <1>4, <1>6, UpToType
        <3>2. \A k \in 1..d : SubSeq(K, 1, d)[k] = K[k] BY <1>1, <1>3, UpToType
        <3> QED BY <2>2, <3>1, <3>2
    <2>4. \A k \in (d + 1)..n : Q[k] = K[k] BY <1>1, <1>2, <1>3, <1>4, <2>1
    <2>5. \A k \in 1..n : Q[k] = K[k] BY <1>1, <2>3, <2>4
    <2>6. SubSeq(K, 1, n) \in Seq(Names) /\ Len(SubSeq(K, 1, n)) = n
              /\ \A k \in 1..n : SubSeq(K, 1, n)[k] = K[k]
        BY <1>3, UpToType
    <2> HIDE DEF Q, K
    <2>7. Q = SubSeq(K, 1, n) BY <1>2, <1>4, <2>5, <2>6, PathsEqual
    <2> QED BY <2>7 DEF Q, K
<1>7. CASE n < d
    <2>1. PICK i \in items : i.path = SubSeq(K, 1, d) BY <1>3, <1>7
    <2>2. Has(items, path, d) BY <1>1, <1>7
    <2>3. CASE n = 0
        BY <1>2, <1>3, <1>4, <2>3, UpToType, PathsEqual
    <2>4. CASE n # 0
        <3>1. Has(items, path, n) BY <1>1, <1>7, <2>2, <2>4, VolumeClosed
        <3>2. e = n
            <4>1. n \in 0..Len(q) /\ Has(items, q, n) BY <1>2, <1>5, <2>4, <3>1
            <4>2. \A m \in (n + 1)..Len(q) : ~Has(items, q, m) BY <1>2
            <4> QED BY <1>2, <4>1, <4>2, DeepestUnique
        <3>3. PICK j \in items : j.path = SubSeq(Q, 1, n) BY <1>4, <2>4, <3>2
        <3>4. SubSeq(Q, 1, n) = Q BY <1>2, <1>4
        <3>5. Len(i.path) = d /\ i.path \in Seq(Names) BY <1>1, <1>3, <2>1, UpToType
        <3>6. PICK k \in items : k.path = SubSeq(i.path, 1, n)
            <4>1. n \in 1..(Len(i.path) - 1) BY <1>7, <2>4, <3>5
            <4> QED BY <4>1, VolumeFacts
        <3>7. k.path = SubSeq(K, 1, n) BY <1>1, <1>3, <1>7, <2>1, <3>6, UpToUpTo
        <3>8. Same(k.path, q, folds) BY <1>3, <3>7, SameUpTo
        <3>9. Same(j.path, k.path, folds) BY <1>4, <3>3, <3>4, <3>8, SameAsBoth
        <3> QED BY <3>3, <3>4, <3>7, <3>9, VolumeFacts
    <2> QED BY <2>3, <2>4
<1> QED BY <1>1, <1>6, <1>7

LEMMA ItemIsTyped ==
    ASSUME NEW path \in Paths, NEW is \in {"file", "dir", "locked", "broken", "special"},
           NEW size \in Nat, NEW modified \in Nat
    PROVE  Item(path, is, size, modified) \in ItemType
<1>1. Root \in Seq(Names) BY DEF Root
<1>2. NoRecord \in [read : {"whole", "torn", "fails"}, ours : BOOLEAN, path : Seq(Names),
                      size : Nat, modified : Nat, bytes : Nat]
    <2>1. 0 \in Nat OBVIOUS
    <2> QED BY <1>1, <2>1, Zenon DEF NoRecord
<1> QED BY <1>2 DEF Item, ItemType

\* The part of a path that a volume has, and the rest.
LEMMA HasUpToDeepest ==
    ASSUME NEW items, IsVolume(items, folds), folds \in Foldings,
           NEW path \in Seq(Names), NEW m \in 1..Len(path)
    PROVE  Has(items, path, m) <=> m <= Deepest(items, path)
<1>1. LET d == Deepest(items, path)
      IN  /\ d \in 0..Len(path) /\ (d = 0 \/ Has(items, path, d))
          /\ \A n \in (d + 1)..Len(path) : ~Has(items, path, n)
    BY DeepestIs
<1>2. ASSUME m <= Deepest(items, path) PROVE Has(items, path, m)
    <2>1. Deepest(items, path) \in 1..Len(path) /\ m \in 1..Deepest(items, path) BY <1>1, <1>2
    <2>2. Has(items, path, Deepest(items, path)) BY <1>1, <2>1
    <2> QED BY <2>1, <2>2, VolumeClosed
<1> QED BY <1>1, <1>2

LEMMA FolderMade ==
    ASSUME NEW items, IsVolume(items, folds), folds \in Foldings,
           NEW path \in Seq(Names)
    PROVE  MakeFolder(items, path).items =
               items \cup {Item(SubSeq(Kept(items, path), 1, m), "dir", 0, 0) :
                               m \in (Deepest(items, path) + 1)..Len(path)}
<1> DEFINE d == Deepest(items, path)
           missing == {p \in Ancestry(path) : AtIn(items, p) = {}}
<1>1. d \in 0..Len(path) BY DeepestIs
<1>2. missing = {SubSeq(path, 1, m) : m \in (d + 1)..Len(path)}
    <2>1. ASSUME NEW m \in 1..Len(path)
          PROVE  AtIn(items, SubSeq(path, 1, m)) = {} <=> m > d
        <3>1. Has(items, path, m) <=> m <= d BY HasUpToDeepest
        <3> QED BY <1>1, <3>1 DEF Has
    <2> HIDE DEF d
    <2>2. missing = {p \in {SubSeq(path, 1, m) : m \in 1..Len(path)} : AtIn(items, p) = {}}
        BY DEF Ancestry
    <2>3. ASSUME NEW p \in missing PROVE p \in {SubSeq(path, 1, m) : m \in (d + 1)..Len(path)}
        <3>1. PICK m \in 1..Len(path) : p = SubSeq(path, 1, m) BY <2>2
        <3>2. m \in (d + 1)..Len(path) BY <1>1, <2>1, <2>3, <3>1
        <3> QED BY <3>1, <3>2
    <2>4. ASSUME NEW m \in (d + 1)..Len(path) PROVE SubSeq(path, 1, m) \in missing
        <3>1. m \in 1..Len(path) /\ m > d BY <1>1
        <3> QED BY <2>1, <2>2, <3>1
    <2> QED BY <2>3, <2>4
<1>3. \A m \in (d + 1)..Len(path) :
          Kept(items, SubSeq(path, 1, m)) = SubSeq(Kept(items, path), 1, m)
    BY <1>1, KeptUpTo
<1>4. MakeFolder(items, path).items = items \cup {Item(Kept(items, p), "dir", 0, 0) : p \in missing}
    BY DEF MakeFolder
<1>5. {Item(Kept(items, p), "dir", 0, 0) : p \in missing}
        = {Item(SubSeq(Kept(items, path), 1, m), "dir", 0, 0) : m \in (d + 1)..Len(path)}
    <2> HIDE DEF d, missing
    <2>1. {Item(Kept(items, p), "dir", 0, 0) : p \in missing}
            = {Item(Kept(items, SubSeq(path, 1, m)), "dir", 0, 0) : m \in (d + 1)..Len(path)}
        BY <1>2
    <2> QED BY <1>3, <2>1
<1> QED BY <1>4, <1>5

LEMMA MakeFolderKeepsVolume ==
    ASSUME NEW items, IsVolume(items, folds), folds \in Foldings,
           NEW path \in Seq(Names), MakeFolder(items, path).ok
    PROVE  /\ IsVolume(MakeFolder(items, path).items, folds)
           /\ \A n \in 1..Len(path) : \E k \in MakeFolder(items, path).items :
                k.path = SubSeq(Kept(items, path), 1, n) /\ IsFolder(k)
           /\ \A k \in MakeFolder(items, path).items \ items : Len(k.path) <= Len(path)
<1> DEFINE d == Deepest(items, path)
           K == Kept(items, path)
           new(m) == Item(SubSeq(K, 1, m), "dir", 0, 0)
           made == MakeFolder(items, path).items
<1>1. /\ d \in 0..Len(path)
      /\ K \in Seq(Names) /\ Len(K) = Len(path) /\ Same(K, path, folds)
      /\ d # 0 => \E i \in items : i.path = SubSeq(K, 1, d)
    BY KeptIs
<1>2. \A m \in 1..Len(path) : Has(items, path, m) <=> m <= d BY HasUpToDeepest
<1>3. made = items \cup {new(m) : m \in (d + 1)..Len(path)} BY FolderMade
<1>4. ASSUME NEW n \in 1..d
      PROVE  \E k \in items : k.path = SubSeq(K, 1, n) /\ IsFolder(k)
    <2>0. n \in 1..Len(path) BY <1>1
    <2>1. AtIn(items, SubSeq(path, 1, n)) # {} BY <1>1, <1>2, <2>0 DEF Has
    <2>2. SubSeq(path, 1, n) \in Ancestry(path) BY <2>0 DEF Ancestry
    <2>p. SubSeq(path, 1, n) # Root BY <2>0, UpToType DEF Root
    <2>3. PICK j \in AtIn(items, SubSeq(path, 1, n)) : IsFolder(j)
        BY <2>1, <2>2, <2>p DEF MakeFolder, HasFolder
    <2>4. j \in items /\ Same(j.path, SubSeq(path, 1, n), folds) BY <2>3 DEF AtIn
    <2>5. PICK i \in items : i.path = SubSeq(K, 1, d) BY <1>1
    <2>6. PICK k \in items : k.path = SubSeq(K, 1, n)
        <3>1. CASE n = d BY <2>5, <3>1
        <3>2. CASE n < d
            <4>1. Len(i.path) = d BY <1>1, <2>5, UpToType
            <4>2. n \in 1..(Len(i.path) - 1) BY <1>1, <3>2, <4>1
            <4>3. PICK k \in items : k.path = SubSeq(i.path, 1, n) BY <4>2, VolumeFacts
            <4>4. d \in 0..Len(K) /\ n \in 0..d BY <1>1
            <4>5. SubSeq(i.path, 1, n) = SubSeq(K, 1, n) BY <1>1, <2>5, <4>4, UpToUpTo
            <4> QED BY <4>3, <4>5
        <3> QED BY <1>1, <3>1, <3>2
    <2>7. Same(k.path, SubSeq(path, 1, n), folds) BY <1>1, <2>0, <2>6, SameUpTo
    <2>8. Same(k.path, j.path, folds) BY <2>4, <2>7, SameAsBoth
    <2>9. k = j BY <2>4, <2>6, <2>8, VolumeFacts
    <2> QED BY <2>3, <2>6, <2>9
<1> HIDE DEF d, K, made
<1>5. ASSUME NEW m \in (d + 1)..Len(path)
      PROVE  /\ m \in 1..Len(path)
             /\ new(m) \in ItemType /\ new(m).path = SubSeq(K, 1, m) /\ IsFolder(new(m))
             /\ Len(new(m).path) = m /\ new(m).path \in Seq(Names) /\ new(m) \in made
    <2>1. m \in 1..Len(path) BY <1>1
    <2>2. SubSeq(K, 1, m) \in Seq(Names) /\ Len(SubSeq(K, 1, m)) = m BY <1>1, <2>1, UpToType
    <2>3. SubSeq(K, 1, m) \in Paths
        <3> DEFINE q == SubSeq(K, 1, m)
        <3>1. q \in Seq(Names) /\ Len(q) # 0 BY <2>1, <2>2
        <3> HIDE DEF q
        <3>2. q \in Paths BY <3>1 DEF Paths, Root
        <3> QED BY <3>2 DEF q
    <2>4. new(m) \in ItemType BY <2>3, ItemIsTyped
    <2>5. new(m).path = SubSeq(K, 1, m) /\ IsFolder(new(m)) BY DEF Item, IsFolder
    <2> QED BY <1>3, <2>1, <2>2, <2>4, <2>5
<1> HIDE DEF new
<1>6. ASSUME NEW n \in 1..Len(path)
      PROVE  \E k \in made : k.path = SubSeq(K, 1, n) /\ IsFolder(k)
    <2>1. CASE n <= d
        <3>1. n \in 1..d BY <2>1, <1>1
        <3> QED BY <1>3, <1>4, <3>1
    <2>2. CASE n > d
        <3>1. n \in (d + 1)..Len(path) BY <2>2, <1>1
        <3> QED BY <1>5, <3>1
    <2> QED BY <1>1, <2>1, <2>2
<1>7. made \subseteq ItemType BY <1>3, <1>5, VolumeFacts
<1>8. ASSUME NEW i \in items, NEW m \in (d + 1)..Len(path)
      PROVE  ~Same(i.path, new(m).path, folds)
    <2>1. SUFFICES ASSUME Same(i.path, SubSeq(K, 1, m), folds) PROVE FALSE BY <1>5
    <2>2. Same(SubSeq(K, 1, m), SubSeq(path, 1, m), folds) BY <1>1, <1>5, SameUpTo
    <2>3. Same(i.path, SubSeq(path, 1, m), folds) BY <2>1, <2>2, SameIsEquivalence
    <2>4. Has(items, path, m) BY <2>3 DEF Has, AtIn
    <2> QED BY <1>1, <1>2, <1>5, <2>4
<1>9. ASSUME NEW i \in made, NEW j \in made, Same(i.path, j.path, folds) PROVE i = j
    <2>1. CASE i \in items /\ j \in items BY <1>9, <2>1, VolumeFacts
    <2>2. CASE i \in items /\ j \notin items
        <3>1. PICK m \in (d + 1)..Len(path) : j = new(m) BY <1>3, <2>2
        <3> QED BY <1>8, <1>9, <2>2, <3>1
    <2>3. CASE i \notin items /\ j \in items
        <3>1. PICK m \in (d + 1)..Len(path) : i = new(m) BY <1>3, <2>3
        <3>2. Same(j.path, i.path, folds) BY <1>9, SameIsEquivalence
        <3> QED BY <1>8, <2>3, <3>1, <3>2
    <2>4. CASE i \notin items /\ j \notin items
        <3>1. PICK m \in (d + 1)..Len(path) : i = new(m) BY <1>3, <2>4
        <3>2. PICK n \in (d + 1)..Len(path) : j = new(n) BY <1>3, <2>4
        <3>3. m = n BY <1>5, <1>9, <3>1, <3>2, SameMeans
        <3> QED BY <3>1, <3>2, <3>3
    <2> QED BY <2>1, <2>2, <2>3, <2>4
<1>10. ASSUME NEW i \in made, NEW n \in 1..(Len(i.path) - 1)
       PROVE  \E j \in made : j.path = SubSeq(i.path, 1, n) /\ IsFolder(j)
    <2>1. CASE i \in items BY <1>3, <2>1, VolumeFacts
    <2>2. CASE i \notin items
        <3>1. PICK m \in (d + 1)..Len(path) : i = new(m) BY <1>3, <2>2
        <3>2. n \in 1..Len(path) /\ n \in 0..m /\ m \in 0..Len(K) BY <1>1, <1>5, <3>1
        <3>3. SubSeq(i.path, 1, n) = SubSeq(K, 1, n) BY <1>1, <1>5, <3>1, <3>2, UpToUpTo
        <3> QED BY <1>6, <3>2, <3>3
    <2> QED BY <2>1, <2>2
<1>11. IsVolume(made, folds)
    BY <1>7, <1>9, <1>10 DEF IsVolume, ItemType, Paths
<1>12. \A k \in made \ items : Len(k.path) <= Len(path)
    BY <1>3, <1>5
<1> QED BY <1>6, <1>11, <1>12 DEF made, K

LEMMA FrontOf ==
    ASSUME NEW p \in Paths
    PROVE  /\ Len(p) \in Nat \ {0} /\ Parent(p) \in Seq(Names) /\ Len(Parent(p)) = Len(p) - 1
           /\ Last(p) \in Names
           /\ p = Append(Parent(p), Last(p))
           /\ Parent(p) = SubSeq(p, 1, Len(p) - 1)
<1>1. p \in Seq(Names) /\ p # << >> BY DEF Paths, Root
<1>2. Len(p) \in Nat \ {0} BY <1>1
<1>3. Parent(p) = SubSeq(p, 1, Len(p) - 1) BY DEF Parent, Front
<1>4. /\ Parent(p) \in Seq(Names) /\ Len(Parent(p)) = Len(p) - 1
      /\ \A k \in 1..(Len(p) - 1) : Parent(p)[k] = p[k]
    <2>1. Len(p) - 1 \in 0..Len(p) BY <1>2
    <2> QED BY <1>1, <1>3, <2>1, UpToType
<1>5. Last(p) = p[Len(p)] /\ Last(p) \in Names BY <1>1, <1>2 DEF Last
<1>6. /\ Append(Parent(p), Last(p)) \in Seq(Names)
      /\ Len(Append(Parent(p), Last(p))) = Len(p)
      /\ \A k \in 1..(Len(p) - 1) : Append(Parent(p), Last(p))[k] = p[k]
      /\ Append(Parent(p), Last(p))[Len(p)] = p[Len(p)]
    <2> HIDE DEF Parent, Last
    <2> QED BY <1>2, <1>4, <1>5
<1>7. \A k \in 1..Len(p) : Append(Parent(p), Last(p))[k] = p[k] BY <1>2, <1>6
<1>8. p = Append(Parent(p), Last(p)) BY <1>1, <1>6, <1>7, PathsEqual
<1> QED BY <1>2, <1>3, <1>4, <1>5, <1>8

LEMMA AppendTo ==
    ASSUME NEW q \in Seq(Names), NEW m \in Names
    PROVE  /\ Append(q, m) \in Paths /\ Len(Append(q, m)) = Len(q) + 1
           /\ SubSeq(Append(q, m), 1, Len(q)) = q
           /\ Parent(Append(q, m)) = q /\ Last(Append(q, m)) = m
<1>1. /\ Append(q, m) \in Seq(Names) /\ Len(Append(q, m)) = Len(q) + 1
      /\ \A k \in 1..Len(q) : Append(q, m)[k] = q[k]
      /\ Append(q, m)[Len(q) + 1] = m
    OBVIOUS
<1> DEFINE p == Append(q, m)
<1> HIDE DEF p
<1>2. p \in Seq(Names) /\ Len(p) = Len(q) + 1 /\ (\A k \in 1..Len(q) : p[k] = q[k])
      /\ p[Len(q) + 1] = m
    BY <1>1 DEF p
<1>3. p # << >> BY <1>2
<1>4. /\ SubSeq(p, 1, Len(q)) \in Seq(Names) /\ Len(SubSeq(p, 1, Len(q))) = Len(q)
      /\ \A k \in 1..Len(q) : SubSeq(p, 1, Len(q))[k] = p[k]
    BY <1>2, UpToType
<1>5. SubSeq(p, 1, Len(q)) = q BY <1>2, <1>4, PathsEqual
<1>6. Len(p) - 1 = Len(q) BY <1>2
<1>7. Parent(p) = q /\ Last(p) = m BY <1>2, <1>5, <1>6 DEF Parent, Front, Last
<1> QED BY <1>2, <1>3, <1>5, <1>7 DEF p, Paths, Root

LEMMA SameAppend ==
    ASSUME NEW p \in Seq(Names), NEW q \in Seq(Names), NEW m \in Names,
           NEW fold \in Foldings, Same(p, q, fold)
    PROVE  Same(Append(p, m), Append(q, m), fold)
<1>1. Len(p) = Len(q) /\ \A k \in 1..Len(p) : SameName(p[k], q[k], fold) BY SameMeans
<1>2. /\ Append(p, m) \in Seq(Names) /\ Len(Append(p, m)) = Len(p) + 1
      /\ \A k \in 1..Len(p) : Append(p, m)[k] = p[k]
      /\ Append(p, m)[Len(p) + 1] = m
    OBVIOUS
<1>3. /\ Append(q, m) \in Seq(Names) /\ Len(Append(q, m)) = Len(q) + 1
      /\ \A k \in 1..Len(q) : Append(q, m)[k] = q[k]
      /\ Append(q, m)[Len(q) + 1] = m
    OBVIOUS
<1>4. ASSUME NEW k \in 1..(Len(p) + 1) PROVE SameName(Append(p, m)[k], Append(q, m)[k], fold)
    <2>1. CASE k \in 1..Len(p) BY <1>1, <1>2, <1>3, <2>1
    <2>2. CASE k = Len(p) + 1 BY <1>1, <1>2, <1>3, <2>2 DEF SameName
    <2>3. k \in 1..Len(p) \/ k = Len(p) + 1 OBVIOUS
    <2> QED BY <2>1, <2>2, <2>3
<1> HIDE DEF SameName
<1> QED BY <1>1, <1>2, <1>3, <1>4, SameMeans

LEMMA PutFileKeepsVolume ==
    ASSUME NEW items, IsVolume(items, folds), folds \in Foldings,
           NEW a, a.path \in Paths, a.size \in Nat, a.modified \in Nat,
           PutFile(items, a).ok
    PROVE  IsVolume(PutFile(items, a).items, folds)
<1> DEFINE q == Parent(a.path)
           F == MakeFolder(items, q).items
           L == LeftBy(items, a.path)
           at_ == Append(Kept(F, q), Last(a.path))
           file_ == Item(at_, "file", a.size, a.modified)
           put == PutFile(items, a).items
<1>0. put = (F \ L) \cup {file_} BY DEF PutFile
<1>1. /\ q \in Seq(Names) /\ Len(q) = Len(a.path) - 1 /\ Last(a.path) \in Names
      /\ a.path = Append(q, Last(a.path)) /\ Len(a.path) \in Nat
    BY FrontOf
<1>2. MakeFolder(items, q).ok /\ \A i \in L : ~IsFolder(i)
    BY DEF PutFile
<1>3. /\ IsVolume(F, folds)
      /\ \A n \in 1..Len(q) : \E k \in F : k.path = SubSeq(Kept(items, q), 1, n) /\ IsFolder(k)
      /\ \A k \in F \ items : Len(k.path) <= Len(q)
    BY <1>1, <1>2, MakeFolderKeepsVolume
<1>4. Kept(items, q) \in Seq(Names) /\ Len(Kept(items, q)) = Len(q) /\ Same(Kept(items, q), q, folds)
    BY <1>1, KeptIs
<1>5. AtIn(items, a.path) \subseteq L
    BY <1>1 DEF LeftBy, ResumeFiles
<1> HIDE DEF F, L, q, put, file_, at_
<1>6. /\ Kept(F, q) \in Seq(Names) /\ Len(Kept(F, q)) = Len(q) /\ Same(Kept(F, q), q, folds)
    BY <1>1, <1>3, KeptIs
<1>7. ASSUME NEW n \in 1..Len(q)
      PROVE  \E k \in F : k.path = SubSeq(Kept(F, q), 1, n) /\ IsFolder(k)
    <2>1. PICK k \in F : k.path = SubSeq(Kept(items, q), 1, n) /\ IsFolder(k) BY <1>3
    <2>2. Has(F, q, Len(q))
        <3>0. Len(q) \in 1..Len(q) BY <1>1
        <3>1. PICK j \in F : j.path = SubSeq(Kept(items, q), 1, Len(q)) BY <1>3, <3>0
        <3>2. Same(j.path, SubSeq(q, 1, Len(q)), folds) BY <1>1, <1>4, <3>0, <3>1, SameUpTo
        <3> QED BY <3>2 DEF Has, AtIn
    <2>3. Len(q) \in 1..Len(q) BY <1>1
    <2>4. Deepest(F, q) \in 0..Len(q) /\ Len(q) <= Deepest(F, q)
        BY <1>1, <1>3, <2>2, <2>3, HasUpToDeepest, DeepestIs
    <2>5. PICK i \in F : i.path = SubSeq(Kept(F, q), 1, Len(q))
        <3>1. Deepest(F, q) = Len(q) /\ Len(q) # 0 BY <2>3, <2>4
        <3>2. \E i \in F : i.path = SubSeq(Kept(F, q), 1, Deepest(F, q))
            BY <1>1, <1>3, <3>1, KeptIs
        <3> QED BY <3>1, <3>2
    <2>6. PICK j \in F : j.path = SubSeq(Kept(F, q), 1, n)
        <3>1. CASE n = Len(q) BY <2>5, <3>1
        <3>2. CASE n < Len(q)
            <4>1. Len(i.path) = Len(q) /\ n \in 1..(Len(i.path) - 1)
                BY <1>1, <1>6, <2>5, <3>2, UpToType
            <4>2. PICK j \in F : j.path = SubSeq(i.path, 1, n) BY <1>3, <4>1, VolumeFacts
            <4>3. SubSeq(i.path, 1, n) = SubSeq(Kept(F, q), 1, n)
                BY <1>1, <1>6, <2>5, <3>2, UpToUpTo
            <4> QED BY <4>2, <4>3
        <3> QED BY <1>1, <3>1, <3>2
    <2>7. Same(k.path, SubSeq(q, 1, n), folds) BY <1>1, <1>4, <2>1, SameUpTo
    <2>8. Same(j.path, SubSeq(q, 1, n), folds) BY <1>1, <1>6, <2>6, SameUpTo
    <2>9. j = k BY <1>3, <2>7, <2>8, SameAsBoth, VolumeFacts
    <2> QED BY <2>1, <2>6, <2>9
<1>8. /\ at_ \in Paths /\ at_ \in Seq(Names) /\ Len(at_) = Len(q) + 1
      /\ SubSeq(at_, 1, Len(q)) = Kept(F, q)
    BY <1>1, <1>6, AppendTo DEF at_, Paths
<1>9. file_ \in ItemType /\ file_.path = at_
    BY <1>8, ItemIsTyped DEF file_, Item
<1>10. put \subseteq ItemType BY <1>0, <1>3, <1>9, VolumeFacts
<1>11. Same(at_, a.path, folds) BY <1>1, <1>6, SameAppend DEF at_
<1>12. ASSUME NEW i \in F \ L PROVE ~Same(i.path, at_, folds)
    <2>1. SUFFICES ASSUME Same(i.path, at_, folds) PROVE FALSE OBVIOUS
    <2>2. Same(i.path, a.path, folds) BY <1>11, <2>1, SameIsEquivalence
    <2>3. i \notin items BY <1>5, <2>2 DEF AtIn
    <2>4. Len(i.path) <= Len(q) BY <1>3, <2>3
    <2>5. i.path \in Seq(Names) BY <1>3, VolumeFacts
    <2>6. Len(i.path) = Len(at_) BY <1>8, <2>1, <2>5, SameMeans
    <2> QED BY <1>1, <1>8, <2>4, <2>6
<1>13. ASSUME NEW i \in put, NEW j \in put, Same(i.path, j.path, folds) PROVE i = j
    <2>1. CASE i \in F \ L /\ j \in F \ L BY <1>3, <1>13, <2>1, VolumeFacts
    <2>2. CASE i \in F \ L /\ j = file_ BY <1>9, <1>12, <1>13, <2>2
    <2>3. CASE i = file_ /\ j \in F \ L
        BY <1>9, <1>12, <1>13, <2>3, SameIsEquivalence
    <2> QED BY <1>0, <2>1, <2>2, <2>3
<1>14. ASSUME NEW i \in put, NEW n \in 1..(Len(i.path) - 1)
       PROVE  \E j \in put : j.path = SubSeq(i.path, 1, n) /\ IsFolder(j)
    <2>1. \A j \in F : IsFolder(j) => j \in put BY <1>0, <1>2
    <2>2. CASE i \in F
        <3>1. PICK j \in F : j.path = SubSeq(i.path, 1, n) /\ IsFolder(j)
            BY <1>3, <2>2, VolumeFacts
        <3> QED BY <2>1, <3>1
    <2>3. CASE i = file_
        <3>1. n \in 1..Len(q) BY <1>1, <1>8, <1>9, <2>3
        <3>2. PICK k \in F : k.path = SubSeq(Kept(F, q), 1, n) /\ IsFolder(k) BY <1>7, <3>1
        <3>3. Len(q) \in 0..Len(at_) /\ n \in 0..Len(q) BY <1>1, <1>8, <3>1
        <3>4. SubSeq(at_, 1, n) = SubSeq(Kept(F, q), 1, n) BY <1>8, <3>3, UpToUpTo
        <3> QED BY <1>9, <2>1, <2>3, <3>2, <3>4
    <2> QED BY <1>0, <2>2, <2>3
<1>15. IsVolume(put, folds) BY <1>10, <1>13, <1>14 DEF IsVolume, ItemType, Paths
<1> QED BY <1>15 DEF put
-----------------------------------------------------------------------------
(* Types: what the variables of a transfer may hold.                       *)

Reasons == {"none", "new", "identical", "conflict", "kind", "differs", "collision"}
ActionType(kinds) ==
    [do : kinds, path : Paths, size : Nat, modified : Nat, from : Nat, reason : Reasons]
BlockedType == [path : Paths, reason : Reasons]
PartialType == [path : Seq(Names), size : Nat, modified : Nat, bytes : Nat]
FoundType ==
    [entries : SUBSET EntryType, partials : SUBSET PartialType,
     skipped : SUBSET Seq(Names), folding : Foldings]

DiskInv ==
    /\ rootIs \in {"dir", "locked", "file", "absent", "unknown"} /\ folds \in Foldings
    /\ IsVolume(volume, folds) /\ (rootIs \notin {"dir", "locked"} => volume = {})

ScanInv ==
    /\ walk \in {"stat", "walk", "listed", "over", "failed"}
    /\ toVisit \subseteq volume /\ (walk # "walk" => toVisit = {})
    /\ found \in FoundType

GivenInv ==
    /\ IsListing(source) /\ dest \subseteq EntryType /\ folding \in Foldings
    /\ partials \subseteq PartialType /\ policy \in Policies

DeciderInv ==
    /\ at \in 1..(Len(source) + 1)
    /\ mkdirs \in Seq(ActionType({"mkdir"})) /\ files \in Seq(ActionType({"copy", "skip"}))
    /\ Len(mkdirs) + Len(files) <= at - 1
    /\ blocked \in Seq(BlockedType) /\ Len(blocked) <= 1
    /\ conflicts \in Seq(Paths)

PhaseInv ==
    /\ phase \in {"idle", "collect", "decide", "ready", "conflicts", "run"}
    /\ (phase = "idle") = (walk # "over")
    /\ phase \in {"idle", "collect", "conflicts"} =>
            mkdirs = <<>> /\ files = <<>> /\ blocked = <<>>
    /\ phase = "idle" => Blank
    /\ phase = "run" => round = 0
    /\ round \in 0..1 /\ ran \in 0..Len(source)

TypeInv == DiskInv /\ ScanInv /\ GivenInv /\ DeciderInv /\ PhaseInv

LEMMA TypeInvHolds == TypeInv => TypeOK
<1> QED BY DEF TypeInv, ScanInv, GivenInv, DeciderInv, PhaseInv, TypeOK

LEMMA BlankTyped ==
    ASSUME IsListing(source), Blank PROVE DeciderInv
<1>1. \A S : << >> \in Seq(S) BY EmptySeq
<1>2. Len(source) \in Nat BY DEF IsListing
<1>3. at = 1 /\ mkdirs = << >> /\ files = << >> /\ blocked = << >> /\ conflicts = << >> BY DEF Blank
<1>4. Len(mkdirs) + Len(files) <= at - 1 /\ Len(blocked) <= 1 BY <1>3
<1>5. at \in 1..(Len(source) + 1) BY <1>2, <1>3
<1> QED BY <1>1, <1>3, <1>4, <1>5 DEF DeciderInv

LEMMA TypeInit == Init => TypeInv
<1> SUFFICES ASSUME Init PROVE TypeInv OBVIOUS
<1>1. IsListing(source)
    <2>1. PICK s \in Sources : source = Snapshot(s) BY DEF Init
    <2>2. IsSource(s) BY PlanningAssumption
    <2> QED BY <2>1, <2>2, SnapshotLists
<1>2. DiskInv
    <2>1. PICK v \in Volumes : /\ rootIs = v.rootIs /\ volume = v.items
                               /\ folds = v.folds /\ baseTells = v.baseTells
        BY DEF Init
    <2> QED BY <2>1, PlanningAssumption DEF DiskInv
<1>3. NothingFound \in FoundType BY DEF NothingFound, FoundType, Foldings
<1>4. ScanInv BY <1>3 DEF Init, ScanInv
<1>5. GivenInv BY <1>1 DEF Init, GivenInv, Foldings
<1>6. Blank BY DEF Init
<1>7. DeciderInv BY <1>1, <1>6, BlankTyped
<1>8. Len(source) \in Nat BY <1>1 DEF IsListing
<1>9. PhaseInv BY <1>6, <1>8 DEF Init, PhaseInv, Blank
<1> QED BY <1>2, <1>4, <1>5, <1>7, <1>9 DEF TypeInv

LEMMA ScanTyped ==
    ASSUME TypeInv, Scan PROVE TypeInv'
<1> USE DEF TypeInv
<1>1. DiskInv' BY DEF Scan, disk, DiskInv
<1>2. GivenInv' /\ DeciderInv'
    BY DEF Scan, plannerVars, given, decider, GivenInv, DeciderInv
<1>3. walk # "over" /\ walk' # "over" /\ ScanInv'
    <2>v. volume' = volume BY DEF Scan, disk
    <2>f. /\ found \in FoundType /\ toVisit \subseteq volume
          /\ \A p : Children(p) \subseteq volume
        BY DEF ScanInv, Children, ChildrenIn
    <2>1. CASE StatRoot
        <3>1. Root \in Seq(Names) BY DEF Root
        <3>2. [found EXCEPT !.skipped = IF rootIs = "locked" THEN {Root} ELSE @] \in FoundType
            BY <2>f, <3>1 DEF FoundType
        <3> QED BY <2>v, <2>f, <2>1, <3>2 DEF StatRoot, FailWalk, ScanInv
    <2>2. CASE WalkCancelled BY <2>v, <2>f, <2>2 DEF WalkCancelled, FailWalk, ScanInv
    <2>3. CASE FinishWalk
        <3>1. PICK tells \in Foldings : found' = [found EXCEPT !.folding = tells]
            BY <2>3 DEF FinishWalk
        <3>2. found' \in FoundType BY <2>f, <3>1 DEF FoundType
        <3> QED BY <2>3, <2>v, <3>2 DEF FinishWalk, ScanInv
    <2>4. ASSUME NEW i \in toVisit, NEW rest, rest \subseteq volume, Walking(i, rest), found' \in FoundType
          PROVE  walk # "over" /\ walk' # "over" /\ ScanInv'
        BY <2>v, <2>4 DEF Walking, ScanInv
    <2>i. ASSUME NEW i \in toVisit PROVE i \in ItemType /\ i.path \in Paths
        BY VolumeFacts DEF ScanInv, DiskInv, ItemType
    <2>5. ASSUME NEW i \in toVisit, VisitUnlistable(i) PROVE walk # "over" /\ walk' # "over" /\ ScanInv'
        <3>1. Parent(i.path) \in Seq(Names) BY <2>i, FrontOf
        <3>2. found' = [found EXCEPT !.skipped = @ \cup {Parent(i.path)}] BY <2>5 DEF VisitUnlistable
        <3>3. found' \in FoundType BY <2>f, <3>1, <3>2 DEF FoundType
        <3> QED BY <2>4, <2>5, <2>f, <3>3 DEF VisitUnlistable, OmitFolder
    <2>6. ASSUME NEW i \in toVisit, VisitUnwanted(i) PROVE walk # "over" /\ walk' # "over" /\ ScanInv'
        BY <2>4, <2>6, <2>f DEF VisitUnwanted, OmitFolder
    <2>7. ASSUME NEW i \in toVisit, VisitEntry(i) PROVE walk # "over" /\ walk' # "over" /\ ScanInv'
        <3>1. Parent(i.path) \in Seq(Names) BY <2>i, FrontOf
        <3> DEFINE e == Entry(i.path, KindOf(i), IF i.is = "file" THEN i.size ELSE 0, i.modified)
                   more == IF i.is = "locked" /\ only = {} THEN {Parent(i.path)} ELSE {}
        <3>2. e \in EntryType BY <2>i DEF ItemType, EntryType, Entry, KindOf
        <3>3. more \subseteq Seq(Names) BY <3>1
        <3>4. found' = [found EXCEPT !.entries = @ \cup {e}, !.skipped = @ \cup more]
            BY <2>7 DEF VisitEntry
        <3> HIDE DEF e, more
        <3>5. found' \in FoundType BY <2>f, <3>2, <3>3, <3>4 DEF FoundType
        <3>6. Deeper(i) \subseteq volume BY <2>f DEF Deeper
        <3> QED BY <2>4, <2>7, <3>5, <3>6 DEF VisitEntry
    <2>8. ASSUME NEW i \in toVisit, VisitTransferFile(i) PROVE walk # "over" /\ walk' # "over" /\ ScanInv'
        <3> DEFINE p == [path |-> FinalPath(i), size |-> i.record.size,
                         modified |-> i.record.modified, bytes |-> i.record.bytes]
        <3>1. CASE IsSidecar(i) /\ Vouched(i, FinalPath(i))
            <4>1. i.record.path = FinalPath(i) BY <3>1 DEF Vouched
            <4>2. /\ i.record.path \in Seq(Names) /\ i.record.size \in Nat
                  /\ i.record.modified \in Nat /\ i.record.bytes \in Nat
                BY <2>i DEF ItemType
            <4>3. p \in PartialType BY <4>1, <4>2 DEF PartialType
            <4>4. found' = [found EXCEPT !.partials = @ \cup {p}] BY <2>8, <3>1 DEF VisitTransferFile
            <4> HIDE DEF p
            <4>5. found' \in FoundType BY <2>f, <4>3, <4>4 DEF FoundType
            <4> QED BY <2>4, <2>8, <2>f, <4>5 DEF VisitTransferFile, OmitFolder
        <3>2. CASE ~(IsSidecar(i) /\ Vouched(i, FinalPath(i)))
            <4>1. found' = found BY <2>8, <3>2 DEF VisitTransferFile
            <4> QED BY <2>4, <2>8, <2>f, <4>1 DEF VisitTransferFile, OmitFolder
        <3> QED BY <3>1, <3>2
    <2>9. ASSUME NEW i \in toVisit, VisitUnreadable(i) PROVE walk # "over" /\ walk' # "over" /\ ScanInv'
        BY <2>v, <2>f, <2>9 DEF VisitUnreadable, FailWalk, ScanInv
    <2> QED BY <2>1, <2>2, <2>3, <2>5, <2>6, <2>7, <2>8, <2>9 DEF Scan, LocalScanNext
<1>4. PhaseInv'
    BY <1>3 DEF Scan, plannerVars, given, decider, runVars, PhaseInv, Blank
<1> QED BY <1>1, <1>2, <1>3, <1>4

LEMMA CancelTyped ==
    ASSUME TypeInv, Cancel PROVE TypeInv'
<1> QED BY DEF Cancel, disk, scanVars, plannerVars, given, decider, runVars, TypeInv,
               DiskInv, ScanInv, GivenInv, DeciderInv, PhaseInv, Blank

LEMMA BeginTyped ==
    ASSUME TypeInv, Begin PROVE TypeInv'
<1> USE DEF TypeInv
<1>1. DiskInv' BY DEF Begin, disk, DiskInv
<1>2. NothingFound \in FoundType BY DEF NothingFound, FoundType, Foldings
<1>3. ScanInv' BY <1>2 DEF Begin, HandOver, disk, ScanInv
<1>4. GivenInv'
    <2>1. found.entries \subseteq EntryType /\ found.partials \subseteq PartialType
              /\ found.folding \in Foldings
        BY DEF ScanInv, FoundType
    <2> QED BY <2>1 DEF Begin, BeginPlan, GivenInv
<1>5. DeciderInv' BY DEF Begin, BeginPlan, decider, DeciderInv
<1>6. PhaseInv'
    BY DEF Begin, BeginPlan, HandOver, decider, runVars, PhaseInv, Blank
<1> QED BY <1>1, <1>3, <1>4, <1>5, <1>6

LEMMA EntryIs ==
    ASSUME TypeInv, at <= Len(source)
    PROVE  /\ at \in 1..Len(source) /\ entry = source[at] /\ entry \in EntryType
           /\ entry.path \in Paths /\ entry.size \in Nat /\ entry.modified \in Nat
           /\ entry.kind \in {"file", "dir"}
<1>1. at \in 1..Len(source) BY DEF TypeInv, DeciderInv, GivenInv, IsListing
<1>2. entry \in EntryType BY <1>1 DEF TypeInv, GivenInv, IsListing, entry
<1> QED BY <1>1, <1>2 DEF entry, EntryType

LEMMA ActionTyped ==
    ASSUME NEW e \in EntryType, NEW do, NEW reason \in Reasons, NEW from \in Nat
    PROVE  Action(do, e, from, reason) \in ActionType({do})
<1> QED BY DEF EntryType, ActionType, Action

LEMMA SkipTyped ==
    ASSUME NEW e \in EntryType, NEW reason \in Reasons
    PROVE  Skip(e, reason) \in ActionType({"copy", "skip"})
<1>1. Skip(e, reason) \in ActionType({"skip"}) BY ActionTyped DEF Skip
<1> QED BY <1>1 DEF ActionType

LEMMA OffsetIs ==
    ASSUME partials \subseteq PartialType, NEW e
    PROVE  /\ ResumeOffset(e) \in Nat
           /\ ResumeOffset(e) # 0 =>
                \E p \in partials :
                    /\ p.path = e.path /\ p.size = e.size /\ p.modified = e.modified
                    /\ p.bytes <= e.size /\ ResumeOffset(e) = p.bytes
<1> DEFINE matching == {p \in partials : /\ p.path = e.path
                                        /\ p.size = e.size /\ p.modified = e.modified
                                        /\ p.bytes <= e.size}
           q == CHOOSE p \in matching : TRUE
<1>1. ResumeOffset(e) = IF matching = {} THEN 0 ELSE q.bytes BY DEF ResumeOffset
<1>2. matching # {} => q \in matching BY Zenon
<1> HIDE DEF q
<1>3. matching # {} => q.bytes \in Nat BY <1>2 DEF PartialType
<1> QED BY <1>1, <1>2, <1>3

LEMMA CopyTyped ==
    ASSUME partials \subseteq PartialType, NEW e \in EntryType, NEW reason \in Reasons
    PROVE  Copy(e, reason) \in ActionType({"copy", "skip"})
<1>1. Copy(e, reason) \in ActionType({"copy"}) BY OffsetIs, ActionTyped DEF Copy
<1> QED BY <1>1 DEF ActionType

LEMMA DecideFileTyped ==
    ASSUME partials \subseteq PartialType, NEW e \in EntryType
    PROVE  DecideFile(e) \in ActionType({"copy", "skip"})
<1>1. {"new", "kind", "identical", "conflict", "differs"} \subseteq Reasons BY DEF Reasons
<1> QED BY <1>1, SkipTyped, CopyTyped DEF DecideFile

LEMMA Appended ==
    ASSUME NEW S, NEW s \in Seq(S), NEW x \in S
    PROVE  /\ Append(s, x) \in Seq(S) /\ Len(Append(s, x)) = Len(s) + 1
           /\ \A i \in 1..Len(s) : Append(s, x)[i] = s[i]
           /\ Append(s, x)[Len(s) + 1] = x
           /\ 1..Len(Append(s, x)) = 1..Len(s) \cup {Len(s) + 1}
<1> QED OBVIOUS

LEMMA RefuseTyped ==
    ASSUME TypeInv, at <= Len(source), NEW reason \in Reasons, Refuse(entry, reason)
    PROVE  /\ files' \in Seq(ActionType({"copy", "skip"})) /\ Len(files') = Len(files) + 1
           /\ blocked' \in Seq(BlockedType) /\ Len(blocked') <= 1
<1>1. entry \in EntryType /\ entry.path \in Paths BY EntryIs
<1>2. files \in Seq(ActionType({"copy", "skip"})) BY DEF TypeInv, DeciderInv
<1>3. Skip(entry, reason) \in ActionType({"copy", "skip"}) BY <1>1, SkipTyped
<1>4. files' = Append(files, Skip(entry, reason)) BY DEF Refuse
<1>5. /\ files' \in Seq(ActionType({"copy", "skip"})) /\ Len(files') = Len(files) + 1
    BY <1>2, <1>3, <1>4, Appended
<1> DEFINE b == [path |-> entry.path, reason |-> reason]
<1>6. b \in BlockedType BY <1>1 DEF BlockedType
<1>7. blocked' \in {<< >>, <<b>>} BY DEF Refuse
<1> HIDE DEF b
<1>8. <<b>> \in Seq(BlockedType) /\ Len(<<b>>) = 1 BY <1>6
<1>9. << >> \in Seq(BlockedType) /\ Len(<< >>) = 0 BY EmptySeq
<1>10. blocked' \in Seq(BlockedType) BY <1>7, <1>8, <1>9
<1>11. CASE blocked' = << >>
    <2>1. Len(blocked') <= 1 BY <1>9, <1>11
    <2> QED BY <1>5, <1>10, <2>1
<1>12. CASE blocked' = <<b>>
    <2>1. Len(blocked') <= 1 BY <1>8, <1>12
    <2> QED BY <1>5, <1>10, <2>1
<1> QED BY <1>7, <1>11, <1>12

LEMMA PlanTyped ==
    ASSUME TypeInv, Plan PROVE TypeInv'
<1> USE DEF TypeInv
<1>d. DiskInv' BY DEF Plan, disk, DiskInv
<1>s. ScanInv' BY DEF Plan, disk, scanVars, ScanInv
<1>0. /\ Len(source) \in Nat /\ Len(mkdirs) \in Nat /\ Len(files) \in Nat /\ at \in Nat
      /\ mkdirs \in Seq(ActionType({"mkdir"})) /\ files \in Seq(ActionType({"copy", "skip"}))
      /\ conflicts \in Seq(Paths) /\ \A S : << >> \in Seq(S)
    BY EmptySeq DEF GivenInv, IsListing, DeciderInv
<1> DEFINE Goal == GivenInv' /\ DeciderInv' /\ PhaseInv'
<1> SUFFICES Goal BY <1>d, <1>s
<1>1. CASE CollectConflict
    <2>1. at <= Len(source) /\ phase = "collect" BY <1>1 DEF CollectConflict, More
    <2>2. entry.path \in Paths BY <2>1, EntryIs
    <2>3. conflicts' \in Seq(Paths) BY <1>0, <1>1, <2>2 DEF CollectConflict
    <2>4. GivenInv' BY <1>1 DEF CollectConflict, given, GivenInv
    <2>5. DeciderInv' BY <1>1, <1>0, <2>1, <2>3 DEF CollectConflict, Next1, given, DeciderInv
    <2>6. PhaseInv' BY <1>1, <2>1 DEF CollectConflict, Plan, given, scanVars, runVars, PhaseInv
    <2> QED BY <2>4, <2>5, <2>6
<1>2. CASE EndCollect
    <2>1. phase = "collect" /\ phase' \in {"decide", "conflicts"} /\ mkdirs = << >> /\ files = << >>
        BY <1>2 DEF EndCollect, PhaseInv
    <2>4. GivenInv' BY <1>2 DEF EndCollect, given, GivenInv
    <2>5. DeciderInv' BY <1>2, <1>0, <2>1 DEF EndCollect, given, DeciderInv
    <2>6. PhaseInv' BY <1>2, <2>1 DEF EndCollect, Plan, given, scanVars, runVars, PhaseInv
    <2> QED BY <2>4, <2>5, <2>6
<1>3. ASSUME More("decide"), Next1, phase' = phase, given' = given, conflicts' = conflicts,
             mkdirs' \in Seq(ActionType({"mkdir"})), files' \in Seq(ActionType({"copy", "skip"})),
             Len(mkdirs') + Len(files') <= Len(mkdirs) + Len(files) + 1,
             blocked' \in Seq(BlockedType), Len(blocked') <= 1
      PROVE  Goal
    <2>1. at <= Len(source) /\ phase = "decide" BY <1>3 DEF More
    <2>4. GivenInv' BY <1>3 DEF given, GivenInv
    <2>5. DeciderInv'
        <3>1. at' = at + 1 /\ source' = source BY <1>3 DEF Next1, given
        <3>2. Len(mkdirs') \in Nat /\ Len(files') \in Nat BY <1>3
        <3>3. Len(mkdirs) + Len(files) <= at - 1 BY DEF DeciderInv
        <3>4. Len(mkdirs') + Len(files') <= at' - 1 BY <1>0, <1>3, <3>1, <3>2, <3>3
        <3>5. at' \in 1..(Len(source') + 1) BY <1>0, <2>1, <3>1
        <3> QED BY <1>0, <1>3, <3>4, <3>5 DEF DeciderInv
    <2>6. PhaseInv' BY <1>3, <2>1 DEF Plan, given, scanVars, runVars, PhaseInv
    <2> QED BY <2>4, <2>5, <2>6
<1>b. blocked \in Seq(BlockedType) /\ Len(blocked) <= 1 BY DEF DeciderInv
<1>u. ASSUME Unblocked PROVE blocked' \in Seq(BlockedType) /\ Len(blocked') <= 1
    BY <1>0, <1>b, <1>u DEF Unblocked
<1>a. ASSUME NEW x \in ActionType({"copy", "skip"})
      PROVE  Append(files, x) \in Seq(ActionType({"copy", "skip"})) /\ Len(Append(files, x)) = Len(files) + 1
    BY <1>0, Appended
<1>4. CASE DecideBlocked
    <2>1. at <= Len(source) /\ blocked # << >> BY <1>4 DEF DecideBlocked, More, IsBlocked
    <2>2. blocked[1].reason \in Reasons
        <3>1. Len(blocked) = 1 BY <1>b, <2>1
        <3>2. blocked[1] \in BlockedType BY <1>b, <3>1
        <3> QED BY <3>2 DEF BlockedType
    <2>3. Skip(entry, blocked[1].reason) \in ActionType({"copy", "skip"}) BY <2>1, <2>2, EntryIs, SkipTyped
    <2>4. mkdirs' = mkdirs /\ files' = Append(files, Skip(entry, blocked[1].reason))
              /\ More("decide") /\ Next1 /\ phase' = phase /\ given' = given
              /\ conflicts' = conflicts /\ blocked' = blocked
        BY <1>4 DEF DecideBlocked
    <2>5. files' \in Seq(ActionType({"copy", "skip"})) /\ Len(files') = Len(files) + 1
        BY <1>a, <2>3, <2>4
    <2> QED BY <1>0, <1>3, <1>b, <2>4, <2>5
<1>5. CASE DecideCollision
    <2>1. at <= Len(source) /\ "collision" \in Reasons /\ Refuse(entry, "collision")
        BY <1>5 DEF DecideCollision, More, Reasons
    <2>2. /\ files' \in Seq(ActionType({"copy", "skip"})) /\ Len(files') = Len(files) + 1
          /\ blocked' \in Seq(BlockedType) /\ Len(blocked') <= 1
        BY <2>1, RefuseTyped
    <2>3. mkdirs' = mkdirs /\ More("decide") /\ Next1 /\ phase' = phase /\ given' = given
              /\ conflicts' = conflicts
        BY <1>5 DEF DecideCollision
    <2> QED BY <1>0, <1>3, <2>2, <2>3
<1>f. ASSUME NEW kind, Free(kind)
      PROVE  /\ More("decide") /\ Next1 /\ phase' = phase /\ given' = given
             /\ conflicts' = conflicts /\ at <= Len(source)
    BY <1>f DEF Free, More
<1>6. CASE DecideMkdir
    <2>1. Free("dir") /\ Unblocked /\ files' = files
              /\ mkdirs' = Append(mkdirs, Action("mkdir", entry, 0, "none"))
        BY <1>6 DEF DecideMkdir
    <2>2. at <= Len(source) BY <1>f, <2>1
    <2>3. Action("mkdir", entry, 0, "none") \in ActionType({"mkdir"})
        BY <2>2, EntryIs, ActionTyped DEF Reasons
    <2>4. mkdirs' \in Seq(ActionType({"mkdir"})) /\ Len(mkdirs') = Len(mkdirs) + 1
        BY <1>0, <2>1, <2>3, Appended
    <2> QED BY <1>0, <1>3, <1>f, <1>u, <2>1, <2>4
<1>7. CASE DecideExists
    <2>1. Free("dir") /\ Unblocked /\ files' = files /\ mkdirs' = mkdirs
        BY <1>7 DEF DecideExists
    <2>2. Len(mkdirs) + Len(files) <= Len(mkdirs) + Len(files) + 1 BY <1>0
    <2> QED BY <1>0, <1>3, <1>f, <1>u, <2>1, <2>2
<1>8. CASE DecideInTheWay
    <2>1. Free("dir") /\ Refuse(entry, "kind") /\ mkdirs' = mkdirs /\ "kind" \in Reasons
        BY <1>8 DEF DecideInTheWay, Reasons
    <2>2. /\ files' \in Seq(ActionType({"copy", "skip"})) /\ Len(files') = Len(files) + 1
          /\ blocked' \in Seq(BlockedType) /\ Len(blocked') <= 1
        BY <1>f, <2>1, RefuseTyped
    <2> QED BY <1>0, <1>3, <1>f, <2>1, <2>2
<1>9. CASE DecideOneFile
    <2>1. Free("file") /\ Unblocked /\ mkdirs' = mkdirs
              /\ files' = Append(files, DecideFile(entry))
        BY <1>9 DEF DecideOneFile
    <2>2. at <= Len(source) BY <1>f, <2>1
    <2>3. DecideFile(entry) \in ActionType({"copy", "skip"})
        BY <2>2, EntryIs, DecideFileTyped DEF GivenInv
    <2>4. files' \in Seq(ActionType({"copy", "skip"})) /\ Len(files') = Len(files) + 1
        BY <1>a, <2>1, <2>3
    <2> QED BY <1>0, <1>3, <1>f, <1>u, <2>1, <2>4
<1>10. CASE EndDecide
    BY <1>10 DEF EndDecide, Plan, given, decider, scanVars, runVars, GivenInv, DeciderInv, PhaseInv
<1> QED
    BY <1>1, <1>2, <1>4, <1>5, <1>6, <1>7, <1>8, <1>9, <1>10 DEF Plan, PlannerNext

LEMMA ActionsAre ==
    ASSUME DeciderInv
    PROVE  /\ Actions \in Seq(ActionType({"mkdir", "copy", "skip"}))
           /\ Len(Actions) = Len(mkdirs) + Len(files)
           /\ DOMAIN Actions = 1..(Len(mkdirs) + Len(files))
           /\ \A i \in 1..Len(mkdirs) : Actions[i] = mkdirs[i] /\ mkdirs[i] \in ActionType({"mkdir"})
           /\ \A i \in 1..Len(files) :
                Actions[Len(mkdirs) + i] = files[i] /\ files[i] \in ActionType({"copy", "skip"})
<1> DEFINE T == ActionType({"mkdir", "copy", "skip"})
<1>1. mkdirs \in Seq(ActionType({"mkdir"})) /\ files \in Seq(ActionType({"copy", "skip"}))
    BY DEF DeciderInv
<1>2. ActionType({"mkdir"}) \subseteq T /\ ActionType({"copy", "skip"}) \subseteq T
    BY DEF ActionType
<1>3. mkdirs \in Seq(T) /\ files \in Seq(T)
    <2> HIDE DEF T
    <2> QED BY <1>1, <1>2
<1> HIDE DEF T
<1>4. /\ Actions \in Seq(T) /\ Len(Actions) = Len(mkdirs) + Len(files)
      /\ \A i \in 1..(Len(mkdirs) + Len(files)) :
            Actions[i] = IF i <= Len(mkdirs) THEN mkdirs[i] ELSE files[i - Len(mkdirs)]
    BY <1>3, ConcatProperties DEF Actions
<1>5. Len(mkdirs) \in Nat /\ Len(files) \in Nat BY <1>3
<1>6. \A i \in 1..Len(mkdirs) : Actions[i] = mkdirs[i] /\ mkdirs[i] \in ActionType({"mkdir"})
    BY <1>1, <1>4, <1>5
<1>7. ASSUME NEW i \in 1..Len(files)
      PROVE  Actions[Len(mkdirs) + i] = files[i] /\ files[i] \in ActionType({"copy", "skip"})
    <2>1. Len(mkdirs) + i \in 1..(Len(mkdirs) + Len(files)) /\ ~(Len(mkdirs) + i <= Len(mkdirs))
              /\ (Len(mkdirs) + i) - Len(mkdirs) = i
        BY <1>5
    <2> QED BY <1>1, <1>4, <2>1
<1>8. DOMAIN Actions = 1..(Len(mkdirs) + Len(files)) BY <1>4
<1> QED BY <1>4, <1>6, <1>7, <1>8 DEF T

LEMMA EffectKeepsVolume ==
    ASSUME DiskInv, NEW a \in ActionType({"mkdir", "copy", "skip"}), Effect(a).ok
    PROVE  IsVolume(Effect(a).items, folds) /\ (a.do = "skip" => Effect(a).items = volume)
<1>1. IsVolume(volume, folds) /\ folds \in Foldings BY DEF DiskInv
<1>2. a.do \in {"mkdir", "copy", "skip"} /\ a.path \in Paths /\ a.size \in Nat /\ a.modified \in Nat
    BY DEF ActionType
<1>3. CASE a.do = "mkdir"
    <2>1. Effect(a) = MakeFolder(volume, a.path) BY <1>3 DEF Effect
    <2>2. a.path \in Seq(Names) BY <1>2 DEF Paths
    <2> QED BY <1>1, <1>3, <2>1, <2>2, MakeFolderKeepsVolume
<1>4. CASE a.do = "copy"
    <2>1. Effect(a) = PutFile(volume, a) BY <1>4 DEF Effect
    <2> QED BY <1>1, <1>2, <1>4, <2>1, PutFileKeepsVolume
<1>5. CASE a.do = "skip"
    <2>1. Effect(a) = [ok |-> TRUE, items |-> volume] BY <1>5 DEF Effect
    <2> QED BY <1>1, <2>1
<1> QED BY <1>2, <1>3, <1>4, <1>5

LEMMA RunActionTyped ==
    ASSUME TypeInv, RunAction PROVE TypeInv'
<1> USE DEF TypeInv
<1> DEFINE a == Actions[ran + 1]
<1>1. /\ phase \in {"ready", "run"} /\ round = 0 /\ ran < Len(Actions)
      /\ rootIs' = IF a.do = "skip" \/ rootIs = "locked" THEN rootIs ELSE "dir"
      /\ phase' = "run" /\ ran' = ran + 1
      /\ folds' = folds /\ scanVars' = scanVars /\ given' = given /\ decider' = decider
      /\ round' = round
    BY DEF RunAction
<1>v. \/ Effect(a).ok /\ volume' = Effect(a).items
      \/ a.do # "skip" /\ volume' = volume
    BY Zenon DEF RunAction
<1>2. /\ Actions \in Seq(ActionType({"mkdir", "copy", "skip"}))
      /\ Len(Actions) = Len(mkdirs) + Len(files)
    BY ActionsAre
<1>3. ran \in Nat /\ Len(source) \in Nat BY DEF PhaseInv, GivenInv, IsListing
<1>4. a \in ActionType({"mkdir", "copy", "skip"}) BY <1>1, <1>2, <1>3
<1> HIDE DEF a
<1>5. IsVolume(volume', folds') /\ (a.do = "skip" => volume' = volume)
    BY <1>1, <1>v, <1>4, EffectKeepsVolume DEF DiskInv
<1>6. DiskInv' BY <1>1, <1>5 DEF DiskInv
<1>7. ScanInv' BY <1>1 DEF scanVars, ScanInv, PhaseInv
<1>8. GivenInv' /\ DeciderInv' BY <1>1 DEF given, decider, GivenInv, DeciderInv
<1>9. ran + 1 \in 0..Len(source)
    <2>1. Len(mkdirs) \in Nat /\ Len(files) \in Nat /\ Len(mkdirs) + Len(files) <= at - 1
              /\ at \in 1..(Len(source) + 1)
        BY DEF DeciderInv
    <2> QED BY <1>1, <1>2, <1>3, <2>1
<1>10. PhaseInv' BY <1>1, <1>9 DEF given, decider, scanVars, PhaseInv
<1> QED BY <1>6, <1>7, <1>8, <1>10

LEMMA RunAgainTyped ==
    ASSUME TypeInv, RunAgain PROVE TypeInv'
<1> USE DEF TypeInv
<1>1. DiskInv' BY DEF RunAgain, disk, DiskInv
<1>2. NothingFound \in FoundType BY DEF NothingFound, FoundType, Foldings
<1>3. ScanInv' BY <1>2 DEF RunAgain, ScanAgain, ScanInv
<1>4. GivenInv' BY DEF RunAgain, given, GivenInv
<1>5. Blank' BY DEF RunAgain, Blank
<1>6. \A S : << >> \in Seq(S) BY EmptySeq
<1>7. Len(source') \in Nat BY <1>4 DEF GivenInv, IsListing
<1>8. DeciderInv' BY <1>5, <1>6, <1>7 DEF Blank, DeciderInv
<1>9. PhaseInv' BY <1>5 DEF RunAgain, ScanAgain, given, PhaseInv, Blank
<1> QED BY <1>1, <1>3, <1>4, <1>8, <1>9

LEMMA TypeStep == TypeInv /\ [Next]_vars => TypeInv'
<1> SUFFICES ASSUME TypeInv, [Next]_vars PROVE TypeInv' OBVIOUS
<1>1. CASE UNCHANGED vars
    BY <1>1 DEF vars, disk, scanVars, plannerVars, given, decider, runVars, TypeInv,
                DiskInv, ScanInv, GivenInv, DeciderInv, PhaseInv, Blank
<1>2. CASE Next
    BY <1>2, ScanTyped, CancelTyped, BeginTyped, PlanTyped, RunActionTyped, RunAgainTyped DEF Next
<1> QED BY <1>1, <1>2

\* Whatever the phone and the volume hold, scanning, planning and carrying out
\* keep to their types: at most one folder is blocked, there is at most one
\* action per source entry, and a listing has ended before a plan is made of it.
THEOREM PlanningTyped == Spec => []TypeOK
<1>1. Spec => []TypeInv BY TypeInit, TypeStep, PTL DEF Spec
<1> QED BY <1>1, TypeInvHolds, PTL
-----------------------------------------------------------------------------
(* Resuming.  What the scan found stands on files of the volume, which     *)
(* stay as they are until the plan is carried out.                         *)

\* The part file and the record that vouch for a partial.
Backed(p) ==
    /\ \E part \in AtIn(volume, Append(Parent(p.path), PartOf[Last(p.path)])) :
        part.is = "file" /\ part.size >= p.bytes
    /\ \E s \in volume :
        /\ IsSidecar(s) /\ FinalPath(s) = p.path
        /\ s.record.ours /\ s.record.bytes = p.bytes
        /\ s.record.size = p.size /\ s.record.modified = p.modified

\* An action that resumes does so on a partial of its file.
OnPartial(a) ==
    a.do = "copy" /\ a.from # 0 =>
        \E p \in partials : /\ p.path = a.path /\ p.bytes = a.from /\ p.bytes <= a.size
                            /\ p.size = a.size /\ p.modified = a.modified

PartialsInv ==
    /\ walk = "over" => found = NothingFound
    /\ \A p \in found.partials : Backed(p)
    /\ phase \notin {"idle", "run"} => \A p \in partials : Backed(p)
    /\ phase # "run" => \A i \in 1..Len(files) : OnPartial(files[i])

LEMMA BackedStays ==
    ASSUME disk' = disk, NEW p
    PROVE  Backed(p)' = Backed(p)
<1> QED BY DEF disk, Backed, AtIn

LEMMA PartialsInit == Init => PartialsInv
<1>1. Len(<< >>) = 0 OBVIOUS
<1> QED BY <1>1 DEF Init, Blank, PartialsInv, NothingFound

LEMMA ScanBacksPartials ==
    ASSUME TypeInv, PartialsInv, Scan
    PROVE  /\ walk' # "over"
           /\ \A p \in found'.partials : Backed(p)'
<1>d. disk' = disk BY DEF Scan
<1>0. \A p \in found.partials : Backed(p)' BY <1>d, BackedStays DEF PartialsInv
<1>f. found \in FoundType BY DEF TypeInv, ScanInv
<1>w. walk' # "over"
    BY DEF Scan, LocalScanNext, StatRoot, WalkCancelled, FinishWalk, FailWalk, VisitUnlistable,
           VisitUnwanted, VisitEntry, VisitTransferFile, VisitUnreadable, Walking
<1>1. CASE found'.partials = found.partials BY <1>0, <1>1, <1>w
<1>2. ASSUME NEW i \in toVisit, VisitTransferFile(i), IsSidecar(i), Vouched(i, FinalPath(i))
      PROVE  \A p \in found'.partials : Backed(p)'
    <2> DEFINE q == [path |-> FinalPath(i), size |-> i.record.size,
                     modified |-> i.record.modified, bytes |-> i.record.bytes]
    <2>1. found'.partials = found.partials \cup {q}
        BY <1>2, <1>f DEF VisitTransferFile, FoundType
    <2>2. i \in volume BY DEF TypeInv, ScanInv
    <2>3. Backed(q) BY <1>2, <2>2 DEF Vouched, Backed
    <2> HIDE DEF q
    <2>4. Backed(q)' BY <2>3, <1>d, BackedStays
    <2> QED BY <1>0, <2>1, <2>4
<1>3. found'.partials = found.partials
        \/ \E i \in toVisit : VisitTransferFile(i) /\ IsSidecar(i) /\ Vouched(i, FinalPath(i))
    <2>1. CASE UNCHANGED found BY <2>1
    <2>2. CASE FinishWalk BY <2>2, <1>f DEF FinishWalk, FoundType
    <2>3. ASSUME NEW i \in toVisit, VisitUnlistable(i) PROVE found'.partials = found.partials
        BY <2>3, <1>f DEF VisitUnlistable, FoundType
    <2>4. ASSUME NEW i \in toVisit, VisitEntry(i) PROVE found'.partials = found.partials
        BY <2>4, <1>f DEF VisitEntry, FoundType
    <2>5. ASSUME NEW i \in toVisit, VisitTransferFile(i)
          PROVE  found'.partials = found.partials \/ (IsSidecar(i) /\ Vouched(i, FinalPath(i)))
        BY <2>5 DEF VisitTransferFile
    <2>6. StatRoot \/ WalkCancelled => found'.partials = found.partials
        BY <1>f DEF StatRoot, WalkCancelled, FailWalk, FoundType
    <2>7. ASSUME NEW i \in toVisit, VisitUnwanted(i) \/ VisitUnreadable(i) PROVE UNCHANGED found
        BY <2>7 DEF VisitUnwanted, VisitUnreadable, FailWalk
    <2> QED BY <2>1, <2>2, <2>3, <2>4, <2>5, <2>6, <2>7 DEF Scan, LocalScanNext
<1> QED BY <1>1, <1>2, <1>3, <1>w

LEMMA CopyOnPartial ==
    ASSUME TypeInv, at <= Len(source)
    PROVE  /\ OnPartial(DecideFile(entry))
           /\ \A reason : OnPartial(Skip(entry, reason))
<1>1. \A reason : OnPartial(Skip(entry, reason)) BY DEF OnPartial, Skip, Action
<1>2. ASSUME NEW reason PROVE OnPartial(Copy(entry, reason))
    <2>1. partials \subseteq PartialType BY DEF TypeInv, GivenInv
    <2>2. ResumeOffset(entry) # 0 =>
            \E p \in partials :
                /\ p.path = entry.path /\ p.size = entry.size /\ p.modified = entry.modified
                /\ p.bytes <= entry.size /\ ResumeOffset(entry) = p.bytes
        BY <2>1, OffsetIs
    <2> QED BY <2>2 DEF OnPartial, Copy, Action
<1>3. DecideFile(entry) \in {Copy(entry, "new"), Copy(entry, "differs"), Skip(entry, "kind"),
                             Skip(entry, "identical"), Skip(entry, "conflict")}
    BY DEF DecideFile
<1> QED BY <1>1, <1>2, <1>3

LEMMA PlanKeepsPartials ==
    ASSUME TypeInv, PartialsInv, Plan
    PROVE  PartialsInv'
<1>0. /\ disk' = disk /\ given' = given /\ walk' = walk /\ found' = found
      /\ phase \notin {"idle", "run"}
    BY DEF Plan, scanVars, PlannerNext, CollectConflict, EndCollect, DecideBlocked, DecideCollision,
           Free, DecideMkdir, DecideExists, DecideInTheWay, DecideOneFile, EndDecide, More
<1>1. /\ walk' = "over" => found' = NothingFound
      /\ \A p \in found'.partials : Backed(p)'
      /\ phase' \notin {"idle", "run"} => \A p \in partials' : Backed(p)'
    BY <1>0, BackedStays DEF PartialsInv, given
<1>2. ASSUME NEW a PROVE OnPartial(a)' = OnPartial(a) BY <1>0 DEF OnPartial, given
<1>f. files \in Seq(ActionType({"copy", "skip"})) BY DEF TypeInv, DeciderInv
<1>3. CASE files' = files BY <1>0, <1>1, <1>2, <1>3 DEF PartialsInv
<1>4. ASSUME at <= Len(source), NEW a \in ActionType({"copy", "skip"}), files' = Append(files, a), OnPartial(a)
      PROVE  PartialsInv'
    <2>1. \A i \in 1..Len(files') : i \in 1..Len(files) \/ i = Len(files) + 1
        BY <1>4, <1>f, Appended
    <2>2. \A i \in 1..Len(files) : files'[i] = files[i] BY <1>4, <1>f, Appended
    <2>3. files'[Len(files) + 1] = a BY <1>4, <1>f, Appended
    <2>4. \A i \in 1..Len(files) : OnPartial(files[i]) BY <1>0 DEF PartialsInv
    <2>5. ASSUME NEW i \in 1..Len(files') PROVE OnPartial(files[i])'
        <3>1. CASE i \in 1..Len(files)
            <4>1. files'[i] = files[i] /\ OnPartial(files[i]) BY <2>2, <2>4, <3>1
            <4> QED BY <1>0, <4>1 DEF OnPartial, given
        <3>2. CASE i = Len(files) + 1
            <4>1. files'[i] = a BY <2>3, <3>2
            <4> QED BY <1>0, <1>4, <4>1 DEF OnPartial, given
        <3> QED BY <2>1, <3>1, <3>2
    <2> QED BY <1>1, <2>5 DEF PartialsInv
<1>r. {"none", "collision", "kind"} \subseteq Reasons BY DEF Reasons
<1>5. CASE DecideBlocked
    <2>1. at <= Len(source) /\ blocked # << >> BY <1>5 DEF DecideBlocked, More, IsBlocked
    <2>2. blocked \in Seq(BlockedType) BY DEF TypeInv, DeciderInv
    <2>3. blocked[1].reason \in Reasons
        <3>1. blocked[1] \in BlockedType BY <2>1, <2>2, EmptySeq
        <3> QED BY <3>1 DEF BlockedType
    <2>4. Skip(entry, blocked[1].reason) \in ActionType({"copy", "skip"}) BY <2>1, <2>3, EntryIs, SkipTyped
    <2> QED BY <1>4, <1>5, <2>1, <2>4, CopyOnPartial DEF DecideBlocked
<1>6. CASE DecideCollision
    <2>1. at <= Len(source) BY <1>6 DEF DecideCollision, More
    <2>2. Skip(entry, "collision") \in ActionType({"copy", "skip"}) BY <2>1, <1>r, EntryIs, SkipTyped
    <2> QED BY <1>4, <1>6, <2>1, <2>2, CopyOnPartial DEF DecideCollision, Refuse
<1>7. CASE DecideInTheWay
    <2>1. at <= Len(source) BY <1>7 DEF DecideInTheWay, Free, More
    <2>2. Skip(entry, "kind") \in ActionType({"copy", "skip"}) BY <2>1, <1>r, EntryIs, SkipTyped
    <2> QED BY <1>4, <1>7, <2>1, <2>2, CopyOnPartial DEF DecideInTheWay, Refuse
<1>8. CASE DecideOneFile
    <2>1. at <= Len(source) BY <1>8 DEF DecideOneFile, Free, More
    <2>2. DecideFile(entry) \in ActionType({"copy", "skip"})
        BY <2>1, EntryIs, DecideFileTyped DEF TypeInv, GivenInv
    <2> QED BY <1>4, <1>8, <2>1, <2>2, CopyOnPartial DEF DecideOneFile
<1>9. CollectConflict \/ EndCollect \/ DecideMkdir \/ DecideExists \/ EndDecide => files' = files
    BY DEF CollectConflict, EndCollect, DecideMkdir, DecideExists, EndDecide, decider
<1> QED BY <1>3, <1>5, <1>6, <1>7, <1>8, <1>9 DEF Plan, PlannerNext

LEMMA PartialsStep == TypeInv /\ PartialsInv /\ [Next]_vars => PartialsInv'
<1> SUFFICES ASSUME TypeInv, PartialsInv, [Next]_vars PROVE PartialsInv' OBVIOUS
<1>1. CASE UNCHANGED vars \/ Cancel
    <2>1. /\ disk' = disk /\ walk' = walk /\ found' = found /\ phase' = phase
          /\ partials' = partials /\ files' = files
        BY <1>1 DEF vars, Cancel, scanVars, plannerVars, given, decider
    <2>2. \A p : Backed(p)' = Backed(p) BY <2>1, BackedStays
    <2>3. \A a : OnPartial(a)' = OnPartial(a) BY <2>1 DEF OnPartial
    <2> QED BY <2>1, <2>2, <2>3 DEF PartialsInv
<1>2. CASE Scan
    <2>1. /\ disk' = disk /\ phase' = phase /\ partials' = partials /\ files' = files
        BY <1>2 DEF Scan, plannerVars, given, decider
    <2>2. \A p : Backed(p)' = Backed(p) BY <2>1, BackedStays
    <2>3. \A a : OnPartial(a)' = OnPartial(a) BY <2>1 DEF OnPartial
    <2> QED BY <1>2, <2>1, <2>2, <2>3, ScanBacksPartials DEF PartialsInv
<1>3. CASE Begin
    <2>1. disk' = disk /\ partials' = found.partials /\ files' = files /\ files = << >> /\ found' = NothingFound
        BY <1>3 DEF Begin, BeginPlan, HandOver, decider, TypeInv, PhaseInv
    <2>2. \A p \in partials' : Backed(p)' BY <2>1, BackedStays DEF PartialsInv
    <2>3. \A i \in 1..Len(files') : FALSE BY <2>1
    <2> QED BY <2>1, <2>2, <2>3 DEF PartialsInv, NothingFound
<1>4. CASE RunAction
    <2>1. phase # "idle" /\ phase' = "run" /\ found' = found /\ walk' = walk
        BY <1>4 DEF RunAction, scanVars
    <2>2. found = NothingFound BY <2>1 DEF TypeInv, PhaseInv, PartialsInv
    <2> QED BY <2>1, <2>2 DEF PartialsInv, NothingFound
<1>5. CASE RunAgain
    <2>1. phase' = "idle" /\ files' = << >> /\ found' = NothingFound
        BY <1>5 DEF RunAgain, ScanAgain
    <2>2. \A i \in 1..Len(files') : FALSE BY <2>1
    <2> QED BY <2>1, <2>2 DEF PartialsInv, NothingFound
<1> QED BY <1>1, <1>2, <1>3, <1>4, <1>5, PlanKeepsPartials DEF Next

\* Wherever a plan resumes a copy, on any volume, the volume has a part file of
\* those bytes and a record of ours of this very path and version of the file
\* that vouches for them, and they are no more than the file has.
THEOREM ResumesOnVouchedBytes == Spec => []ResumesWhatWasVouched
<1>1. TypeInv /\ PartialsInv => ResumesWhatWasVouched
    <2> SUFFICES ASSUME TypeInv, PartialsInv, phase = "ready",
                        NEW i \in DOMAIN Actions, Actions[i].do = "copy", Actions[i].from > 0
                 PROVE  \E p \in partials :
                            /\ Backed(p) /\ p.path = Actions[i].path /\ p.bytes = Actions[i].from
                            /\ p.bytes <= Actions[i].size
                            /\ p.size = Actions[i].size /\ p.modified = Actions[i].modified
        BY DEF ResumesWhatWasVouched, Done, Backed
    <2>1. /\ DOMAIN Actions = 1..(Len(mkdirs) + Len(files))
          /\ \A k \in 1..Len(mkdirs) : Actions[k] = mkdirs[k] /\ mkdirs[k] \in ActionType({"mkdir"})
          /\ \A k \in 1..Len(files) :
                Actions[Len(mkdirs) + k] = files[k] /\ files[k] \in ActionType({"copy", "skip"})
        BY ActionsAre DEF TypeInv
    <2>2. Len(mkdirs) \in Nat /\ Len(files) \in Nat BY DEF TypeInv, DeciderInv
    <2>3. i \notin 1..Len(mkdirs)
        BY <2>1 DEF ActionType
    <2>4. i - Len(mkdirs) \in 1..Len(files) /\ Len(mkdirs) + (i - Len(mkdirs)) = i
        BY <2>1, <2>2, <2>3
    <2>5. OnPartial(Actions[i]) BY <2>1, <2>4 DEF PartialsInv
    <2> QED BY <2>5 DEF OnPartial, PartialsInv
<1> QED BY <1>1, TypeInit, TypeStep, PartialsInit, PartialsStep, PTL DEF Spec
-----------------------------------------------------------------------------
(* Deciding.  One step decides one entry: a folder is made or found, or an *)
(* action is planned for it, a skip being one.                             *)

Exists(path) == \E x \in Get(path) : x.kind = "dir"
Open == ~IsBlocked(entry) /\ ~Collides(entry) /\ claims' = Claimed(entry) /\ blocked' = << >>

Made ==
    /\ Open /\ entry.kind = "dir" /\ Get(entry.path) = {}
    /\ mkdirs' = Append(mkdirs, Action("mkdir", entry, 0, "none")) /\ files' = files

Found ==
    /\ Open /\ entry.kind = "dir" /\ Exists(entry.path)
    /\ mkdirs' = mkdirs /\ files' = files

Copied ==
    /\ Open /\ entry.kind = "file" /\ ~Exists(entry.path)
    /\ mkdirs' = mkdirs
    /\ \E reason \in {"new", "differs"} :
        /\ files' = Append(files, Copy(entry, reason))
        /\ Get(entry.path) = {} \/ reason # "new"
        /\ (\E x \in Get(entry.path) : IsConflict(entry, x)) \/ reason = "new"

Skipped ==
    /\ mkdirs' = mkdirs
    /\ \E reason \in Reasons : files' = Append(files, Skip(entry, reason))
    /\ \/ IsBlocked(entry) /\ blocked' = blocked /\ claims' = claims
       \/ /\ ~IsBlocked(entry) /\ claims' = Claimed(entry)
          /\ entry.kind = "dir" => blocked' # << >> /\ blocked'[1].path = entry.path
          /\ entry.kind = "file" => blocked' = << >>

\* What the decision of one entry comes to.
Decision ==
    /\ phase = "decide" /\ at <= Len(source)
    /\ given' = given /\ phase' = "decide" /\ at' = at + 1 /\ conflicts' = conflicts
    /\ Made \/ Found \/ Copied \/ Skipped

LEMMA DecisionIs ==
    ASSUME TypeInv, DecideBlocked \/ DecideCollision \/ DecideMkdir \/ DecideExists
                        \/ DecideInTheWay \/ DecideOneFile
    PROVE  Decision
<1>0. phase = "decide" /\ at <= Len(source)
    BY DEF DecideBlocked, DecideCollision, DecideMkdir, DecideExists, DecideInTheWay,
           DecideOneFile, Free, More
<1>1. /\ given' = given /\ phase' = phase /\ at' = at + 1 /\ conflicts' = conflicts
    BY DEF DecideBlocked, DecideCollision, DecideMkdir, DecideExists, DecideInTheWay,
           DecideOneFile, Free, Next1
<1>2. entry \in EntryType /\ entry.kind \in {"file", "dir"} BY <1>0, EntryIs
<1>r. {"none", "collision", "kind", "identical", "conflict"} \subseteq Reasons BY DEF Reasons
<1>3. CASE DecideBlocked
    <2>1. blocked # << >> /\ blocked \in Seq(BlockedType) /\ IsBlocked(entry)
        BY <1>3 DEF TypeInv, DeciderInv, DecideBlocked, IsBlocked
    <2>2. blocked[1] \in BlockedType BY <2>1, EmptySeq
    <2>3. blocked[1].reason \in Reasons BY <2>2 DEF BlockedType
    <2> QED BY <1>0, <1>1, <1>3, <2>1, <2>3 DEF DecideBlocked, Decision, Skipped
<1>4. ASSUME NEW reason \in Reasons, Refuse(entry, reason), mkdirs' = mkdirs,
             ~IsBlocked(entry), claims' = Claimed(entry)
      PROVE  Skipped
    <2>1. entry.kind = "dir" => blocked' # << >> /\ blocked'[1].path = entry.path
        BY <1>4 DEF Refuse
    <2>2. entry.kind = "file" => blocked' = << >> BY <1>4 DEF Refuse
    <2> QED BY <1>4, <2>1, <2>2 DEF Refuse, Skipped
<1>5. CASE DecideCollision
    BY <1>0, <1>1, <1>4, <1>5, <1>r DEF DecideCollision, Decision
<1>6. CASE DecideInTheWay
    BY <1>0, <1>1, <1>4, <1>6, <1>r DEF DecideInTheWay, Free, Decision
<1>7. CASE DecideMkdir
    BY <1>0, <1>1, <1>7 DEF DecideMkdir, Free, Unblocked, Decision, Made, Open
<1>8. CASE DecideExists
    BY <1>0, <1>1, <1>8 DEF DecideExists, Free, Unblocked, Decision, Found, Open, Exists
<1>9. CASE DecideOneFile
    <2>1. /\ Open /\ entry.kind = "file" /\ mkdirs' = mkdirs
          /\ files' = Append(files, DecideFile(entry))
        BY <1>9 DEF DecideOneFile, Free, Unblocked, Open
    <2>2. CASE Get(entry.path) = {}
        <3>1. DecideFile(entry) = Copy(entry, "new") BY <2>2 DEF DecideFile
        <3>2. Copied BY <2>1, <2>2, <3>1 DEF Copied, Exists
        <3> QED BY <1>0, <1>1, <3>2 DEF Decision
    <2>3. CASE /\ Get(entry.path) # {} /\ ~Exists(entry.path)
               /\ \E x \in Get(entry.path) : IsConflict(entry, x)
               /\ policy # "skip"
        <3>1. DecideFile(entry) = Copy(entry, "differs") BY <2>3 DEF DecideFile, Exists
        <3>2. Copied BY <2>1, <2>3, <3>1 DEF Copied
        <3> QED BY <1>0, <1>1, <3>2 DEF Decision
    <2>4. ASSUME NEW reason \in Reasons, DecideFile(entry) = Skip(entry, reason)
          PROVE  Decision
        <3>1. Skipped BY <2>1, <2>4 DEF Skipped, Open
        <3> QED BY <1>0, <1>1, <3>1 DEF Decision
    <2>5. \/ DecideFile(entry) \in {Skip(entry, "kind"), Skip(entry, "identical"), Skip(entry, "conflict")}
          \/ Get(entry.path) = {}
          \/ /\ Get(entry.path) # {} /\ ~Exists(entry.path)
             /\ \E x \in Get(entry.path) : IsConflict(entry, x)
             /\ policy # "skip"
        BY DEF DecideFile, Exists
    <2> QED BY <1>r, <2>2, <2>3, <2>4, <2>5
<1> QED BY <1>3, <1>5, <1>6, <1>7, <1>8, <1>9

IsMade(path) == \E j \in 1..Len(mkdirs) : mkdirs[j].path = path
IsActed(path) == \E j \in 1..Len(files) : files[j].path = path

\* Every action is an earlier entry's.
MadeFrom ==
    \A j \in 1..Len(mkdirs) : \E k \in 1..(at - 1) :
        mkdirs[j].path = source[k].path /\ source[k].kind = "dir" /\ Get(source[k].path) = {}
ActedFrom ==
    \A j \in 1..Len(files) : \E k \in 1..(at - 1) :
        /\ files[j].path = source[k].path
        /\ files[j].do = "copy" => source[k].kind = "file" /\ ~Exists(source[k].path)

NotTwice ==
    /\ \A i, j \in 1..Len(mkdirs) : mkdirs[i].path = mkdirs[j].path => i = j
    /\ \A i, j \in 1..Len(files) : files[i].path = files[j].path => i = j
    /\ \A i \in 1..Len(mkdirs) : \A j \in 1..Len(files) : mkdirs[i].path # files[j].path

NoneForgotten ==
    \A k \in 1..(at - 1) :
        IsMade(source[k].path) \/ IsActed(source[k].path)
            \/ (source[k].kind = "dir" /\ Exists(source[k].path))

FatesInv ==
    phase \in {"decide", "ready"} =>
        /\ phase = "ready" => at = Len(source) + 1
        /\ MadeFrom /\ ActedFrom /\ NotTwice /\ NoneForgotten

LEMMA EarlierIsBefore ==
    ASSUME TypeInv, NEW k \in 1..Len(source), NEW m \in 1..Len(source), k < m
    PROVE  Before(source[k].path, source[m].path) /\ source[k].path # source[m].path
<1>1. IsListing(source) BY DEF TypeInv, GivenInv
<1>2. Before(source[k].path, source[m].path) BY <1>1 DEF IsListing
<1>3. source \in Seq(EntryType) BY <1>1 DEF IsListing
<1>4. source[k] \in EntryType BY <1>3
<1>5. source[k].path \in Seq(Names) BY <1>4 DEF EntryType, Paths
<1> QED BY <1>2, <1>5, BeforeIrreflexive

LEMMA EntryIsNew ==
    ASSUME TypeInv, MadeFrom, ActedFrom, at <= Len(source)
    PROVE  ~IsMade(entry.path) /\ ~IsActed(entry.path)
<1>0. Len(source) \in Nat BY DEF TypeInv, GivenInv, IsListing
<1>1. at \in 1..Len(source) /\ entry = source[at] /\ Len(source) \in Nat
    BY <1>0, EntryIs
<1>2. ASSUME NEW k \in 1..(at - 1) PROVE source[k].path # entry.path
    <2>1. k \in 1..Len(source) /\ k < at BY <1>1
    <2> QED BY <1>1, <2>1, EarlierIsBefore
<1> QED BY <1>2 DEF MadeFrom, ActedFrom, IsMade, IsActed

LEMMA DecisionKeepsFates ==
    ASSUME TypeInv, FatesInv, Decision
    PROVE  FatesInv'
<1>0. /\ phase = "decide" /\ at <= Len(source) /\ phase' = "decide" /\ at' = at + 1
      /\ source' = source /\ dest' = dest /\ folding' = folding
    BY DEF Decision, given
<1>1. /\ at \in 1..Len(source) /\ entry = source[at] /\ entry.path = source[at].path
      /\ 1..(at' - 1) = 1..(at - 1) \cup {at} /\ at - 1 \in Nat
    BY <1>0, EntryIs
<1>2. MadeFrom /\ ActedFrom /\ NotTwice /\ NoneForgotten BY <1>0 DEF FatesInv
<1>3. \A k : Get(source[k].path)' = Get(source[k].path) /\ Exists(source[k].path)' = Exists(source[k].path)
    BY <1>0 DEF Get, Exists
<1>m. mkdirs \in Seq(ActionType({"mkdir"})) /\ files \in Seq(ActionType({"copy", "skip"}))
    BY DEF TypeInv, DeciderInv
<1>n. ~IsMade(source[at].path) /\ ~IsActed(source[at].path) BY <1>0, <1>1, <1>2, EntryIsNew
<1>e. entry \in EntryType BY <1>0, EntryIs
<1> SUFFICES MadeFrom' /\ ActedFrom' /\ NotTwice' /\ NoneForgotten' BY <1>0 DEF FatesInv
<1>4. CASE Found
    <2>1. mkdirs' = mkdirs /\ files' = files /\ source[at].kind = "dir" /\ Exists(source[at].path)
        BY <1>1, <1>4 DEF Found
    <2>2. NotTwice' BY <1>2, <2>1 DEF NotTwice
    <2>4. MadeFrom'
        <3> DEFINE From(b, k) ==
                b.path = source[k].path /\ source[k].kind = "dir" /\ Get(source[k].path) = {}
        <3>1. \A k \in 1..(at - 1) : k \in 1..(at' - 1) BY <1>1
        <3>2. ASSUME NEW j \in 1..Len(mkdirs) PROVE \E k \in 1..(at' - 1) : From(mkdirs'[j], k)
            <4>1. PICK k \in 1..(at - 1) : From(mkdirs[j], k) BY <1>2 DEF MadeFrom
            <4> QED BY <2>1, <3>1, <4>1
        <3>3. ASSUME NEW j \in 1..Len(mkdirs') PROVE \E k \in 1..(at' - 1) : From(mkdirs'[j], k)
            BY <2>1, <3>2
        <3> QED BY <1>0, <3>3 DEF MadeFrom, Get
    <2>5. ActedFrom'
        <3>1. \A k \in 1..(at - 1) : k \in 1..(at' - 1) BY <1>1
        <3> QED BY <1>0, <1>2, <1>3, <2>1, <3>1 DEF ActedFrom
    <2>3. NoneForgotten'
        BY <1>0, <1>1, <1>2, <1>3, <2>1 DEF NoneForgotten, IsMade, IsActed
    <2> QED BY <2>2, <2>3, <2>4, <2>5
<1>5. CASE Made
    <2> DEFINE a == Action("mkdir", entry, 0, "none")
    <2>0. "none" \in Reasons BY DEF Reasons
    <2>1. a \in ActionType({"mkdir"}) /\ a.path = source[at].path BY <1>1, <1>e, <2>0, ActionTyped DEF Action
    <2>2. /\ mkdirs' = Append(mkdirs, a) /\ files' = files
          /\ source[at].kind = "dir" /\ Get(source[at].path) = {}
        BY <1>1, <1>5 DEF Made
    <2> HIDE DEF a
    <2>3. /\ 1..Len(mkdirs') = 1..Len(mkdirs) \cup {Len(mkdirs) + 1}
          /\ \A i \in 1..Len(mkdirs) : mkdirs'[i] = mkdirs[i]
          /\ mkdirs'[Len(mkdirs) + 1] = a
        BY <1>m, <2>1, <2>2, Appended
    <2>4. MadeFrom'
        <3> DEFINE From(b, k) ==
                b.path = source[k].path /\ source[k].kind = "dir" /\ Get(source[k].path) = {}
        <3>1. \A k \in 1..(at - 1) : k \in 1..(at' - 1) BY <1>1
        <3>2. ASSUME NEW j \in 1..Len(mkdirs) PROVE \E k \in 1..(at' - 1) : From(mkdirs'[j], k)
            <4>1. PICK k \in 1..(at - 1) : From(mkdirs[j], k) BY <1>2 DEF MadeFrom
            <4> QED BY <2>3, <3>1, <4>1
        <3>3. From(mkdirs'[Len(mkdirs) + 1], at) /\ at \in 1..(at' - 1) BY <1>1, <2>1, <2>2, <2>3
        <3>4. ASSUME NEW j \in 1..Len(mkdirs') PROVE \E k \in 1..(at' - 1) : From(mkdirs'[j], k)
            <4> HIDE DEF From
            <4> QED BY <2>3, <3>2, <3>3
        <3> QED BY <1>0, <3>4 DEF MadeFrom, Get
    <2>5. ActedFrom' BY <1>0, <1>1, <1>2, <1>3, <2>2 DEF ActedFrom
    <2>6. NotTwice' BY <1>2, <1>n, <2>1, <2>2, <2>3 DEF NotTwice, IsMade, IsActed
    <2>7. NoneForgotten'
        <3> DEFINE MadeNow(p) == \E j \in 1..Len(mkdirs') : mkdirs'[j].path = p
                   ActedNow(p) == \E j \in 1..Len(files') : files'[j].path = p
        <3>1. ASSUME NEW p, IsMade(p) PROVE MadeNow(p)
            <4>1. PICK j \in 1..Len(mkdirs) : mkdirs[j].path = p BY <3>1 DEF IsMade
            <4> QED BY <2>3, <4>1
        <3>2. MadeNow(source[at].path) BY <2>1, <2>3
        <3>3. ASSUME NEW p, IsActed(p) PROVE ActedNow(p) BY <2>2, <3>3 DEF IsActed
        <3>4. ASSUME NEW k \in 1..(at' - 1)
              PROVE  \/ MadeNow(source[k].path) \/ ActedNow(source[k].path)
                     \/ source[k].kind = "dir" /\ Exists(source[k].path)
            <4> HIDE DEF MadeNow, ActedNow
            <4>1. CASE k \in 1..(at - 1) BY <1>2, <3>1, <3>3, <4>1 DEF NoneForgotten
            <4>2. CASE k = at BY <3>2, <4>2
            <4> QED BY <1>1, <4>1, <4>2
        <3> QED BY <1>0, <1>3, <3>4 DEF NoneForgotten, IsMade, IsActed
    <2> QED BY <2>4, <2>5, <2>6, <2>7
<1>6. ASSUME NEW a \in ActionType({"copy", "skip"}), files' = Append(files, a), mkdirs' = mkdirs,
             a.path = source[at].path,
             a.do = "copy" => source[at].kind = "file" /\ ~Exists(source[at].path)
      PROVE  MadeFrom' /\ ActedFrom' /\ NotTwice' /\ NoneForgotten'
    <2>3. /\ 1..Len(files') = 1..Len(files) \cup {Len(files) + 1}
          /\ \A i \in 1..Len(files) : files'[i] = files[i]
          /\ files'[Len(files) + 1] = a
        BY <1>m, <1>6, Appended
    <2>4. MadeFrom' BY <1>0, <1>1, <1>2, <1>3, <1>6 DEF MadeFrom
    <2>5. ActedFrom'
        <3> DEFINE From(b, k) ==
                /\ b.path = source[k].path
                /\ b.do = "copy" => source[k].kind = "file" /\ ~Exists(source[k].path)
        <3>1. \A k \in 1..(at - 1) : k \in 1..(at' - 1) BY <1>1
        <3>2. ASSUME NEW j \in 1..Len(files) PROVE \E k \in 1..(at' - 1) : From(files'[j], k)
            BY <1>2, <2>3, <3>1 DEF ActedFrom
        <3>3. From(files'[Len(files) + 1], at) /\ at \in 1..(at' - 1) BY <1>1, <1>6, <2>3
        <3>4. ASSUME NEW j \in 1..Len(files') PROVE \E k \in 1..(at' - 1) : From(files'[j], k)
            <4> HIDE DEF From
            <4> QED BY <2>3, <3>2, <3>3
        <3> QED BY <1>0, <1>3, <3>4 DEF ActedFrom
    <2>6. NotTwice' BY <1>2, <1>n, <1>6, <2>3 DEF NotTwice, IsMade, IsActed
    <2>7. NoneForgotten'
        <3> DEFINE MadeNow(p) == \E j \in 1..Len(mkdirs') : mkdirs'[j].path = p
                   ActedNow(p) == \E j \in 1..Len(files') : files'[j].path = p
        <3>1. ASSUME NEW p, IsActed(p) PROVE ActedNow(p)
            <4>1. PICK j \in 1..Len(files) : files[j].path = p BY <3>1 DEF IsActed
            <4> QED BY <2>3, <4>1
        <3>2. ActedNow(source[at].path) BY <1>6, <2>3
        <3>3. ASSUME NEW p, IsMade(p) PROVE MadeNow(p) BY <1>6, <3>3 DEF IsMade
        <3>4. ASSUME NEW k \in 1..(at' - 1)
              PROVE  \/ MadeNow(source[k].path) \/ ActedNow(source[k].path)
                     \/ source[k].kind = "dir" /\ Exists(source[k].path)
            <4> HIDE DEF MadeNow, ActedNow
            <4>1. CASE k \in 1..(at - 1) BY <1>2, <3>1, <3>3, <4>1 DEF NoneForgotten
            <4>2. CASE k = at BY <3>2, <4>2
            <4> QED BY <1>1, <4>1, <4>2
        <3> QED BY <1>0, <1>3, <3>4 DEF NoneForgotten, IsMade, IsActed
    <2> QED BY <2>4, <2>5, <2>6, <2>7
<1>p. partials \subseteq PartialType BY DEF TypeInv, GivenInv
<1>7. CASE Copied
    <2>1. PICK reason \in {"new", "differs"} : files' = Append(files, Copy(entry, reason))
        BY <1>7 DEF Copied
    <2>2. Copy(entry, reason) \in ActionType({"copy", "skip"}) /\ Copy(entry, reason).path = entry.path
        BY <1>e, <1>p, CopyTyped DEF Copy, Action, Reasons
    <2> QED BY <1>1, <1>6, <1>7, <2>1, <2>2 DEF Copied
<1>8. CASE Skipped
    <2>1. PICK reason \in Reasons : files' = Append(files, Skip(entry, reason))
        BY <1>8 DEF Skipped
    <2>2. Skip(entry, reason) \in ActionType({"copy", "skip"}) BY <1>e, SkipTyped
    <2>3. Skip(entry, reason).path = entry.path /\ Skip(entry, reason).do # "copy" BY DEF Skip, Action
    <2> QED BY <1>1, <1>6, <1>8, <2>1, <2>2, <2>3 DEF Skipped
<1> QED BY <1>4, <1>5, <1>7, <1>8 DEF Decision

\* What a plan is made of stays as it is while nothing is decided.
LEMMA FatesInit == Init => FatesInv
<1> QED BY DEF Init, FatesInv

LEMMA FatesBegin ==
    ASSUME phase' = "decide" \/ phase' \notin {"decide", "ready"},
           at' = 1, mkdirs' = << >>, files' = << >>
    PROVE  FatesInv'
<1>1. 1..(at' - 1) = {} /\ 1..Len(mkdirs') = {} /\ 1..Len(files') = {} BY SMT
<1>2. phase' # "ready" OBVIOUS
<1> QED BY <1>1, <1>2 DEF FatesInv, MadeFrom, ActedFrom, NotTwice, NoneForgotten

LEMMA PlanKinds ==
    ASSUME TypeInv, Plan
    PROVE  \/ CollectConflict \/ EndCollect \/ Decision \/ EndDecide
<1> QED BY DecisionIs DEF Plan, PlannerNext

LEMMA FatesStep == TypeInv /\ FatesInv /\ [Next]_vars => FatesInv'
<1> SUFFICES ASSUME TypeInv, FatesInv, [Next]_vars PROVE FatesInv' OBVIOUS
<1>1. ASSUME source' = source, dest' = dest, folding' = folding, phase' = phase,
             at' = at, mkdirs' = mkdirs, files' = files
      PROVE  FatesInv'
    BY <1>1 DEF FatesInv, MadeFrom, ActedFrom, NotTwice, NoneForgotten, IsMade, IsActed, Exists, Get
<1>2. CASE UNCHANGED vars \/ Cancel \/ Scan
    BY <1>1, <1>2 DEF vars, Cancel, Scan, plannerVars, given, decider
<1>3. CASE Begin
    <2>1. phase' \in {"collect", "decide"} /\ decider' = decider /\ Blank
        BY <1>3 DEF Begin, BeginPlan, TypeInv, PhaseInv
    <2> QED BY <2>1, FatesBegin DEF decider, Blank
<1>4. CASE Plan
    <2>1. CASE CollectConflict BY <2>1 DEF CollectConflict, More, FatesInv
    <2>2. CASE EndCollect
        <3>1. mkdirs' = << >> /\ files' = << >> BY <2>2 DEF EndCollect, TypeInv, PhaseInv
        <3> QED BY <2>2, <3>1, FatesBegin DEF EndCollect
    <2>3. CASE EndDecide
        <3>1. at = Len(source) + 1 BY <2>3 DEF EndDecide, TypeInv, DeciderInv, GivenInv, IsListing
        <3> QED BY <2>3, <3>1 DEF EndDecide, given, decider, FatesInv, MadeFrom, ActedFrom,
                                  NotTwice, NoneForgotten, IsMade, IsActed, Exists, Get
    <2> QED BY <1>4, <2>1, <2>2, <2>3, PlanKinds, DecisionKeepsFates
<1>5. CASE RunAction BY <1>5 DEF RunAction, FatesInv
<1>6. CASE RunAgain BY <1>6 DEF RunAgain, FatesInv
<1> QED BY <1>2, <1>3, <1>4, <1>5, <1>6 DEF Next

\* Whatever the two sides hold and whichever the policy, each entry of the phone
\* has one action, or none and is a folder the destination has: what lies under
\* a folder that cannot be made is skipped one by one, and none of it twice.
THEOREM OneFateEach == Spec => []EveryEntryHasOneFate
<1>1. TypeInv /\ FatesInv => EveryEntryHasOneFate
    <2> SUFFICES ASSUME TypeInv, FatesInv, phase = "ready", NEW i \in DOMAIN source
                 PROVE  LET fates == {j \in DOMAIN Actions : Actions[j].path = source[i].path}
                        IN \/ Cardinality(fates) = 1
                           \/ /\ fates = {} /\ source[i].kind = "dir"
                              /\ \E x \in Get(source[i].path) : x.kind = "dir"
        BY DEF EveryEntryHasOneFate
    <2> DEFINE p == source[i].path
               fates == {j \in DOMAIN Actions : Actions[j].path = p}
               M == Len(mkdirs)
    <2>1. M \in Nat /\ Len(files) \in Nat BY DEF TypeInv, DeciderInv
    <2>2. /\ DOMAIN Actions = 1..(M + Len(files))
          /\ \A k \in 1..M : Actions[k] = mkdirs[k]
          /\ \A k \in 1..Len(files) : Actions[M + k] = files[k]
        BY ActionsAre DEF TypeInv
    <2>3. i \in 1..(at - 1) BY DEF FatesInv, TypeInv, GivenInv, IsListing
    <2> HIDE DEF p, M
    <2>4. \A j \in DOMAIN Actions :
            \/ j \in 1..M /\ Actions[j] = mkdirs[j]
            \/ j - M \in 1..Len(files) /\ Actions[j] = files[j - M]
        <3> SUFFICES ASSUME NEW j \in DOMAIN Actions, j \notin 1..M
                     PROVE  j - M \in 1..Len(files) /\ Actions[j] = files[j - M]
            BY <2>2
        <3>1. j - M \in 1..Len(files) /\ M + (j - M) = j BY <2>1, <2>2
        <3> QED BY <2>2, <3>1
    <2>n. NotTwice /\ NoneForgotten BY DEF FatesInv
    <2>5. \A j, k \in fates : j = k
        <3> SUFFICES ASSUME NEW j \in DOMAIN Actions, NEW k \in DOMAIN Actions,
                            Actions[j].path = p, Actions[k].path = p
                     PROVE  j = k
            OBVIOUS
        <3>1. j \in Int /\ k \in Int BY <2>2
        <3>2. CASE j \in 1..M /\ k \in 1..M /\ Actions[j] = mkdirs[j] /\ Actions[k] = mkdirs[k]
            BY <2>n, <3>2 DEF NotTwice, M
        <3>3. CASE /\ j - M \in 1..Len(files) /\ k - M \in 1..Len(files)
                   /\ Actions[j] = files[j - M] /\ Actions[k] = files[k - M]
            <4>1. j - M = k - M BY <2>n, <3>3 DEF NotTwice
            <4> QED BY <2>1, <3>1, <4>1
        <3>4. CASE /\ j \in 1..M /\ k - M \in 1..Len(files)
                   /\ Actions[j] = mkdirs[j] /\ Actions[k] = files[k - M]
            BY <2>n, <3>4 DEF NotTwice, M
        <3>5. CASE /\ k \in 1..M /\ j - M \in 1..Len(files)
                   /\ Actions[k] = mkdirs[k] /\ Actions[j] = files[j - M]
            BY <2>n, <3>5 DEF NotTwice, M
        <3> QED BY <2>4, <3>2, <3>3, <3>4, <3>5
    <2>6. ASSUME NEW j \in fates PROVE Cardinality(fates) = 1
        <3>1. fates = {j} BY <2>5, <2>6
        <3> HIDE DEF fates
        <3> QED BY <3>1, FS_Singleton
    <2>7. IsMade(p) => fates # {}
        <3> SUFFICES ASSUME NEW j \in 1..M, mkdirs[j].path = p PROVE j \in fates
            BY DEF IsMade, M
        <3> QED BY <2>1, <2>2
    <2>8. IsActed(p) => fates # {}
        <3> SUFFICES ASSUME NEW j \in 1..Len(files), files[j].path = p PROVE M + j \in fates
            BY DEF IsActed
        <3> QED BY <2>1, <2>2
    <2>9. IsMade(p) \/ IsActed(p) \/ (source[i].kind = "dir" /\ Exists(p))
        BY <2>3, <2>n DEF NoneForgotten, p
    <2>10. CASE fates = {} BY <2>7, <2>8, <2>9, <2>10 DEF Exists, p
    <2>11. CASE fates # {}
        <3>1. PICK j : j \in fates BY <2>11
        <3>2. Cardinality(fates) = 1 BY <2>6, <3>1
        <3> QED BY <3>2 DEF p
    <2> QED BY <2>10, <2>11
<1> QED BY <1>1, TypeInit, TypeStep, FatesInit, FatesStep, PTL DEF Spec
-----------------------------------------------------------------------------
(* Listing.  Until the walk ends, what is not listed yet lies at or below  *)
(* an item it is yet to visit; and the planner is given what was listed.   *)

EntryOf(i) == Entry(i.path, KindOf(i), IF i.is = "file" THEN i.size ELSE 0, i.modified)

LeftOut(i) == i.is = "broken" \/ Last(i.path) \in Unnameable

\* What keeps an item from being listed.
Bars(j, i) == StartsWith(i.path, j.path) /\ (LeftOut(j) \/ (j.is = "locked" /\ j # i))

\* What a scan may lack, wherever it reports it.
Passed(i) ==
    \/ IsTransferFile(i) \/ i.is = "special" \/ rootIs = "locked"
    \/ \E j \in volume : Bars(j, i)

Covered(i) ==
    \/ EntryOf(i) \in found.entries
    \/ IsTransferFile(i) \/ i.is = "special"
    \/ rootIs = "locked" /\ Root \in found.skipped
    \/ \E j \in volume : Bars(j, i) /\ Parent(j.path) \in found.skipped

\* What the scan is after: everything, or one name in the root.
Relevant(i) == only = {} \/ (Len(i.path) = 1 /\ Wanted(i))
Due(i) == \E j \in toVisit : StartsWith(i.path, j.path)

IsListed(e) == \E i \in volume : i.is \in {"file", "dir", "locked"} /\ e = EntryOf(i)

WalkInv ==
    /\ \A e \in found.entries : IsListed(e)
    /\ walk = "walk" => \A i \in volume : Relevant(i) => Covered(i) \/ Due(i)
    /\ only # {} => \A j \in toVisit : Len(j.path) = 1
    /\ walk = "listed" => \A i \in volume : Relevant(i) => Covered(i)

DestInv ==
    phase \notin {"idle", "run"} =>
        /\ \A e \in dest : IsListed(e)
        /\ \A i \in volume : Relevant(i) => EntryOf(i) \in dest \/ Passed(i)

\* One file is looked for by name only where names are compared byte for byte.
OnlyInv ==
    \A name \in only :
        /\ Len(source) = 1 /\ Len(source[1].path) = 1 /\ source[1].path[1] = name
        /\ folds = "exact" \/ SinglesFold

ListInv == WalkInv /\ DestInv /\ OnlyInv

LEMMA ItemFacts ==
    ASSUME DiskInv, NEW i \in volume
    PROVE  /\ i.path \in Paths /\ i.path \in Seq(Names) /\ Len(i.path) \in Nat \ {0}
           /\ \A m \in 1..Len(i.path) : \E j \in volume : j.path = SubSeq(i.path, 1, m)
           /\ i.is \in {"file", "dir", "locked", "broken", "special"}
<1>1. i \in ItemType BY VolumeFacts DEF DiskInv
<1>2. i.path \in Paths BY <1>1 DEF ItemType
<1>t. i.is \in {"file", "dir", "locked", "broken", "special"} BY <1>1 DEF ItemType
<1>3. Len(i.path) \in Nat \ {0} BY <1>2, FrontOf
<1>4. ASSUME NEW m \in 1..Len(i.path) PROVE \E j \in volume : j.path = SubSeq(i.path, 1, m)
    <2>1. CASE m = Len(i.path)
        <3>1. SubSeq(i.path, 1, m) = i.path BY <1>2, <2>1 DEF Paths
        <3> QED BY <3>1
    <2>2. CASE m # Len(i.path)
        <3>1. m \in 1..(Len(i.path) - 1) BY <1>3, <2>2
        <3> QED BY <3>1, VolumeFacts DEF DiskInv
    <2> QED BY <2>1, <2>2
<1> QED BY <1>2, <1>t, <1>3, <1>4 DEF Paths

LEMMA OneItem ==
    ASSUME DiskInv, NEW i \in volume, NEW j \in volume, Same(i.path, j.path, folds)
    PROVE  i = j
<1> QED BY VolumeFacts DEF DiskInv

\* Only a folder has items below it.
LEMMA BelowIsDir ==
    ASSUME DiskInv, NEW i \in volume, NEW j \in volume, StartsWith(i.path, j.path), i # j
    PROVE  /\ IsFolder(j) /\ Len(j.path) < Len(i.path)
           /\ j.path = SubSeq(i.path, 1, Len(j.path))
<1>1. /\ i.path \in Seq(Names) /\ Len(i.path) \in Nat /\ j.path \in Seq(Names)
      /\ Len(j.path) \in Nat \ {0}
    BY ItemFacts
<1>2. Len(j.path) <= Len(i.path) /\ \A k \in 1..Len(j.path) : j.path[k] = i.path[k]
    BY <1>1, PrefixOf DEF StartsWith
<1>3. folds \in Foldings BY DEF DiskInv
<1>4. Len(j.path) # Len(i.path)
    <2> SUFFICES ASSUME Len(j.path) = Len(i.path) PROVE FALSE OBVIOUS
    <2>1. i.path = j.path BY <1>1, <1>2, PathsEqual
    <2>2. Same(i.path, j.path, folds) BY <1>3, <2>1, SameIsEquivalence
    <2> QED BY <2>2, OneItem
<1>5. Len(j.path) < Len(i.path) /\ Len(j.path) \in 1..(Len(i.path) - 1) BY <1>1, <1>2, <1>4
<1>6. j.path = SubSeq(i.path, 1, Len(j.path))
    <2>1. /\ SubSeq(i.path, 1, Len(j.path)) \in Seq(Names)
          /\ Len(SubSeq(i.path, 1, Len(j.path))) = Len(j.path)
          /\ \A k \in 1..Len(j.path) : SubSeq(i.path, 1, Len(j.path))[k] = i.path[k]
        BY <1>1, <1>5, UpToType
    <2> QED BY <1>1, <1>2, <2>1, PathsEqual
<1>7. PICK d \in volume : d.path = SubSeq(i.path, 1, Len(j.path)) /\ IsFolder(d)
    BY <1>5, VolumeFacts DEF DiskInv
<1>8. Same(d.path, j.path, folds) BY <1>3, <1>6, <1>7, SameIsEquivalence
<1>9. d = j BY <1>8, OneItem
<1> QED BY <1>5, <1>6, <1>7, <1>9

\* The way down from a folder to what lies in it begins with a child of the folder.
LEMMA ChildOnTheWay ==
    ASSUME DiskInv, NEW i \in volume, NEW n \in 0..(Len(i.path) - 1)
    PROVE  \E c \in Children(SubSeq(i.path, 1, n)) :
               StartsWith(i.path, c.path) /\ Len(c.path) = n + 1
<1>1. i.path \in Seq(Names) /\ Len(i.path) \in Nat \ {0} BY ItemFacts
<1>2. n + 1 \in 1..Len(i.path) /\ n \in 0..(n + 1) /\ n + 1 \in 0..Len(i.path) BY <1>1
<1>3. PICK c \in volume : c.path = SubSeq(i.path, 1, n + 1) BY <1>2, ItemFacts
<1>4. /\ Len(c.path) = n + 1 /\ \A k \in 1..(n + 1) : c.path[k] = i.path[k]
    BY <1>1, <1>2, <1>3, UpToType
<1>5. c.path \in Paths BY ItemFacts
<1>6. Parent(c.path) = SubSeq(c.path, 1, n)
    <2>1. Len(c.path) - 1 = n BY <1>2, <1>4
    <2> QED BY <1>5, <2>1, FrontOf
<1>7. SubSeq(SubSeq(i.path, 1, n + 1), 1, n) = SubSeq(i.path, 1, n) BY <1>1, <1>2, UpToUpTo
<1>8. StartsWith(i.path, c.path) BY <1>1, <1>2, <1>4, <1>5, PrefixOf DEF StartsWith, Paths
<1>9. c.path # Root BY <1>5 DEF Paths
<1> QED BY <1>3, <1>4, <1>6, <1>7, <1>8, <1>9 DEF Children, ChildrenIn

LEMMA RootsChildren ==
    ASSUME DiskInv, NEW i \in volume
    PROVE  /\ \E c \in Children(Root) : StartsWith(i.path, c.path)
           /\ i \in Children(Root) => Len(i.path) = 1
<1>1. i.path \in Paths /\ i.path \in Seq(Names) /\ Len(i.path) \in Nat \ {0} BY ItemFacts
<1>2. SubSeq(i.path, 1, 0) = Root BY <1>1, UpToType DEF Root
<1>3. 0 \in 0..(Len(i.path) - 1) BY <1>1
<1>4. i \in Children(Root) => Len(i.path) = 1
    <2>1. Len(Parent(i.path)) = Len(i.path) - 1 BY <1>1, FrontOf
    <2>2. Len(Root) = 0 BY DEF Root
    <2> SUFFICES ASSUME i \in Children(Root) PROVE Len(i.path) = 1 OBVIOUS
    <2>3. Parent(i.path) = Root BY DEF Children, ChildrenIn
    <2>4. Len(i.path) - 1 = 0 BY <2>1, <2>2, <2>3
    <2>5. Len(i.path) \in Nat BY <1>1
    <2> QED BY <2>4, <2>5
<1> QED BY <1>2, <1>3, <1>4, ChildOnTheWay

LEMMA StartsSelf ==
    ASSUME NEW p \in Seq(Names) PROVE StartsWith(p, p)
<1> QED BY PrefixOf DEF StartsWith

LEMMA WantedAll == only = {} => \A i : Wanted(i)
<1> QED BY DEF Wanted

\* One item handled: it is covered now, or what lies below it is due.
LEMMA VisitKeepsWalk ==
    ASSUME TypeInv, WalkInv, UNCHANGED <<disk, only>>, walk = "walk", walk' = "walk",
           NEW j \in toVisit, toVisit \ {j} \subseteq toVisit', toVisit' \subseteq volume,
           only # {} => toVisit' \subseteq toVisit,
           found.entries \subseteq found'.entries, found.skipped \subseteq found'.skipped,
           \A e \in found'.entries : IsListed(e),
           \A i \in volume : Relevant(i) /\ StartsWith(i.path, j.path) =>
               Covered(i)' \/ \E k \in toVisit' : StartsWith(i.path, k.path)
    PROVE  WalkInv'
<1>1. volume' = volume /\ only' = only /\ rootIs' = rootIs BY DEF disk
<1>2. \A e \in found'.entries : IsListed(e)' BY <1>1 DEF IsListed
<1>3. ASSUME NEW i \in volume, Relevant(i) PROVE Covered(i)' \/ Due(i)'
    <2>1. CASE Covered(i) BY <1>1, <2>1 DEF Covered
    <2>2. CASE Due(i)
        <3>1. PICK k \in toVisit : StartsWith(i.path, k.path) BY <2>2 DEF Due
        <3>2. CASE k = j BY <1>3, <3>1, <3>2 DEF Due
        <3>3. CASE k # j BY <3>1, <3>3 DEF Due
        <3> QED BY <3>2, <3>3
    <2> QED BY <1>3, <2>1, <2>2 DEF WalkInv
<1>4. \A i \in volume' : Relevant(i)' => Covered(i)' \/ Due(i)'
    BY <1>1, <1>3 DEF Relevant, Wanted
<1>5. only' # {} => \A i \in toVisit' : Len(i.path) = 1 BY <1>1 DEF WalkInv
<1> QED BY <1>2, <1>4, <1>5 DEF WalkInv

\* What is at or below an item that is no folder is that item.
LEMMA AtLeaf ==
    ASSUME DiskInv, NEW i \in volume, NEW j \in volume, StartsWith(i.path, j.path), ~IsFolder(j)
    PROVE  i = j
<1> QED BY BelowIsDir

LEMMA EntryListed ==
    ASSUME DiskInv, NEW i \in volume, i.is \in {"file", "dir", "locked"}
    PROVE  IsListed(EntryOf(i))
<1> QED BY DEF IsListed

LEMMA ScanKeepsWalk ==
    ASSUME TypeInv, WalkInv, Scan
    PROVE  WalkInv'
<1>0. DiskInv /\ disk' = disk /\ volume' = volume /\ only' = only /\ toVisit \subseteq volume
      /\ found \in FoundType /\ (rootIs \notin {"dir", "locked"} => volume = {}) /\ rootIs' = rootIs
    BY DEF Scan, disk, TypeInv, DiskInv, ScanInv, LocalScanNext, StatRoot, WalkCancelled, FinishWalk,
           FailWalk, VisitUnlistable, VisitUnwanted, VisitEntry, VisitTransferFile, VisitUnreadable, Walking
<1>e. \A e \in found.entries : IsListed(e) BY DEF WalkInv
<1>1. ASSUME walk' = "failed", found' = found, toVisit' = {} PROVE WalkInv'
    BY <1>0, <1>1 DEF WalkInv, IsListed
<1>2. CASE StatRoot
    <2>1. CASE rootIs \in {"dir", "locked", "absent"}
        <3>1. /\ walk' = "walk" /\ found'.entries = found.entries
              /\ rootIs = "locked" => Root \in found'.skipped
              /\ toVisit' = IF rootIs = "dir" THEN Children(Root) ELSE {}
            BY <1>0, <1>2, <2>1 DEF StatRoot, FoundType
        <3>2. \A i \in volume : Covered(i)' \/ Due(i)'
            <4> SUFFICES ASSUME NEW i \in volume, rootIs # "locked" PROVE Due(i)'
                BY <1>0, <3>1 DEF Covered
            <4>1. toVisit' = Children(Root) BY <1>0, <3>1
            <4>2. \E c \in Children(Root) : StartsWith(i.path, c.path) BY <1>0, RootsChildren
            <4> QED BY <4>1, <4>2 DEF Due
        <3>3. \A j \in toVisit' : Len(j.path) = 1
            BY <1>0, <3>1, RootsChildren DEF Children, ChildrenIn
        <3>4. \A e \in found'.entries : IsListed(e)' BY <1>0, <1>e, <3>1 DEF IsListed
        <3> QED BY <1>0, <3>1, <3>2, <3>3, <3>4 DEF WalkInv
    <2>2. CASE rootIs \notin {"dir", "locked", "absent"}
        BY <1>1, <1>2, <2>2 DEF StatRoot, FailWalk
    <2> QED BY <2>1, <2>2
<1>3. CASE WalkCancelled BY <1>1, <1>3 DEF WalkCancelled, FailWalk
<1>4. CASE FinishWalk
    <2>1. PICK tells \in Foldings : found' = [found EXCEPT !.folding = tells]
        BY <1>4 DEF FinishWalk
    <2>2. found'.entries = found.entries /\ found'.skipped = found.skipped
        BY <1>0, <2>1 DEF FoundType
    <2>3. toVisit = {} /\ toVisit' = {} /\ walk = "walk" /\ walk' = "listed" BY <1>4 DEF FinishWalk
    <2>4. ASSUME NEW i \in volume, Relevant(i) PROVE Covered(i)'
        <3>1. Covered(i) BY <2>3, <2>4 DEF WalkInv, Due
        <3> QED BY <1>0, <2>2, <3>1 DEF Covered
    <2>5. \A i \in volume' : Relevant(i)' => Covered(i)' BY <1>0, <2>4 DEF Relevant, Wanted
    <2>6. \A e \in found'.entries : IsListed(e)' BY <1>0, <1>e, <2>2 DEF IsListed
    <2> QED BY <2>3, <2>5, <2>6 DEF WalkInv
<1>5. ASSUME NEW j \in toVisit, VisitUnlistable(j) PROVE WalkInv'
    <2>0. walk = "walk" /\ walk' = walk /\ toVisit' = toVisit \ {j} /\ LeftOut(j)
        BY <1>5 DEF VisitUnlistable, Walking, OmitFolder, LeftOut
    <2>1. found' = [found EXCEPT !.skipped = @ \cup {Parent(j.path)}] BY <1>5 DEF VisitUnlistable
    <2>2. found'.entries = found.entries /\ found'.skipped = found.skipped \cup {Parent(j.path)}
        BY <1>0, <2>1 DEF FoundType
    <2>3. ASSUME NEW i \in volume, StartsWith(i.path, j.path) PROVE Covered(i)'
        BY <1>0, <2>0, <2>2, <2>3 DEF Covered, Bars
    <2> QED BY <1>0, <1>e, <2>0, <2>2, <2>3, VisitKeepsWalk
<1>6. ASSUME NEW j \in toVisit, VisitUnwanted(j) PROVE WalkInv'
    <2>0. /\ walk = "walk" /\ walk' = walk /\ toVisit' = toVisit \ {j} /\ found' = found
          /\ ~Wanted(j) \/ j.is = "special"
        BY <1>6 DEF VisitUnwanted, Walking, OmitFolder
    <2>3. ASSUME NEW i \in volume, Relevant(i), StartsWith(i.path, j.path) PROVE Covered(i)'
        <3>1. CASE j.is = "special"
            <4>1. i = j BY <1>0, <2>3, <3>1, AtLeaf DEF IsFolder
            <4> QED BY <3>1, <4>1 DEF Covered
        <3>2. CASE ~Wanted(j)
            <4>1. only # {} BY <3>2, WantedAll
            <4>2. Len(i.path) = 1 /\ Wanted(i) BY <2>3, <4>1 DEF Relevant
            <4>3. Len(j.path) \in Nat /\ Len(j.path) >= 1
                <5>1. Len(j.path) \in Nat \ {0} BY <1>0, ItemFacts
                <5> QED BY <5>1
            <4>5. ~(Len(j.path) < Len(i.path)) BY <4>2, <4>3
            <4>4. i = j BY <1>0, <2>3, <4>5, BelowIsDir
            <4> QED BY <3>2, <4>2, <4>4
        <3> QED BY <2>0, <3>1, <3>2
    <2> QED BY <1>0, <1>e, <2>0, <2>3, VisitKeepsWalk
<1>7. ASSUME NEW j \in toVisit, VisitEntry(j) PROVE WalkInv'
    <2>0. /\ walk = "walk" /\ walk' = walk /\ toVisit' = Deeper(j)
          /\ j.is \in {"file", "dir", "locked"}
        BY <1>7 DEF VisitEntry, Walking
    <2> DEFINE more == IF j.is = "locked" /\ only = {} THEN {Parent(j.path)} ELSE {}
    <2>1. found' = [found EXCEPT !.entries = @ \cup {EntryOf(j)}, !.skipped = @ \cup more]
        BY <1>7 DEF VisitEntry, EntryOf
    <2> HIDE DEF more
    <2>2. found'.entries = found.entries \cup {EntryOf(j)} /\ found'.skipped = found.skipped \cup more
        BY <1>0, <2>1 DEF FoundType
    <2>3. \A e \in found'.entries : IsListed(e) BY <1>0, <1>e, <2>0, <2>2, EntryListed
    <2>4. ASSUME NEW i \in volume, Relevant(i), StartsWith(i.path, j.path)
          PROVE  Covered(i)' \/ \E k \in toVisit' : StartsWith(i.path, k.path)
        <3>1. CASE i = j BY <2>2, <3>1 DEF Covered, EntryOf, KindOf
        <3>2. CASE i # j
            <4>1. /\ IsFolder(j) /\ Len(j.path) < Len(i.path)
                  /\ j.path = SubSeq(i.path, 1, Len(j.path))
                BY <1>0, <2>4, <3>2, BelowIsDir
            <4>2. Len(j.path) \in Nat /\ Len(j.path) >= 1 /\ Len(i.path) \in Nat
                <5>1. Len(j.path) \in Nat \ {0} /\ Len(i.path) \in Nat \ {0} BY <1>0, ItemFacts
                <5> QED BY <5>1
            <4>3. only = {}
                <5>0. Len(j.path) < Len(i.path) BY <4>1
                <5>1. \A m, n \in Nat : m >= 1 /\ m < n => n # 1 OBVIOUS
                <5>2. Len(i.path) # 1 BY <4>2, <5>0, <5>1
                <5> QED BY <2>4, <5>2 DEF Relevant
            <4>4. Len(j.path) \in 0..(Len(i.path) - 1) BY <4>1, <4>2
            <4>5. \E c \in Children(j.path) : StartsWith(i.path, c.path)
                BY <1>0, <4>1, <4>4, ChildOnTheWay
            <4>6. CASE j.is = "dir"
                <5>1. Children(j.path) \subseteq toVisit' BY <2>0, <4>3, <4>6 DEF Deeper
                <5> QED BY <4>5, <5>1
            <4>7. CASE j.is = "locked"
                <5>1. Parent(j.path) \in found'.skipped BY <2>2, <4>3, <4>7 DEF more
                <5>2. Bars(j, i) BY <2>4, <3>2, <4>7 DEF Bars
                <5> QED BY <1>0, <5>1, <5>2 DEF Covered, Bars
            <4> QED BY <4>1, <4>6, <4>7 DEF IsFolder
        <3> QED BY <3>1, <3>2
    <2>5. toVisit \ {j} \subseteq toVisit' /\ toVisit' \subseteq volume /\ (only # {} => toVisit' \subseteq toVisit)
        BY <1>0, <2>0 DEF Deeper, Children, ChildrenIn
    <2> QED BY <1>0, <2>0, <2>2, <2>3, <2>4, <2>5, VisitKeepsWalk
<1>8. ASSUME NEW j \in toVisit, VisitTransferFile(j) PROVE WalkInv'
    <2>0. /\ walk = "walk" /\ walk' = walk /\ toVisit' = toVisit \ {j}
          /\ j.is = "file" /\ IsTransferFile(j)
        BY <1>8 DEF VisitTransferFile, Walking, OmitFolder
    <2>1. found'.entries = found.entries /\ found'.skipped = found.skipped
        BY <1>0, <1>8 DEF VisitTransferFile, FoundType
    <2>2. ASSUME NEW i \in volume, StartsWith(i.path, j.path) PROVE Covered(i)'
        <3>1. i = j BY <1>0, <2>0, <2>2, AtLeaf DEF IsFolder
        <3> QED BY <2>0, <3>1 DEF Covered, IsTransferFile
    <2> QED BY <1>0, <1>e, <2>0, <2>1, <2>2, VisitKeepsWalk
<1>9. ASSUME NEW j \in toVisit, VisitUnreadable(j) PROVE WalkInv'
    BY <1>1, <1>9 DEF VisitUnreadable, FailWalk
<1> QED BY <1>2, <1>3, <1>4, <1>5, <1>6, <1>7, <1>8, <1>9 DEF Scan, LocalScanNext

LEMMA ListInit == Init => ListInv
<1> SUFFICES ASSUME Init PROVE ListInv OBVIOUS
<1>1. WalkInv BY DEF Init, WalkInv, NothingFound
<1>2. DestInv BY DEF Init, DestInv
<1>3. OnlyInv
    <2> SUFFICES ASSUME NEW name \in only
                 PROVE  /\ Len(source) = 1 /\ Len(source[1].path) = 1 /\ source[1].path[1] = name
                        /\ folds = "exact" \/ SinglesFold
        BY DEF OnlyInv
    <2>1. only \in {{}} \cup IF IsSingle /\ (folds = "exact" \/ SinglesFold)
                            THEN {{source[1].path[1]}} ELSE {}
        BY DEF Init
    <2> QED BY <2>1 DEF IsSingle
<1> QED BY <1>1, <1>2, <1>3 DEF ListInv

LEMMA ListStep == TypeInv /\ PartialsInv /\ ListInv /\ [Next]_vars => ListInv'
<1> SUFFICES ASSUME TypeInv, PartialsInv, ListInv, [Next]_vars PROVE ListInv' OBVIOUS
<1>l. WalkInv /\ DestInv /\ OnlyInv BY DEF ListInv
<1>o. source' = source /\ only' = only /\ folds' = folds
    BY DEF Next, vars, Scan, Cancel, Begin, Plan, RunAction, RunAgain, disk, scanVars, plannerVars, given,
           LocalScanNext, StatRoot, WalkCancelled, FinishWalk, FailWalk, VisitUnlistable, VisitUnwanted,
           VisitEntry, VisitTransferFile, VisitUnreadable, Walking, HandOver, ScanAgain, BeginPlan,
           PlannerNext, CollectConflict, EndCollect, DecideBlocked, DecideCollision,
           Free, DecideMkdir, DecideExists, DecideInTheWay, DecideOneFile, EndDecide
<1>1. OnlyInv' BY <1>o, <1>l DEF OnlyInv
<1>2. ASSUME scanVars' = scanVars, volume' = volume, rootIs' = rootIs PROVE WalkInv'
    BY <1>2, <1>l DEF scanVars, WalkInv, IsListed, Relevant, Wanted, Covered, Bars, Due
<1>3. ASSUME dest' = dest, volume' = volume, rootIs' = rootIs,
             phase \notin {"idle", "run"} \/ phase' \in {"idle", "run"}
      PROVE  DestInv'
    BY <1>3, <1>l, <1>o DEF DestInv, IsListed, Relevant, Wanted, Passed, Bars
<1>4. CASE UNCHANGED vars \/ Cancel
    BY <1>1, <1>2, <1>3, <1>4 DEF vars, Cancel, disk, plannerVars, given, ListInv
<1>5. CASE Scan
    <2>1. dest' = dest /\ volume' = volume /\ rootIs' = rootIs /\ phase' = phase
        BY <1>5 DEF Scan, disk, plannerVars, given
    <2> QED BY <1>1, <1>3, <1>5, <1>l, <2>1, ScanKeepsWalk DEF ListInv
<1>6. CASE Begin
    <2>1. /\ volume' = volume /\ rootIs' = rootIs /\ dest' = found.entries /\ walk = "listed" /\ walk' = "over"
          /\ found' = NothingFound /\ toVisit' = toVisit
        BY <1>6 DEF Begin, BeginPlan, HandOver, disk
    <2>2. WalkInv' BY <1>l, <1>o, <2>1 DEF WalkInv, NothingFound
    <2>3. \A e \in dest' : IsListed(e)' BY <1>l, <2>1 DEF WalkInv, IsListed
    <2>4. ASSUME NEW i \in volume, Relevant(i) PROVE EntryOf(i) \in dest' \/ Passed(i)
        BY <1>l, <2>1, <2>4 DEF WalkInv, Covered, Passed
    <2>5. DestInv' BY <1>o, <2>1, <2>3, <2>4 DEF DestInv, Relevant, Wanted, Passed, Bars
    <2> QED BY <1>1, <2>2, <2>5 DEF ListInv
<1>7. CASE Plan
    <2>1. /\ dest' = dest /\ volume' = volume /\ rootIs' = rootIs /\ scanVars' = scanVars
          /\ phase \notin {"idle", "run"}
        BY <1>7 DEF Plan, disk, given, PlannerNext, CollectConflict, EndCollect, DecideBlocked, DecideCollision,
           Free, DecideMkdir, DecideExists, DecideInTheWay, DecideOneFile, EndDecide, More
    <2> QED BY <1>1, <1>2, <1>3, <2>1 DEF ListInv
<1>8. CASE RunAction
    <2>1. phase # "idle" /\ phase' = "run" /\ scanVars' = scanVars BY <1>8 DEF RunAction
    <2>2. walk = "over" /\ toVisit = {} BY <2>1 DEF TypeInv, PhaseInv, ScanInv
    <2>3. walk' = "over" /\ toVisit' = {} /\ found' = NothingFound
        BY <2>1, <2>2 DEF scanVars, PartialsInv
    <2>4. WalkInv' BY <2>3 DEF WalkInv, NothingFound
    <2>5. DestInv' BY <2>1 DEF DestInv
    <2> QED BY <1>1, <2>4, <2>5 DEF ListInv
<1>9. CASE RunAgain
    <2>1. phase' = "idle" /\ walk' = "stat" /\ toVisit' = {} /\ found' = NothingFound
        BY <1>9 DEF RunAgain, ScanAgain
    <2>2. WalkInv' BY <2>1 DEF WalkInv, NothingFound
    <2>3. DestInv' BY <2>1 DEF DestInv
    <2> QED BY <1>1, <2>2, <2>3 DEF ListInv
<1> QED BY <1>4, <1>5, <1>6, <1>7, <1>8, <1>9 DEF Next

LEMMA ListHolds == Spec => [](TypeInv /\ PartialsInv /\ ListInv)
<1> QED BY TypeInit, TypeStep, PartialsInit, PartialsStep, ListInit, ListStep, PTL DEF Spec

\* Whatever the volume holds, and in whatever order its folders yield, a listing
\* that ends lacks nothing but a transfer's own files, what is neither file nor
\* folder, and what lies at or below something it reports as left out, a folder
\* that cannot be listed included.
THEOREM ListingsAreWhole == Spec => []ListingIsWhole
<1>1. TypeInv /\ ListInv => ListingIsWhole
    <2> SUFFICES ASSUME TypeInv, ListInv, walk = "listed", only = {}, NEW i \in volume
                 PROVE  \/ rootIs = "locked" /\ Root \in found.skipped
                        \/ \E e \in found.entries : e.path = i.path /\ e.kind = KindOf(i)
                        \/ IsTransferFile(i) \/ i.is = "special"
                        \/ \E j \in volume : StartsWith(i.path, j.path) /\ Omitted(j)
        BY DEF ListingIsWhole
    <2>1. Covered(i) BY DEF ListInv, WalkInv, Relevant
    <2>2. CASE EntryOf(i) \in found.entries
        <3>1. EntryOf(i).path = i.path /\ EntryOf(i).kind = KindOf(i) BY DEF EntryOf, Entry
        <3> QED BY <2>2, <3>1
    <2> QED BY <2>1, <2>2 DEF Covered, Bars, Omitted, LeftOut
<1> QED BY <1>1, ListHolds, PTL
-----------------------------------------------------------------------------
(* What the destination has where an entry is to go is what it listed.     *)

LEMMA NotOdd ==
    ASSUME TypeInv, CaseKeepsOddNames, NEW k \in 1..Len(source),
           NEW q \in Seq(Names), Same(q, source[k].path, folds)
    PROVE  Len(q) = Len(source[k].path) /\ \A n \in 1..Len(q) : q[n] \notin OddNames
<1> DEFINE p == source[k].path
<1>1. IsListing(source) /\ folds \in Foldings BY DEF TypeInv, GivenInv, DiskInv
<1>2. \A n \in 1..Len(p) : p[n] \notin OddNames BY <1>1 DEF IsListing
<1>3. source[k] \in EntryType BY <1>1 DEF IsListing
<1>4. p \in Seq(Names) BY <1>3 DEF EntryType, Paths
<1> HIDE DEF p
<1>5. Len(q) = Len(p) /\ \A n \in 1..Len(q) : SameName(q[n], p[n], folds)
    BY <1>1, <1>4, SameMeans DEF p
<1>6. ASSUME NEW n \in 1..Len(q) PROVE q[n] \notin OddNames
    <2>1. q[n] \in Names /\ p[n] \in Names BY <1>4, <1>5
    <2>2. q[n] = p[n] \/ Folded[q[n]] = Folded[p[n]] BY <1>5 DEF SameName
    <2>3. p[n] \notin OddNames BY <1>2, <1>5 DEF p
    <2> QED BY <2>1, <2>2, <2>3 DEF CaseKeepsOddNames
<1> QED BY <1>5, <1>6 DEF p

LEMMA ScanIsAfterIt ==
    ASSUME TypeInv, ListInv, ~SinglesFold, NEW k \in 1..Len(source),
           NEW x \in volume, Same(x.path, source[k].path, folds)
    PROVE  Relevant(x)
<1>1. CASE only = {} BY <1>1 DEF Relevant
<1>2. CASE only # {}
    <2>1. PICK name \in only : TRUE BY <1>2
    <2>2. \A n \in only : /\ Len(source) = 1 /\ Len(source[1].path) = 1 /\ source[1].path[1] = n
                          /\ folds = "exact"
        BY DEF ListInv, OnlyInv
    <2>3. k = 1 /\ x.path = source[1].path BY <2>1, <2>2 DEF Same
    <2>4. Len(x.path) = 1 /\ Last(x.path) = x.path[1] BY <2>1, <2>2, <2>3 DEF Last
    <2>5. Wanted(x) BY <2>2, <2>3, <2>4 DEF Wanted, ResumeFiles
    <2> QED BY <2>4, <2>5 DEF Relevant
<1> QED BY <1>1, <1>2

\* Where the scan could look, nothing keeps what is below from being listed.
LEMMA NotBarred ==
    ASSUME DiskInv, NEW path \in Seq(Names), ~Hidden(path),
           NEW x \in volume, Same(x.path, path, folds), NEW j \in volume,
           StartsWith(x.path, j.path), j.is = "locked"
    PROVE  j = x
<1> SUFFICES ASSUME j # x PROVE FALSE OBVIOUS
<1>1. Len(j.path) < Len(x.path) /\ j.path = SubSeq(x.path, 1, Len(j.path)) BY BelowIsDir
<1>2. Len(j.path) \in Nat \ {0} /\ Len(x.path) \in Nat \ {0} /\ x.path \in Seq(Names) BY ItemFacts
<1>3. folds \in Foldings BY DEF DiskInv
<1>4. Len(x.path) = Len(path) BY <1>2, <1>3, SameMeans
<1>5. Len(j.path) \in 1..(Len(path) - 1) /\ Len(j.path) \in 0..Len(x.path) BY <1>1, <1>2, <1>4
<1>6. Same(SubSeq(x.path, 1, Len(j.path)), SubSeq(path, 1, Len(j.path)), folds)
    BY <1>2, <1>3, <1>5, SameUpTo
<1>7. Same(j.path, SubSeq(path, 1, Len(j.path)), folds) BY <1>1, <1>6
<1> QED BY <1>5, <1>7 DEF Hidden

LEMMA DestHasIt ==
    ASSUME TypeInv, ListInv, ~SinglesFold, CaseKeepsOddNames, phase \notin {"idle", "run"},
           NEW k \in 1..Len(source), ~Hidden(source[k].path),
           NEW x \in volume, Same(x.path, source[k].path, folds),
           x.is \in {"file", "dir", "locked"}
    PROVE  EntryOf(x) \in dest
<1>1. DiskInv BY DEF TypeInv
<1>2. x.path \in Paths /\ x.path \in Seq(Names) /\ Len(x.path) \in Nat \ {0} BY <1>1, ItemFacts
<1>3. EntryOf(x) \in dest \/ Passed(x) BY ScanIsAfterIt DEF ListInv, DestInv
<1>4. \A n \in 1..Len(x.path) : x.path[n] \notin OddNames BY <1>2, NotOdd
<1>5. ~IsTransferFile(x)
    <2>1. Len(x.path) \in 1..Len(x.path) BY <1>2
    <2> QED BY <1>4, <2>1 DEF IsTransferFile, Last, OddNames
<1>6. ASSUME NEW j \in volume, StartsWith(x.path, j.path) PROVE ~LeftOut(j)
    <2>1. j.path \in Seq(Names) /\ Len(j.path) \in Nat \ {0} BY <1>1, ItemFacts
    <2>2. Len(j.path) \in 1..Len(x.path) /\ j.path[Len(j.path)] = x.path[Len(j.path)]
        <3>1. Len(j.path) <= Len(x.path) /\ \A n \in 1..Len(j.path) : j.path[n] = x.path[n]
            BY <1>2, <1>6, <2>1, PrefixOf DEF StartsWith
        <3> QED BY <1>2, <2>1, <3>1
    <2>3. Last(j.path) \notin Unnameable BY <1>4, <2>2 DEF Last, OddNames
    <2>4. j.is # "broken" BY <1>1, <1>6, BelowIsDir DEF IsFolder
    <2> QED BY <2>3, <2>4 DEF LeftOut
<1>7. source[k].path \in Seq(Names)
    <2>1. source[k] \in EntryType BY DEF TypeInv, GivenInv, IsListing
    <2> QED BY <2>1 DEF EntryType, Paths
<1>8. ~\E j \in volume : Bars(j, x) BY <1>1, <1>6, <1>7, NotBarred DEF Bars
<1>9. rootIs # "locked" BY DEF Hidden
<1> QED BY <1>3, <1>5, <1>8, <1>9 DEF Passed

LEMMA GetIsIt ==
    ASSUME TypeInv, ListInv, ~SinglesFold, CaseKeepsOddNames, phase \notin {"idle", "run"},
           folding = folds,
           NEW k \in 1..Len(source), ~Hidden(source[k].path),
           NEW x \in volume, Same(x.path, source[k].path, folds),
           x.is \in {"file", "dir", "locked"}
    PROVE  Get(source[k].path) = {EntryOf(x)}
<1> DEFINE p == source[k].path
           alike == {e \in dest : Same(e.path, p, folding)}
<1>1. DiskInv /\ folds \in Foldings BY DEF TypeInv, DiskInv
<1>2. EntryOf(x) \in dest /\ EntryOf(x).path = x.path BY DestHasIt DEF EntryOf, Entry
<1>3. ASSUME NEW e \in alike PROVE e = EntryOf(x)
    <2>1. IsListed(e) /\ Same(e.path, p, folds) BY <1>3 DEF ListInv, DestInv
    <2>2. PICK i \in volume : e = EntryOf(i) BY <2>1 DEF IsListed
    <2>3. Same(i.path, p, folds) BY <2>1, <2>2 DEF EntryOf, Entry
    <2>4. Same(i.path, x.path, folds) BY <1>1, <2>3, SameIsEquivalence
    <2> QED BY <1>1, <2>2, <2>4, OneItem
<1>4. alike = {EntryOf(x)} BY <1>2, <1>3
<1>5. ~Before(EntryOf(x).path, EntryOf(x).path)
    <2>1. x.path \in Seq(Names) BY <1>1, ItemFacts
    <2> QED BY <1>2, <2>1, BeforeIrreflexive
<1>6. Get(p) = {e \in alike : \A f \in alike : ~Before(f.path, e.path)} BY DEF Get
<1> HIDE DEF alike
<1> QED BY <1>4, <1>5, <1>6
-----------------------------------------------------------------------------
(* Places.  An entry that is put somewhere has claimed its name, and its   *)
(* folder was made or found before it.                                     *)

Claim(path, kind) == \E c \in claims : c.name = Fold(path) /\ c.kind = kind

ClaimInv ==
    folding = "insensitive" =>
        /\ \A j \in 1..Len(mkdirs) : Claim(mkdirs[j].path, "dir")
        /\ \A j \in 1..Len(files) : files[j].do = "copy" => Claim(files[j].path, "file")
        /\ \A i, j \in 1..Len(files) : files[i].do = "copy" /\ files[j].do = "copy" /\ i # j =>
                Fold(files[i].path) # Fold(files[j].path)
        /\ \A i \in 1..Len(mkdirs) : \A j \in 1..Len(files) : files[j].do = "copy" =>
                Fold(mkdirs[i].path) # Fold(files[j].path)

\* The folder of a path was found, or is among the first n that are made.
Housed(path, n) ==
    \/ Parent(path) = Root \/ Exists(Parent(path))
    \/ \E j \in 1..n : mkdirs[j].path = Parent(path)

HouseInv ==
    /\ \A j \in 1..Len(mkdirs) : Housed(mkdirs[j].path, j - 1)
    /\ \A j \in 1..Len(files) : files[j].do = "copy" => Housed(files[j].path, Len(mkdirs))

UnderBlock(path) == blocked # << >> /\ StartsWith(path, blocked[1].path)

\* A folder that is neither made nor found is blocked until its last entry.
BlockInv ==
    \A k \in 1..(at - 1) : source[k].kind = "dir" =>
        \/ IsMade(source[k].path) \/ Exists(source[k].path) \/ UnderBlock(source[k].path)
        \/ \A r \in at..Len(source) : ~StartsWith(source[r].path, source[k].path)

PlaceInv == phase \in {"decide", "ready"} => ClaimInv /\ HouseInv /\ BlockInv

LEMMA SourcePaths ==
    ASSUME TypeInv, NEW k \in 1..Len(source)
    PROVE  /\ source[k] \in EntryType /\ source[k].path \in Paths /\ source[k].path \in Seq(Names)
           /\ source[k].kind \in {"file", "dir"}
<1>1. source[k] \in EntryType BY DEF TypeInv, GivenInv, IsListing
<1> QED BY <1>1 DEF EntryType, Paths

LEMMA StartsTransitive ==
    ASSUME NEW p \in Seq(Names), NEW q \in Seq(Names), NEW r \in Seq(Names),
           StartsWith(r, q), StartsWith(q, p)
    PROVE  StartsWith(r, p)
<1>1. /\ Len(q) <= Len(r) /\ \A k \in 1..Len(q) : q[k] = r[k]
      /\ Len(p) <= Len(q) /\ \A k \in 1..Len(p) : p[k] = q[k]
    BY PrefixOf DEF StartsWith
<1>2. Len(p) <= Len(r) /\ \A k \in 1..Len(p) : p[k] = r[k] BY <1>1
<1> QED BY <1>2, PrefixOf DEF StartsWith

LEMMA BlockedPath ==
    ASSUME TypeInv, blocked # << >> PROVE blocked[1].path \in Seq(Names)
<1>1. blocked \in Seq(BlockedType) BY DEF TypeInv, DeciderInv
<1>2. blocked[1] \in BlockedType BY <1>1, EmptySeq
<1> QED BY <1>2 DEF BlockedType, Paths

\* An entry that is not blocked lies in the root or in a folder made or found.
LEMMA EntryIsHoused ==
    ASSUME TypeInv, BlockInv, at <= Len(source), ~IsBlocked(entry)
    PROVE  Housed(entry.path, Len(mkdirs))
<1> DEFINE p == source[at].path
<1>1. at \in 1..Len(source) /\ entry.path = p /\ p \in Paths /\ p \in Seq(Names)
      /\ Len(source) \in Nat /\ IsListing(source)
    <2>1. IsListing(source) BY DEF TypeInv, GivenInv
    <2>2. Len(source) \in Nat BY <2>1 DEF IsListing
    <2> QED BY <2>1, <2>2, EntryIs DEF Paths
<1> HIDE DEF p
<1>2. /\ Len(p) \in Nat /\ Len(p) >= 1
      /\ Parent(p) \in Seq(Names) /\ Len(Parent(p)) = Len(p) - 1
    <2>1. /\ Len(p) \in Nat \ {0} /\ Parent(p) \in Seq(Names) /\ Len(Parent(p)) = Len(p) - 1
        BY <1>1, FrontOf
    <2> QED BY <2>1
<1>s. Parent(p) = SubSeq(p, 1, Len(p) - 1) BY <1>1, FrontOf
<1>3. CASE Len(p) = 1
    <2>1. Len(Parent(p)) = 0 BY <1>2, <1>3
    <2>2. Parent(p) = << >> BY <1>2, <2>1
    <2> QED BY <1>1, <2>2 DEF Housed, Root
<1>4. CASE Len(p) # 1
    <2>1. Len(p) - 1 \in 1..(Len(p) - 1) BY <1>2, <1>4
    <2>2. PICK k \in 1..Len(source) : source[k].path = Parent(p) /\ source[k].kind = "dir"
        BY <1>1, <1>s, <2>1 DEF IsListing, p
    <2>3. StartsWith(p, Parent(p)) /\ p # Parent(p)
        <3>1. \A n \in 1..(Len(p) - 1) : Parent(p)[n] = p[n]
            <4>1. Len(p) - 1 \in 0..Len(p) BY <1>2
            <4> QED BY <1>1, <1>s, <4>1, UpToType
        <3>2. IsPrefix(Parent(p), p) BY <1>1, <1>2, <3>1, PrefixOf
        <3>3. Len(p) # Len(Parent(p)) BY <1>2
        <3> QED BY <3>2, <3>3 DEF StartsWith
    <2>4. Before(Parent(p), p) BY <2>3 DEF Before, IsStrictPrefix, StartsWith
    <2>5. ~Before(p, Parent(p)) BY <1>1, <1>2, <2>4, BeforeTransitive, BeforeIrreflexive
    <2>6. k # at BY <2>2, <2>3 DEF p
    <2>7. ~(at < k) BY <1>1, <2>2, <2>5, EarlierIsBefore DEF p
    <2>8. k \in 1..(at - 1) BY <1>1, <2>6, <2>7
    <2>9. at \in at..Len(source) BY <1>1
    <2>10. \/ IsMade(Parent(p)) \/ Exists(Parent(p)) \/ UnderBlock(Parent(p))
        BY <2>2, <2>3, <2>8, <2>9 DEF BlockInv, p
    <2>11. ~UnderBlock(Parent(p))
        <3> SUFFICES ASSUME UnderBlock(Parent(p)) PROVE FALSE OBVIOUS
        <3>1. blocked # << >> /\ StartsWith(Parent(p), blocked[1].path) BY DEF UnderBlock
        <3>2. StartsWith(p, blocked[1].path) BY <1>1, <1>2, <2>3, <3>1, BlockedPath, StartsTransitive
        <3> QED BY <1>1, <3>1, <3>2 DEF IsBlocked
    <2> QED BY <1>1, <2>10, <2>11 DEF Housed, IsMade
<1> QED BY <1>3, <1>4

LEMMA DecisionKeepsBlock ==
    ASSUME TypeInv, BlockInv, Decision
    PROVE  BlockInv'
<1>0. /\ phase = "decide" /\ at <= Len(source) /\ at' = at + 1
      /\ source' = source /\ dest' = dest /\ folding' = folding
    BY DEF Decision, given
<1>1. at \in 1..Len(source) /\ entry = source[at] /\ Len(source) \in Nat
      /\ source[at].kind \in {"file", "dir"} /\ source[at].path \in Seq(Names)
    <2>1. Len(source) \in Nat BY DEF TypeInv, GivenInv, IsListing
    <2> QED BY <1>0, <2>1, EntryIs, SourcePaths
<1>m. mkdirs \in Seq(ActionType({"mkdir"})) BY DEF TypeInv, DeciderInv
<1>2. \A k : IsMade(source[k].path) => IsMade(source[k].path)'
    <2> SUFFICES ASSUME NEW k, NEW j \in 1..Len(mkdirs), mkdirs[j].path = source[k].path
                 PROVE  \E i \in 1..Len(mkdirs') : mkdirs'[i].path = source[k].path
        BY <1>0 DEF IsMade
    <2>1. CASE mkdirs' = mkdirs BY <2>1
    <2>2. CASE Made
        <3>1. "none" \in Reasons BY DEF Reasons
        <3>2. Action("mkdir", entry, 0, "none") \in ActionType({"mkdir"})
            BY <1>0, <3>1, EntryIs, ActionTyped
        <3>3. j \in 1..Len(mkdirs') /\ mkdirs'[j] = mkdirs[j]
            BY <1>m, <2>2, <3>2, Appended DEF Made
        <3> QED BY <3>3
    <2> QED BY <2>1, <2>2 DEF Decision, Found, Copied, Skipped
<1>3. \A k : Exists(source[k].path)' = Exists(source[k].path) BY <1>0 DEF Get, Exists
<1>4. ASSUME NEW k \in 1..(at - 1), source[k].kind = "dir"
      PROVE  \/ IsMade(source[k].path)' \/ Exists(source[k].path)' \/ UnderBlock(source[k].path)'
             \/ \A r \in (at + 1)..Len(source) : ~StartsWith(source[r].path, source[k].path)
    <2>1. CASE UnderBlock(source[k].path) /\ IsBlocked(entry)
        <3>1. blocked' = blocked BY <2>1 DEF Decision, Made, Found, Copied, Skipped, Open
        <3>2. UnderBlock(source[k].path)' BY <1>0, <2>1, <3>1 DEF UnderBlock
        <3> QED BY <3>2
    <2>2. CASE UnderBlock(source[k].path) /\ ~IsBlocked(entry)
        <3> SUFFICES ASSUME NEW r \in (at + 1)..Len(source), StartsWith(source[r].path, source[k].path)
                     PROVE  FALSE
            OBVIOUS
        <3>1. k \in 1..Len(source) /\ r \in 1..Len(source) /\ k < at /\ at < r BY <1>1
        <3>2. Before(source[k].path, source[at].path) /\ Before(source[at].path, source[r].path)
            BY <1>1, <3>1, EarlierIsBefore
        <3>3. source[k].path \in Seq(Names) /\ source[r].path \in Seq(Names) BY <3>1, SourcePaths
        <3>4. StartsWith(source[at].path, source[k].path) BY <1>1, <3>2, <3>3, BetweenIsBeneath
        <3>5. blocked # << >> /\ StartsWith(source[k].path, blocked[1].path) BY <2>2 DEF UnderBlock
        <3>6. StartsWith(source[at].path, blocked[1].path)
            BY <1>1, <3>3, <3>4, <3>5, BlockedPath, StartsTransitive
        <3> QED BY <1>1, <2>2, <3>5, <3>6 DEF IsBlocked
    <2>3. CASE \A r \in at..Len(source) : ~StartsWith(source[r].path, source[k].path)
        <3>1. \A r \in (at + 1)..Len(source) : r \in at..Len(source) BY <1>1
        <3> QED BY <2>3, <3>1
    <2> QED BY <1>2, <1>3, <1>4, <2>1, <2>2, <2>3 DEF BlockInv
<1>5. ASSUME NEW k, k = at, source[k].kind = "dir"
      PROVE  IsMade(source[k].path)' \/ Exists(source[k].path)' \/ UnderBlock(source[k].path)'
    <2>1. CASE Made
        <3>1. "none" \in Reasons BY DEF Reasons
        <3>2. Action("mkdir", entry, 0, "none") \in ActionType({"mkdir"})
            BY <1>0, <3>1, EntryIs, ActionTyped
        <3>3. /\ Len(mkdirs) + 1 \in 1..Len(mkdirs')
              /\ mkdirs'[Len(mkdirs) + 1] = Action("mkdir", entry, 0, "none")
            BY <1>m, <2>1, <3>2, Appended DEF Made
        <3>4. mkdirs'[Len(mkdirs) + 1].path = source[k].path BY <1>1, <1>5, <3>3 DEF Action
        <3>5. \E j \in 1..Len(mkdirs') : mkdirs'[j].path = source[k].path BY <3>3, <3>4
        <3> QED BY <1>0, <3>5 DEF IsMade
    <2>2. CASE Found BY <1>1, <1>3, <1>5, <2>2 DEF Found
    <2>3. CASE Copied BY <1>1, <1>5, <2>3 DEF Copied
    <2>4. CASE Skipped
        <3>1. CASE IsBlocked(entry) /\ blocked' = blocked
            <4>1. blocked # << >> /\ StartsWith(source[k].path, blocked[1].path)
                BY <1>1, <1>5, <3>1 DEF IsBlocked
            <4> QED BY <1>0, <3>1, <4>1 DEF UnderBlock
        <3>2. CASE blocked' # << >> /\ blocked'[1].path = entry.path
            <4>1. StartsWith(source[k].path, source[k].path) BY <1>1, <1>5, StartsSelf
            <4>2. blocked'[1].path = source[k].path BY <1>1, <1>5, <3>2
            <4> QED BY <1>0, <3>2, <4>1, <4>2 DEF UnderBlock
        <3> QED BY <1>1, <1>5, <2>4, <3>1, <3>2 DEF Skipped
    <2> QED BY <2>1, <2>2, <2>3, <2>4 DEF Decision
<1>6. \A k \in 1..(at' - 1) : k \in 1..(at - 1) \/ k = at BY <1>0, <1>1
<1>7. ASSUME NEW k \in 1..(at' - 1), source[k].kind = "dir"
      PROVE  \/ IsMade(source[k].path)' \/ Exists(source[k].path)' \/ UnderBlock(source[k].path)'
             \/ \A r \in at'..Len(source) : ~StartsWith(source[r].path, source[k].path)
    BY <1>0, <1>4, <1>5, <1>6, <1>7
<1> QED BY <1>0, <1>7 DEF BlockInv

LEMMA DecisionKeepsHouse ==
    ASSUME TypeInv, HouseInv, BlockInv, Decision
    PROVE  HouseInv'
<1>0. /\ phase = "decide" /\ at <= Len(source) /\ dest' = dest /\ folding' = folding
    BY DEF Decision, given
<1>m. /\ mkdirs \in Seq(ActionType({"mkdir"})) /\ files \in Seq(ActionType({"copy", "skip"}))
      /\ partials \subseteq PartialType
    BY DEF TypeInv, DeciderInv, GivenInv
<1>l. Len(mkdirs) \in Nat BY <1>m
<1>e. entry \in EntryType BY <1>0, EntryIs
<1>x. \A path : Exists(path)' = Exists(path) BY <1>0 DEF Get, Exists
<1> DEFINE In(path, made, n) ==
        \/ Parent(path) = Root \/ Exists(Parent(path))
        \/ \E j \in 1..n : made[j].path = Parent(path)
<1>i. \A path, n : Housed(path, n) = In(path, mkdirs, n) BY DEF Housed
<1>j. ASSUME /\ \A j \in 1..Len(mkdirs') : In(mkdirs'[j].path, mkdirs', j - 1)
             /\ \A j \in 1..Len(files') : files'[j].do = "copy" => In(files'[j].path, mkdirs', Len(mkdirs'))
      PROVE  HouseInv'
    BY <1>0, <1>j DEF HouseInv, Housed, Exists, Get
<1>h. /\ \A j \in 1..Len(mkdirs) : In(mkdirs[j].path, mkdirs, j - 1)
      /\ \A j \in 1..Len(files) : files[j].do = "copy" => In(files[j].path, mkdirs, Len(mkdirs))
    BY <1>i DEF HouseInv
<1>n. ~IsBlocked(entry) => In(entry.path, mkdirs, Len(mkdirs)) BY <1>0, <1>i, EntryIsHoused
<1>1. CASE Found BY <1>h, <1>j, <1>1 DEF Found
<1>2. CASE Made
    <2> DEFINE a == Action("mkdir", entry, 0, "none")
    <2>0. "none" \in Reasons BY DEF Reasons
    <2>1. a \in ActionType({"mkdir"}) /\ a.path = entry.path BY <1>e, <2>0, ActionTyped DEF Action
    <2>2. mkdirs' = Append(mkdirs, a) /\ files' = files /\ ~IsBlocked(entry) BY <1>2 DEF Made, Open
    <2> HIDE DEF a
    <2>3. /\ 1..Len(mkdirs') = 1..Len(mkdirs) \cup {Len(mkdirs) + 1} /\ Len(mkdirs') = Len(mkdirs) + 1
          /\ \A i \in 1..Len(mkdirs) : mkdirs'[i] = mkdirs[i]
          /\ mkdirs'[Len(mkdirs) + 1] = a
        BY <1>m, <2>1, <2>2, Appended
    <2>4. ASSUME NEW path, NEW n \in 0..Len(mkdirs), NEW k \in n..Len(mkdirs'), In(path, mkdirs, n)
          PROVE  In(path, mkdirs', k)
        <3> SUFFICES ASSUME NEW j \in 1..n, mkdirs[j].path = Parent(path)
                     PROVE  \E i \in 1..k : mkdirs'[i].path = Parent(path)
            BY <2>4
        <3>1. j \in 1..Len(mkdirs) /\ j \in 1..k BY <1>l, <2>3
        <3> QED BY <2>3, <3>1
    <2>5. ASSUME NEW j \in 1..Len(mkdirs') PROVE In(mkdirs'[j].path, mkdirs', j - 1)
        <3> HIDE DEF In
        <3>1. CASE j \in 1..Len(mkdirs)
            <4>1. j - 1 \in 0..Len(mkdirs) /\ j - 1 \in (j - 1)..Len(mkdirs') BY <1>l, <2>3, <3>1
            <4> QED BY <1>h, <2>3, <2>4, <3>1, <4>1
        <3>2. CASE j = Len(mkdirs) + 1
            <4>1. /\ Len(mkdirs) \in 0..Len(mkdirs) /\ Len(mkdirs) \in Len(mkdirs)..Len(mkdirs')
                  /\ j - 1 = Len(mkdirs)
                BY <1>l, <2>3, <3>2
            <4>2. In(mkdirs'[j].path, mkdirs, Len(mkdirs)) BY <1>n, <2>1, <2>2, <2>3, <3>2
            <4> QED BY <2>4, <4>1, <4>2
        <3> QED BY <2>3, <3>1, <3>2
    <2>6. ASSUME NEW j \in 1..Len(files'), files'[j].do = "copy"
          PROVE  In(files'[j].path, mkdirs', Len(mkdirs'))
        <3> HIDE DEF In
        <3>1. Len(mkdirs) \in 0..Len(mkdirs) /\ Len(mkdirs') \in Len(mkdirs)..Len(mkdirs') BY <1>l, <2>3
        <3>2. In(files'[j].path, mkdirs, Len(mkdirs)) BY <1>h, <2>2, <2>6
        <3> QED BY <2>4, <3>1, <3>2
    <2> HIDE DEF In
    <2> QED BY <1>j, <2>5, <2>6
<1> HIDE DEF In
<1>3. ASSUME NEW a \in ActionType({"copy", "skip"}), files' = Append(files, a), mkdirs' = mkdirs,
             a.do = "copy" => In(a.path, mkdirs, Len(mkdirs))
      PROVE  HouseInv'
    <2>3. /\ 1..Len(files') = 1..Len(files) \cup {Len(files) + 1}
          /\ \A i \in 1..Len(files) : files'[i] = files[i]
          /\ files'[Len(files) + 1] = a
        BY <1>m, <1>3, Appended
    <2> QED BY <1>h, <1>j, <1>3, <2>3
<1>4. CASE Copied
    <2>1. PICK reason \in {"new", "differs"} : files' = Append(files, Copy(entry, reason))
        BY <1>4 DEF Copied
    <2>2. Copy(entry, reason) \in ActionType({"copy", "skip"}) /\ Copy(entry, reason).path = entry.path
        BY <1>e, <1>m, CopyTyped DEF Copy, Action, Reasons
    <2> QED BY <1>3, <1>4, <1>n, <2>1, <2>2 DEF Copied, Open
<1>5. CASE Skipped
    <2>1. PICK reason \in Reasons : files' = Append(files, Skip(entry, reason)) BY <1>5 DEF Skipped
    <2>2. Skip(entry, reason) \in ActionType({"copy", "skip"}) BY <1>e, SkipTyped
    <2>3. Skip(entry, reason).do # "copy" BY DEF Skip, Action
    <2> QED BY <1>3, <1>5, <2>1, <2>2, <2>3 DEF Skipped
<1> QED BY <1>1, <1>2, <1>4, <1>5 DEF Decision

LEMMA DecisionKeepsClaims ==
    ASSUME TypeInv, ClaimInv, Decision
    PROVE  ClaimInv'
<1>0. /\ phase = "decide" /\ at <= Len(source) /\ folding' = folding
    BY DEF Decision, given
<1>m. /\ mkdirs \in Seq(ActionType({"mkdir"})) /\ files \in Seq(ActionType({"copy", "skip"}))
      /\ partials \subseteq PartialType
    BY DEF TypeInv, DeciderInv, GivenInv
<1>e. entry \in EntryType /\ entry.kind \in {"file", "dir"} BY <1>0, EntryIs
<1> SUFFICES ASSUME folding = "insensitive" PROVE ClaimInv' BY <1>0 DEF ClaimInv
<1>1. claims \subseteq claims'
    BY DEF Decision, Made, Found, Copied, Skipped, Open, Claimed
<1>2. \A path, kind : Claim(path, kind) => \E c \in claims' : c.name = Fold(path) /\ c.kind = kind
    BY <1>1 DEF Claim
<1>3. ASSUME Open
      PROVE  /\ \E c \in claims' : c.name = Fold(entry.path) /\ c.kind = entry.kind
             /\ \A path, kind : Claim(path, kind) /\ Fold(path) = Fold(entry.path)
                    => kind = "dir" /\ entry.kind = "dir"
    <2>1. \A c \in claims : c.name = Fold(entry.path) => entry.kind = "dir" /\ c.kind = "dir"
        BY <1>3 DEF Open, Collides
    <2>2. CASE \E c \in claims : c.name = Fold(entry.path) BY <1>1, <2>1, <2>2 DEF Claim
    <2>3. CASE ~\E c \in claims : c.name = Fold(entry.path)
        <3>1. claims' = claims \cup {[name |-> Fold(entry.path), kind |-> entry.kind]}
            BY <1>3, <2>3 DEF Open, Claimed
        <3> DEFINE c == [name |-> Fold(entry.path), kind |-> entry.kind]
        <3>2. c \in claims' /\ c.name = Fold(entry.path) /\ c.kind = entry.kind BY <3>1
        <3>3. \A path, kind : Claim(path, kind) => Fold(path) # Fold(entry.path) BY <2>3 DEF Claim
        <3> QED BY <3>2, <3>3
    <2> QED BY <2>2, <2>3
<1>4. CASE Found
    <2>1. mkdirs' = mkdirs /\ files' = files BY <1>4 DEF Found
    <2>2. \A j \in 1..Len(mkdirs') : \E c \in claims' : c.name = Fold(mkdirs'[j].path) /\ c.kind = "dir"
        BY <1>2, <2>1 DEF ClaimInv
    <2>3. \A j \in 1..Len(files') : files'[j].do = "copy" =>
                \E c \in claims' : c.name = Fold(files'[j].path) /\ c.kind = "file"
        BY <1>2, <2>1 DEF ClaimInv
    <2> QED BY <2>1, <2>2, <2>3 DEF ClaimInv, Claim
<1>5. CASE Made
    <2> DEFINE a == Action("mkdir", entry, 0, "none")
    <2>0. "none" \in Reasons BY DEF Reasons
    <2>1. a \in ActionType({"mkdir"}) /\ a.path = entry.path BY <1>e, <2>0, ActionTyped DEF Action
    <2>2. mkdirs' = Append(mkdirs, a) /\ files' = files /\ Open /\ entry.kind = "dir" BY <1>5 DEF Made
    <2> HIDE DEF a
    <2>3. /\ 1..Len(mkdirs') = 1..Len(mkdirs) \cup {Len(mkdirs) + 1}
          /\ \A i \in 1..Len(mkdirs) : mkdirs'[i] = mkdirs[i]
          /\ mkdirs'[Len(mkdirs) + 1] = a
        BY <1>m, <2>1, <2>2, Appended
    <2>4. \A j \in 1..Len(mkdirs') : \E c \in claims' : c.name = Fold(mkdirs'[j].path) /\ c.kind = "dir"
        BY <1>2, <1>3, <2>1, <2>2, <2>3 DEF ClaimInv
    <2>5. \A j \in 1..Len(files) : files[j].do = "copy" => Claim(files[j].path, "file") BY DEF ClaimInv
    <2>6. \A j \in 1..Len(files) : files[j].do = "copy" => Fold(files[j].path) # Fold(a.path)
        BY <1>3, <2>1, <2>2, <2>5
    <2>7. \A i \in 1..Len(mkdirs') : \A j \in 1..Len(files') : files'[j].do = "copy" =>
                Fold(mkdirs'[i].path) # Fold(files'[j].path)
        BY <2>2, <2>3, <2>6 DEF ClaimInv
    <2>8. \A j \in 1..Len(files') : files'[j].do = "copy" =>
                \E c \in claims' : c.name = Fold(files'[j].path) /\ c.kind = "file"
        BY <1>2, <2>2, <2>5
    <2>9. \A i, j \in 1..Len(files') : files'[i].do = "copy" /\ files'[j].do = "copy" /\ i # j =>
                Fold(files'[i].path) # Fold(files'[j].path)
        BY <2>2 DEF ClaimInv
    <2> QED BY <2>4, <2>7, <2>8, <2>9 DEF ClaimInv, Claim
<1>6. ASSUME NEW a \in ActionType({"copy", "skip"}), files' = Append(files, a), mkdirs' = mkdirs,
             a.do = "copy" => Open /\ entry.kind = "file" /\ a.path = entry.path
      PROVE  ClaimInv'
    <2>3. /\ 1..Len(files') = 1..Len(files) \cup {Len(files) + 1}
          /\ \A i \in 1..Len(files) : files'[i] = files[i]
          /\ files'[Len(files) + 1] = a
        BY <1>m, <1>6, Appended
    <2>4. \A j \in 1..Len(mkdirs') : \E c \in claims' : c.name = Fold(mkdirs'[j].path) /\ c.kind = "dir"
        BY <1>2, <1>6 DEF ClaimInv
    <2>5. /\ \A j \in 1..Len(files) : files[j].do = "copy" => Claim(files[j].path, "file")
          /\ \A j \in 1..Len(mkdirs) : Claim(mkdirs[j].path, "dir")
        BY DEF ClaimInv
    <2>6. a.do = "copy" =>
            /\ \A j \in 1..Len(files) : files[j].do = "copy" => Fold(files[j].path) # Fold(a.path)
            /\ \A j \in 1..Len(mkdirs) : Fold(mkdirs[j].path) # Fold(a.path)
        BY <1>3, <1>6, <2>5
    <2>7. \A i \in 1..Len(mkdirs') : \A j \in 1..Len(files') : files'[j].do = "copy" =>
                Fold(mkdirs'[i].path) # Fold(files'[j].path)
        BY <1>6, <2>3, <2>6 DEF ClaimInv
    <2>8. \A j \in 1..Len(files') : files'[j].do = "copy" =>
                \E c \in claims' : c.name = Fold(files'[j].path) /\ c.kind = "file"
        BY <1>2, <1>3, <1>6, <2>3, <2>5
    <2>9. \A i, j \in 1..Len(files') : files'[i].do = "copy" /\ files'[j].do = "copy" /\ i # j =>
                Fold(files'[i].path) # Fold(files'[j].path)
        BY <2>3, <2>6 DEF ClaimInv
    <2> QED BY <2>4, <2>7, <2>8, <2>9 DEF ClaimInv, Claim
<1>7. CASE Copied
    <2>1. PICK reason \in {"new", "differs"} : files' = Append(files, Copy(entry, reason))
        BY <1>7 DEF Copied
    <2>2. Copy(entry, reason) \in ActionType({"copy", "skip"}) /\ Copy(entry, reason).path = entry.path
        BY <1>e, <1>m, CopyTyped DEF Copy, Action, Reasons
    <2> QED BY <1>6, <1>7, <2>1, <2>2 DEF Copied
<1>8. CASE Skipped
    <2>1. PICK reason \in Reasons : files' = Append(files, Skip(entry, reason)) BY <1>8 DEF Skipped
    <2>2. Skip(entry, reason) \in ActionType({"copy", "skip"}) BY <1>e, SkipTyped
    <2>3. Skip(entry, reason).do # "copy" BY DEF Skip, Action
    <2> QED BY <1>6, <1>8, <2>1, <2>2, <2>3 DEF Skipped
<1> QED BY <1>4, <1>5, <1>7, <1>8 DEF Decision

LEMMA PlaceBegin ==
    ASSUME phase' # "ready", at' = 1, mkdirs' = << >>, files' = << >>
    PROVE  PlaceInv'
<1>1. 1..(at' - 1) = {} /\ 1..Len(mkdirs') = {} /\ 1..Len(files') = {} BY SMT
<1>2. ClaimInv' BY <1>1 DEF ClaimInv
<1>3. HouseInv' BY <1>1 DEF HouseInv
<1>4. BlockInv' BY <1>1 DEF BlockInv
<1> QED BY <1>2, <1>3, <1>4 DEF PlaceInv

LEMMA PlaceStep == TypeInv /\ PlaceInv /\ [Next]_vars => PlaceInv'
<1> SUFFICES ASSUME TypeInv, PlaceInv, [Next]_vars PROVE PlaceInv' OBVIOUS
<1>1. ASSUME given' = given, decider' = decider, phase' \in {"decide", "ready"} => phase \in {"decide", "ready"}
      PROVE  PlaceInv'
    BY <1>1 DEF given, decider, PlaceInv, ClaimInv, HouseInv, BlockInv, Claim, Housed, UnderBlock,
                IsMade, Exists, Get
<1>2. CASE UNCHANGED vars \/ Cancel \/ Scan
    BY <1>1, <1>2 DEF vars, Cancel, Scan, plannerVars
<1>3. CASE Begin
    <2>1. phase' \in {"collect", "decide"} /\ decider' = decider /\ Blank
        BY <1>3 DEF Begin, BeginPlan, TypeInv, PhaseInv
    <2> QED BY <2>1, PlaceBegin DEF decider, Blank
<1>4. CASE Plan
    <2>1. CASE CollectConflict BY <2>1 DEF CollectConflict, More, PlaceInv
    <2>2. CASE EndCollect
        <3>1. mkdirs' = << >> /\ files' = << >> BY <2>2 DEF EndCollect, TypeInv, PhaseInv
        <3> QED BY <2>2, <3>1, PlaceBegin DEF EndCollect
    <2>3. CASE EndDecide BY <1>1, <2>3 DEF EndDecide
    <2>4. CASE Decision
        <3>1. ClaimInv /\ HouseInv /\ BlockInv BY <2>4 DEF Decision, PlaceInv
        <3> QED BY <2>4, <3>1, DecisionKeepsClaims, DecisionKeepsHouse, DecisionKeepsBlock DEF PlaceInv
    <2> QED BY <1>4, <2>1, <2>2, <2>3, <2>4, PlanKinds
<1>5. CASE RunAction BY <1>5 DEF RunAction, PlaceInv
<1>6. CASE RunAgain BY <1>6 DEF RunAgain, PlaceInv
<1> QED BY <1>2, <1>3, <1>4, <1>5, <1>6 DEF Next

LEMMA PlaceInit == Init => PlaceInv
<1> QED BY DEF Init, PlaceInv

\* What an action of a plan that puts something somewhere is.
LEMMA PutsAre ==
    ASSUME TypeInv, FatesInv, PlaceInv, phase = "ready", NEW i \in Done({"copy", "mkdir"})
    PROVE  /\ \/ i \in 1..Len(mkdirs) /\ Actions[i] = mkdirs[i] /\ Actions[i].do = "mkdir"
              \/ /\ i - Len(mkdirs) \in 1..Len(files) /\ Actions[i] = files[i - Len(mkdirs)]
                 /\ Actions[i].do = "copy"
           /\ Actions[i].path \in Paths /\ i \in Nat
           /\ \E k \in 1..Len(source) :
                /\ Actions[i].path = source[k].path
                /\ Actions[i].do = "mkdir" => Get(source[k].path) = {}
                /\ ~Exists(source[k].path)
<1>1. Len(mkdirs) \in Nat /\ Len(files) \in Nat BY DEF TypeInv, DeciderInv
<1>2. /\ DOMAIN Actions = 1..(Len(mkdirs) + Len(files))
      /\ \A k \in 1..Len(mkdirs) : Actions[k] = mkdirs[k] /\ mkdirs[k] \in ActionType({"mkdir"})
      /\ \A k \in 1..Len(files) :
            Actions[Len(mkdirs) + k] = files[k] /\ files[k] \in ActionType({"copy", "skip"})
    BY ActionsAre DEF TypeInv
<1>3. i \in 1..(Len(mkdirs) + Len(files)) /\ Actions[i].do \in {"copy", "mkdir"} BY <1>2 DEF Done
<1>4. at = Len(source) + 1 /\ MadeFrom /\ ActedFrom BY DEF FatesInv
<1>5. 1..(at - 1) = 1..Len(source) BY <1>4 DEF TypeInv, GivenInv, IsListing
<1>6. CASE i \in 1..Len(mkdirs)
    <2>1. Actions[i] = mkdirs[i] /\ mkdirs[i] \in ActionType({"mkdir"}) BY <1>2, <1>6
    <2>2. Actions[i].do = "mkdir" /\ Actions[i].path \in Paths BY <2>1 DEF ActionType
    <2>3. PICK k \in 1..Len(source) : mkdirs[i].path = source[k].path /\ Get(source[k].path) = {}
        BY <1>4, <1>5, <1>6 DEF MadeFrom
    <2>4. ~Exists(source[k].path) BY <2>3 DEF Exists
    <2> QED BY <1>3, <1>6, <2>1, <2>2, <2>3, <2>4
<1>7. CASE i \notin 1..Len(mkdirs)
    <2> DEFINE j == i - Len(mkdirs)
    <2>0. j \in 1..Len(files) /\ Len(mkdirs) + j = i BY <1>1, <1>3, <1>7
    <2> HIDE DEF j
    <2>1. Actions[i] = files[j] /\ files[j] \in ActionType({"copy", "skip"}) BY <1>2, <2>0
    <2>2. Actions[i].do = "copy" /\ Actions[i].path \in Paths BY <1>3, <2>1 DEF ActionType
    <2>3. PICK k \in 1..Len(source) : files[j].path = source[k].path /\ ~Exists(source[k].path)
        <3>1. PICK k \in 1..(at - 1) :
                /\ files[j].path = source[k].path
                /\ files[j].do = "copy" => source[k].kind = "file" /\ ~Exists(source[k].path)
            BY <1>4, <2>0 DEF ActedFrom
        <3> QED BY <1>5, <2>1, <2>2, <3>1
    <2>4. i \in Nat BY <1>3
    <2> QED BY <2>0, <2>1, <2>2, <2>3, <2>4 DEF j
<1> QED BY <1>6, <1>7

\* Whatever the two sides hold and whichever the policy, where the scan learned
\* how the volume compares names: no two things a plan puts somewhere are one name
\* there, folders that merge aside, each has a folder to land in, and, but for what
\* lies in folders the scan could not list, no file takes the place of a folder nor
\* a folder that of a file.  Left out: a file pulled by name to a volume that folds
\* names, and names that differ by case from those of a transfer's own files.
THEOREM PlansHavePlaces ==
    ASSUME ~SinglesFold, CaseKeepsOddNames
    PROVE  Spec => []EverythingHasAPlace
<1>1. TypeInv /\ ListInv /\ FatesInv /\ PlaceInv => EverythingHasAPlace
    <2> SUFFICES ASSUME TypeInv, ListInv, FatesInv, PlaceInv, phase = "ready", folding = folds,
                        NEW i \in Done({"copy", "mkdir"})
                 PROVE  /\ \A j \in Done({"copy", "mkdir"}) \ {i} :
                            Same(Actions[i].path, Actions[j].path, folds) =>
                                Actions[i].do = "mkdir" /\ Actions[j].do = "mkdir"
                        /\ \/ HasFolder(volume, Parent(Actions[i].path))
                           \/ \E j \in 1..(i - 1) :
                                /\ Actions[j].do = "mkdir"
                                /\ Same(Actions[j].path, Parent(Actions[i].path), folds)
                        /\ ~Hidden(Actions[i].path) =>
                            /\ ~HasFolder(volume, Actions[i].path)
                            /\ \A x \in AtIn(volume, Actions[i].path) :
                                x.is = "file" => Actions[i].do = "copy"
        BY DEF EverythingHasAPlace, FoldingKnown
    <2> DEFINE p == Actions[i].path
    <2>0. /\ Len(mkdirs) \in Nat /\ folds \in Foldings /\ DiskInv /\ ClaimInv /\ HouseInv /\ NotTwice
          /\ phase \notin {"idle", "run"}
        BY DEF TypeInv, DeciderInv, DiskInv, PlaceInv, FatesInv
    <2>1. /\ \/ i \in 1..Len(mkdirs) /\ Actions[i] = mkdirs[i] /\ Actions[i].do = "mkdir"
             \/ /\ i - Len(mkdirs) \in 1..Len(files) /\ Actions[i] = files[i - Len(mkdirs)]
                /\ Actions[i].do = "copy"
          /\ p \in Paths /\ i \in Nat
        BY PutsAre
    <2>k. PICK k \in 1..Len(source) : /\ p = source[k].path
                                      /\ Actions[i].do = "mkdir" => Get(source[k].path) = {}
                                      /\ ~Exists(source[k].path)
        BY PutsAre
    <2>e. ~Exists(p) /\ (Actions[i].do = "mkdir" => Get(p) = {}) BY <2>k
    <2>2. ASSUME ~Hidden(p), NEW x \in volume, Same(x.path, p, folds), x.is \in {"file", "dir", "locked"}
          PROVE  Get(p) = {EntryOf(x)}
        <3>1. p = source[k].path BY <2>k
        <3>2. Same(x.path, source[k].path, folds) BY <2>2, <3>1
        <3>3. Get(source[k].path) = {EntryOf(x)} BY <2>0, <2>2, <3>1, <3>2, GetIsIt
        <3> QED BY <3>1, <3>3
    <2>3. ASSUME ~Hidden(p) PROVE ~HasFolder(volume, p)
        <3> SUFFICES ASSUME NEW x \in AtIn(volume, p), IsFolder(x) PROVE FALSE
            BY <2>1 DEF HasFolder, Paths
        <3>1. x \in volume /\ Same(x.path, p, folds) /\ x.is \in {"dir", "locked"} BY DEF AtIn, IsFolder
        <3>2. EntryOf(x) \in Get(p) BY <2>2, <2>3, <3>1
        <3>3. EntryOf(x).kind = "dir" BY <3>1 DEF EntryOf, Entry, KindOf
        <3>4. Exists(p) BY <3>2, <3>3 DEF Exists
        <3> QED BY <2>e, <3>4
    <2>4. ASSUME ~Hidden(p), NEW x \in AtIn(volume, p), x.is = "file" PROVE Actions[i].do = "copy"
        <3>1. EntryOf(x) \in Get(p) BY <2>2, <2>4 DEF AtIn
        <3>2. Get(p) # {} BY <3>1
        <3>3. Actions[i].do \in {"mkdir", "copy"} BY <2>1
        <3> QED BY <2>e, <3>2, <3>3
    <2>5. HasFolder(volume, Parent(p))
            \/ \E j \in 1..(i - 1) : /\ Actions[j].do = "mkdir"
                                     /\ Same(Actions[j].path, Parent(p), folds)
        <3> DEFINE q == Parent(p)
        <3>1. CASE Exists(q)
            <4>1. PICK e \in dest : Same(e.path, q, folds) /\ e.kind = "dir" BY <3>1 DEF Exists, Get
            <4>2. PICK x \in volume : x.is \in {"file", "dir", "locked"} /\ e = EntryOf(x)
                BY <2>0, <4>1 DEF ListInv, DestInv, IsListed
            <4>3. x.is \in {"dir", "locked"} /\ x.path = e.path
                BY <4>1, <4>2 DEF EntryOf, Entry, KindOf
            <4> QED BY <4>1, <4>3 DEF HasFolder, AtIn, IsFolder
        <3>2. ASSUME NEW n \in 0..Len(mkdirs), n < i, NEW j \in 1..n, mkdirs[j].path = q
              PROVE  \E m \in 1..(i - 1) : Actions[m].do = "mkdir" /\ Same(Actions[m].path, q, folds)
            <4>1. j \in 1..(i - 1) /\ j \in 1..Len(mkdirs) BY <2>0, <2>1, <3>2
            <4>2. Actions[j] = mkdirs[j] /\ mkdirs[j] \in ActionType({"mkdir"})
                BY <4>1, ActionsAre DEF TypeInv
            <4>3. Actions[j].do = "mkdir" BY <4>2 DEF ActionType
            <4>4. Same(Actions[j].path, q, folds) BY <2>0, <3>2, <4>2, SameIsEquivalence
            <4> QED BY <4>1, <4>3, <4>4
        <3>3. CASE q = Root BY <3>3 DEF HasFolder
        <3>4. CASE i \in 1..Len(mkdirs) /\ Actions[i] = mkdirs[i]
            <4>1. Housed(p, i - 1) BY <2>0, <3>4 DEF HouseInv
            <4>2. i - 1 \in 0..Len(mkdirs) /\ i - 1 < i BY <2>0, <3>4
            <4> QED BY <3>1, <3>2, <3>3, <4>1, <4>2 DEF Housed
        <3>5. CASE /\ i - Len(mkdirs) \in 1..Len(files) /\ Actions[i] = files[i - Len(mkdirs)]
                   /\ Actions[i].do = "copy"
            <4>1. Housed(p, Len(mkdirs)) BY <2>0, <3>5 DEF HouseInv
            <4>2. Len(mkdirs) \in 0..Len(mkdirs) /\ Len(mkdirs) < i BY <2>0, <2>1, <3>5
            <4> QED BY <3>1, <3>2, <3>3, <4>1, <4>2 DEF Housed
        <3> QED BY <2>1, <3>4, <3>5
    <2>6. ASSUME NEW j \in Done({"copy", "mkdir"}), i # j, Same(p, Actions[j].path, folds)
          PROVE  Actions[i].do = "mkdir" /\ Actions[j].do = "mkdir"
        <3>1. /\ \/ j \in 1..Len(mkdirs) /\ Actions[j] = mkdirs[j] /\ Actions[j].do = "mkdir"
                 \/ /\ j - Len(mkdirs) \in 1..Len(files) /\ Actions[j] = files[j - Len(mkdirs)]
                    /\ Actions[j].do = "copy"
              /\ j \in Nat
            BY PutsAre
        <3>2. p = Actions[j].path \/ (folding = "insensitive" /\ Fold(p) = Fold(Actions[j].path))
            BY <2>0, <2>6 DEF Same, Foldings
        <3>3. CASE /\ i - Len(mkdirs) \in 1..Len(files) /\ Actions[i] = files[i - Len(mkdirs)]
                   /\ j - Len(mkdirs) \in 1..Len(files) /\ Actions[j] = files[j - Len(mkdirs)]
                   /\ Actions[i].do = "copy" /\ Actions[j].do = "copy"
            <4>1. i - Len(mkdirs) # j - Len(mkdirs) BY <2>0, <2>1, <2>6, <3>1
            <4>2. p # Actions[j].path BY <2>0, <3>3, <4>1 DEF NotTwice
            <4>3. folding = "insensitive" => Fold(p) # Fold(Actions[j].path)
                BY <2>0, <3>3, <4>1 DEF ClaimInv
            <4> QED BY <3>2, <4>2, <4>3
        <3>4. CASE /\ i - Len(mkdirs) \in 1..Len(files) /\ Actions[i] = files[i - Len(mkdirs)]
                   /\ j \in 1..Len(mkdirs) /\ Actions[j] = mkdirs[j] /\ Actions[i].do = "copy"
            <4>2. p # Actions[j].path BY <2>0, <3>4 DEF NotTwice
            <4>3. folding = "insensitive" => Fold(p) # Fold(Actions[j].path)
                BY <2>0, <3>4 DEF ClaimInv
            <4> QED BY <3>2, <4>2, <4>3
        <3>5. CASE /\ j - Len(mkdirs) \in 1..Len(files) /\ Actions[j] = files[j - Len(mkdirs)]
                   /\ i \in 1..Len(mkdirs) /\ Actions[i] = mkdirs[i] /\ Actions[j].do = "copy"
            <4>2. p # Actions[j].path BY <2>0, <3>5 DEF NotTwice
            <4>3. folding = "insensitive" => Fold(p) # Fold(Actions[j].path)
                BY <2>0, <3>5 DEF ClaimInv
            <4> QED BY <3>2, <4>2, <4>3
        <3> QED BY <2>1, <3>1, <3>3, <3>4, <3>5
    <2> QED BY <2>3, <2>4, <2>5, <2>6
<1> QED BY <1>1, ListHolds, TypeInit, TypeStep, FatesInit, FatesStep, PlaceInit, PlaceStep, PTL DEF Spec
-----------------------------------------------------------------------------
(* The policy that refuses.  The second pass decides with the claims the   *)
(* first one had at the same entry, so it meets no conflict either.        *)

FirstOfName(k) == \A m \in 1..(k - 1) : Fold(source[m].path) # Fold(source[k].path)

ClaimsBefore(n) ==
    IF folding = "exact" THEN {}
    ELSE {[name |-> Fold(source[k].path), kind |-> source[k].kind] :
            k \in {m \in 1..(n - 1) : FirstOfName(m)}}

Peaceful(k) ==
    /\ folding = "insensitive" =>
        \A c \in ClaimsBefore(k) :
            c.name = Fold(source[k].path) => source[k].kind = "dir" /\ c.kind = "dir"
    /\ \A x \in Get(source[k].path) : ~IsConflict(source[k], x)

FailInv ==
    policy = "fail" =>
        /\ phase \in {"collect", "decide"} => claims = ClaimsBefore(at)
        /\ phase = "collect" /\ conflicts = << >> => \A k \in 1..(at - 1) : Peaceful(k)
        /\ phase \in {"decide", "ready"} =>
            /\ \A k \in 1..Len(source) : Peaceful(k)
            /\ blocked = << >>
            /\ \A j \in 1..Len(files) :
                \/ files[j].reason = "identical" /\ files[j].do = "skip"
                \/ files[j].reason = "new" /\ Get(files[j].path) = {}

LEMMA ClaimsGrow ==
    ASSUME TypeInv, at <= Len(source), claims = ClaimsBefore(at)
    PROVE  Claimed(entry) = ClaimsBefore(at + 1)
<1>1. at \in 1..Len(source) /\ entry = source[at] /\ at \in Nat BY EntryIs DEF TypeInv, DeciderInv
<1>2. CASE folding = "exact" BY <1>2 DEF Claimed, ClaimsBefore
<1>3. CASE folding # "exact"
    <2> DEFINE c(k) == [name |-> Fold(source[k].path), kind |-> source[k].kind]
               firsts(n) == {m \in 1..(n - 1) : FirstOfName(m)}
    <2>1. \A n : ClaimsBefore(n) = {c(k) : k \in firsts(n)} BY <1>3 DEF ClaimsBefore
    <2>2. (\E d \in claims : d.name = Fold(entry.path)) <=> ~FirstOfName(at)
        <3>1. ASSUME NEW d \in claims, d.name = Fold(entry.path) PROVE ~FirstOfName(at)
            <4>1. PICK k \in firsts(at) : d = c(k) BY <2>1, <3>1
            <4> QED BY <1>1, <3>1, <4>1 DEF FirstOfName
        <3>2. ASSUME ~FirstOfName(at) PROVE \E d \in claims : d.name = Fold(entry.path)
            <4> DEFINE S == {k \in 1..(at - 1) : Fold(source[k].path) = Fold(source[at].path)}
            <4>1. S # {} /\ S \in SUBSET Nat BY <3>2 DEF FirstOfName
            <4>2. PICK k \in S : \A m \in S : k <= m
                <5> HIDE DEF S
                <5> QED BY <4>1, Least
            <4>3. \A m \in 1..(k - 1) : m \notin S
                <5>1. \A m \in 1..(k - 1) : ~(k <= m) BY <4>1, <4>2
                <5> HIDE DEF S
                <5> QED BY <4>2, <5>1
            <4>4. k \in 1..(at - 1) /\ Fold(source[k].path) = Fold(source[at].path) BY <4>2
            <4>5. \A m \in 1..(k - 1) : m \in 1..(at - 1) BY <1>1, <4>4
            <4>6. FirstOfName(k) BY <4>3, <4>4, <4>5 DEF FirstOfName
            <4>7. c(k) \in claims BY <2>1, <4>4, <4>6
            <4>8. c(k).name = Fold(entry.path) BY <1>1, <4>4
            <4> QED BY <4>7, <4>8
        <3> QED BY <3>1, <3>2
    <2>3. 1..((at + 1) - 1) = 1..(at - 1) \cup {at} BY <1>1
    <2>4. CASE FirstOfName(at)
        <3>1. firsts(at + 1) = firsts(at) \cup {at} BY <2>3, <2>4
        <3>2. Claimed(entry) = claims \cup {c(at)} BY <1>1, <1>3, <2>2, <2>4 DEF Claimed
        <3> HIDE DEF firsts, c
        <3>3. {c(k) : k \in firsts(at) \cup {at}} = {c(k) : k \in firsts(at)} \cup {c(at)} OBVIOUS
        <3> QED BY <2>1, <3>1, <3>2, <3>3
    <2>5. CASE ~FirstOfName(at)
        <3>1. firsts(at + 1) = firsts(at) BY <2>3, <2>5
        <3>2. Claimed(entry) = claims BY <2>2, <2>5 DEF Claimed
        <3> QED BY <2>1, <3>1, <3>2
    <2> QED BY <2>4, <2>5
<1> QED BY <1>2, <1>3

LEMMA PeacefulEntry ==
    ASSUME TypeInv, at <= Len(source), claims = ClaimsBefore(at)
    PROVE  Peaceful(at) <=> ~Conflicting(entry)
<1>1. entry = source[at] /\ folding \in Foldings BY EntryIs DEF TypeInv, GivenInv
<1>2. Collides(entry) <=>
        folding = "insensitive" /\ \E c \in ClaimsBefore(at) :
            c.name = Fold(source[at].path) /\ ~(source[at].kind = "dir" /\ c.kind = "dir")
    BY <1>1 DEF Collides
<1> QED BY <1>1, <1>2 DEF Peaceful, Conflicting

\* A peaceful entry is made, found, copied as a new one, or is there already.
LEMMA PeacefulDecision ==
    ASSUME TypeInv, phase = "decide", ~Conflicting(entry), blocked = << >>,
           DecideBlocked \/ DecideCollision \/ DecideMkdir \/ DecideExists
                \/ DecideInTheWay \/ DecideOneFile
    PROVE  /\ at <= Len(source) /\ given' = given /\ phase' = phase /\ at' = at + 1
           /\ claims' = Claimed(entry) /\ blocked' = << >>
           /\ \/ files' = files
              \/ files' = Append(files, Skip(entry, "identical"))
              \/ files' = Append(files, Copy(entry, "new")) /\ Get(entry.path) = {}
<1>0. Decision BY DecisionIs
<1>1. at <= Len(source) /\ given' = given /\ phase' = phase /\ at' = at + 1 BY <1>0 DEF Decision
<1>2. entry.kind \in {"file", "dir"} BY <1>1, EntryIs
<1>3. /\ ~IsBlocked(entry) /\ ~Collides(entry)
      /\ \A x \in Get(entry.path) : x.kind = entry.kind /\ ~IsConflict(entry, x)
    BY DEF IsBlocked, Conflicting, IsConflict
<1>4. ~DecideBlocked /\ ~DecideCollision /\ ~DecideInTheWay
    BY <1>3 DEF DecideBlocked, DecideCollision, DecideInTheWay, Free
<1>5. CASE DecideMkdir \/ DecideExists
    BY <1>1, <1>3, <1>5 DEF DecideMkdir, DecideExists, Free, Unblocked
<1>6. CASE DecideOneFile
    <2>1. /\ claims' = Claimed(entry) /\ blocked' = << >> /\ entry.kind = "file"
          /\ files' = Append(files, DecideFile(entry))
        BY <1>3, <1>6 DEF DecideOneFile, Free, Unblocked
    <2>2. CASE Get(entry.path) = {}
        <3>1. DecideFile(entry) = Copy(entry, "new") BY <2>2 DEF DecideFile
        <3> QED BY <1>1, <2>1, <2>2, <3>1
    <2>3. CASE Get(entry.path) # {}
        <3>1. ~\E x \in Get(entry.path) : x.kind = "dir" BY <1>3, <2>1
        <3>2. ~\E x \in Get(entry.path) : IsConflict(entry, x) BY <1>3
        <3>3. DecideFile(entry) = Skip(entry, "identical") BY <2>3, <3>1, <3>2 DEF DecideFile
        <3> QED BY <1>1, <2>1, <3>3
    <2> QED BY <2>2, <2>3
<1> QED BY <1>4, <1>5, <1>6

LEMMA FailInit == Init => FailInv
<1> QED BY DEF Init, FailInv

LEMMA FailStep == TypeInv /\ FailInv /\ [Next]_vars => FailInv'
<1> SUFFICES ASSUME TypeInv, FailInv, [Next]_vars PROVE FailInv'
    OBVIOUS
<1>1. ASSUME given' = given, decider' = decider, phase' = phase
             \/ (phase = "decide" /\ phase' = "ready")
      PROVE  FailInv'
    BY <1>1 DEF given, decider, FailInv, ClaimsBefore, FirstOfName, Peaceful, Get
<1>2. CASE UNCHANGED vars \/ Cancel \/ Scan
    BY <1>1, <1>2 DEF vars, Cancel, Scan, plannerVars
<1>e. ASSUME at' = 1, claims' = {} PROVE claims' = ClaimsBefore(1)' /\ 1..(at' - 1) = {}
    <2>1. 1..(1 - 1) = {} OBVIOUS
    <2>2. {m \in 1..(1 - 1) : FirstOfName(m)'} = {} BY <2>1
    <2> QED BY <1>e, <2>1, <2>2 DEF ClaimsBefore
<1>3. CASE Begin
    <2>1. phase' \in {"collect", "decide"} /\ (policy' = "fail" => phase' = "collect")
        BY <1>3 DEF Begin, BeginPlan
    <2>2. decider' = decider /\ Blank
        BY <1>3 DEF Begin, BeginPlan, TypeInv, PhaseInv
    <2>3. at' = 1 /\ claims' = {} BY <2>2 DEF decider, Blank
    <2>4. claims' = ClaimsBefore(at)' /\ 1..(at' - 1) = {}
        BY <1>e, <2>3 DEF ClaimsBefore, FirstOfName
    <2> QED BY <2>1, <2>4 DEF FailInv
<1>4. CASE RunAction \/ RunAgain
    <2>1. phase' \in {"run", "idle"} BY <1>4 DEF RunAction, RunAgain
    <2> QED BY <2>1 DEF FailInv
<1>f. ASSUME given' = given
      PROVE  /\ policy' = policy /\ source' = source
             /\ \A k : Peaceful(k)' <=> Peaceful(k)
             /\ \A j : Get(files[j].path)' = {} <=> Get(files'[j].path) = {}
             /\ at' = at + 1 => ClaimsBefore(at)' = ClaimsBefore(at + 1)
    <2>1. policy' = policy /\ source' = source /\ dest' = dest /\ folding' = folding
        BY <1>f DEF given
    <2>2. \A n : ClaimsBefore(n)' = ClaimsBefore(n) BY <2>1 DEF ClaimsBefore, FirstOfName
    <2>3. \A k : Peaceful(k)' <=> Peaceful(k) BY <2>1, <2>2 DEF Peaceful, Get
    <2>4. \A j : Get(files[j].path)' = {} <=> Get(files'[j].path) = {} BY <2>1 DEF Get
    <2>5. at' = at + 1 => ClaimsBefore(at)' = ClaimsBefore(at + 1)
        BY <2>1 DEF ClaimsBefore, FirstOfName
    <2> QED BY <2>1, <2>3, <2>4, <2>5
<1>5. CASE CollectConflict
    <2> SUFFICES ASSUME policy' = "fail" PROVE FailInv' BY DEF FailInv
    <2>1. /\ phase = "collect" /\ phase' = "collect" /\ at <= Len(source) /\ given' = given
          /\ claims' = Claimed(entry) /\ at' = at + 1
          /\ conflicts' = IF Conflicting(entry) THEN Append(conflicts, entry.path) ELSE conflicts
        BY <1>5 DEF CollectConflict, More, Next1
    <2>2. policy = "fail" /\ claims = ClaimsBefore(at) BY <1>f, <2>1 DEF FailInv
    <2>3. claims' = ClaimsBefore(at)' BY <1>f, <2>1, <2>2, ClaimsGrow
    <2>4. ASSUME conflicts' = << >>, NEW k \in 1..(at' - 1) PROVE Peaceful(k)'
        <3>1. conflicts \in Seq(Paths) BY DEF TypeInv, DeciderInv
        <3>2. ~Conflicting(entry) /\ conflicts = << >> BY <2>1, <2>4, <3>1
        <3>3. Peaceful(at) BY <2>1, <2>2, <3>2, PeacefulEntry
        <3>4. \A m \in 1..(at - 1) : Peaceful(m) BY <2>1, <2>2, <3>2 DEF FailInv
        <3>5. at \in Nat /\ (k = at \/ k \in 1..(at - 1)) BY <2>1, <2>4 DEF TypeInv, DeciderInv
        <3> QED BY <1>f, <2>1, <3>3, <3>4, <3>5
    <2> QED BY <2>1, <2>3, <2>4 DEF FailInv
<1>6. CASE EndCollect
    <2> SUFFICES ASSUME policy' = "fail" PROVE FailInv' BY DEF FailInv
    <2>1. /\ phase = "collect" /\ at > Len(source) /\ given' = given
          /\ phase' = IF conflicts = << >> THEN "decide" ELSE "conflicts"
          /\ at' = 1 /\ claims' = {} /\ blocked' = blocked /\ files' = files
        BY <1>6 DEF EndCollect
    <2>2. CASE conflicts # << >> BY <2>1, <2>2 DEF FailInv
    <2>3. CASE conflicts = << >>
        <3>1. \A k \in 1..(at - 1) : Peaceful(k) BY <1>f, <2>1, <2>3 DEF FailInv
        <3>2. \A k \in 1..Len(source) : k \in 1..(at - 1) BY <2>1 DEF TypeInv, DeciderInv
        <3>3. \A k \in 1..Len(source') : Peaceful(k)' BY <1>f, <2>1, <3>1, <3>2
        <3>4. claims' = ClaimsBefore(at)' BY <1>e, <2>1 DEF ClaimsBefore, FirstOfName
        <3>5. blocked = << >> /\ files = << >> BY <2>1 DEF TypeInv, PhaseInv
        <3> QED BY <2>1, <2>3, <3>3, <3>4, <3>5 DEF FailInv
    <2> QED BY <2>2, <2>3
<1>7. CASE DecideBlocked \/ DecideCollision \/ DecideMkdir \/ DecideExists
                \/ DecideInTheWay \/ DecideOneFile
    <2> SUFFICES ASSUME policy' = "fail" PROVE FailInv' BY DEF FailInv
    <2>0. phase = "decide" /\ given' = given /\ at <= Len(source)
        BY <1>7, DecisionIs DEF Decision
    <2>1. /\ claims = ClaimsBefore(at) /\ blocked = << >>
          /\ \A k \in 1..Len(source) : Peaceful(k)
          /\ \A j \in 1..Len(files) :
                \/ files[j].reason = "identical" /\ files[j].do = "skip"
                \/ files[j].reason = "new" /\ Get(files[j].path) = {}
        BY <1>f, <2>0 DEF FailInv
    <2>2. at \in 1..Len(source) BY <2>0, EntryIs
    <2>3. ~Conflicting(entry) BY <2>0, <2>1, <2>2, PeacefulEntry
    <2>4. /\ phase' = phase /\ at' = at + 1 /\ claims' = Claimed(entry) /\ blocked' = << >>
          /\ \/ files' = files
             \/ files' = Append(files, Skip(entry, "identical"))
             \/ files' = Append(files, Copy(entry, "new")) /\ Get(entry.path) = {}
        BY <1>7, <2>0, <2>1, <2>3, PeacefulDecision
    <2>5. claims' = ClaimsBefore(at)' BY <1>f, <2>0, <2>1, <2>4, ClaimsGrow
    <2>6. \A k \in 1..Len(source') : Peaceful(k)' BY <1>f, <2>0, <2>1
    <2>7. ASSUME NEW j \in 1..Len(files')
          PROVE  \/ files'[j].reason = "identical" /\ files'[j].do = "skip"
                 \/ files'[j].reason = "new" /\ Get(files'[j].path) = {}
        <3>0. files \in Seq(ActionType({"copy", "skip"})) BY DEF TypeInv, DeciderInv
        <3>1. CASE files' = files BY <2>1, <2>7, <3>1
        <3>2. ASSUME NEW a, files' = Append(files, a), j # Len(files) + 1
              PROVE  j \in 1..Len(files) /\ files'[j] = files[j]
            BY <2>7, <3>0, <3>2
        <3>3. ASSUME NEW a, files' = Append(files, a), j = Len(files) + 1 PROVE files'[j] = a
            BY <2>7, <3>0, <3>3
        <3>4. CASE files' = Append(files, Skip(entry, "identical"))
            <4>1. CASE j = Len(files) + 1
                <5>1. files'[j] = Skip(entry, "identical") BY <3>3, <3>4, <4>1
                <5> QED BY <5>1 DEF Skip, Action
            <4>2. CASE j # Len(files) + 1 BY <2>1, <3>2, <3>4, <4>2
            <4> QED BY <4>1, <4>2
        <3>5. CASE files' = Append(files, Copy(entry, "new")) /\ Get(entry.path) = {}
            <4>1. CASE j = Len(files) + 1
                <5>1. files'[j] = Copy(entry, "new") BY <3>3, <3>5, <4>1
                <5>2. files'[j].reason = "new" /\ files'[j].path = entry.path
                    BY <5>1 DEF Copy, Action
                <5> QED BY <3>5, <5>2
            <4>2. CASE j # Len(files) + 1 BY <2>1, <3>2, <3>5, <4>2
            <4> QED BY <4>1, <4>2
        <3> QED BY <2>4, <3>1, <3>4, <3>5
    <2> QED BY <1>f, <2>0, <2>4, <2>5, <2>6, <2>7 DEF FailInv
<1>8. CASE EndDecide BY <1>1, <1>8 DEF EndDecide
<1>9. CASE Plan BY <1>5, <1>6, <1>7, <1>8, <1>9, PlanKinds DEF Plan, PlannerNext
<1> QED BY <1>2, <1>3, <1>4, <1>9 DEF Next

\* Without a policy a plan overwrites no file the scan could have seen: whatever two
\* listings hold, what the second pass copies is new, to the destination's listing
\* and, where the scan learned how the volume compares names, on the volume itself,
\* but for what lies in folders the scan could not list.
THEOREM FailOverwritesNothing ==
    ASSUME ~SinglesFold, CaseKeepsOddNames
    PROVE  Spec => []FailTouchesNothing
<1>1. TypeInv /\ ListInv /\ FatesInv /\ PlaceInv /\ FailInv => FailTouchesNothing
    <2> SUFFICES ASSUME TypeInv, ListInv, FatesInv, PlaceInv, FailInv,
                        phase = "ready", policy = "fail"
                 PROVE  /\ \A i \in DOMAIN files : files[i].reason \in {"new", "identical"}
                        /\ FoldingKnown => \A i \in Done({"copy"}) : ~Hidden(Actions[i].path) =>
                            ~\E x \in AtIn(volume, Actions[i].path) : x.is = "file"
        BY DEF FailTouchesNothing
    <2>0. files \in Seq(ActionType({"copy", "skip"})) /\ DOMAIN files = 1..Len(files)
        BY DEF TypeInv, DeciderInv
    <2>1. \A j \in 1..Len(files) :
            \/ files[j].reason = "identical" /\ files[j].do = "skip"
            \/ files[j].reason = "new" /\ Get(files[j].path) = {}
        BY DEF FailInv
    <2>2. ASSUME folding = folds, NEW i \in Done({"copy"}), ~Hidden(Actions[i].path),
                 NEW x \in AtIn(volume, Actions[i].path), x.is = "file"
          PROVE  FALSE
        <3>1. i \in Done({"copy", "mkdir"}) /\ Actions[i].do = "copy" BY DEF Done
        <3>2. i - Len(mkdirs) \in 1..Len(files) /\ Actions[i] = files[i - Len(mkdirs)]
            BY <3>1, PutsAre
        <3>3. Get(Actions[i].path) = {} BY <2>1, <3>1, <3>2
        <3>4. PICK k \in 1..Len(source) : Actions[i].path = source[k].path BY <3>1, PutsAre
        <3>5. x \in volume /\ Same(x.path, source[k].path, folds) BY <3>4 DEF AtIn
        <3>6. Get(source[k].path) = {EntryOf(x)} BY <2>2, <3>4, <3>5, GetIsIt
        <3> QED BY <3>3, <3>4, <3>6
    <2> QED BY <2>0, <2>1, <2>2 DEF FoldingKnown
<1> QED BY <1>1, ListHolds, TypeInit, TypeStep, FatesInit, FatesStep, PlaceInit, PlaceStep,
           FailInit, FailStep, PTL DEF Spec
-----------------------------------------------------------------------------
(* The second run.  Two sets of entries are kept from the first one: those *)
(* that claimed their name, and the folders that were refused.  They are   *)
(* the same for both runs, for what the first puts somewhere changes no    *)
(* entry's fate.                                                           *)

\* What refused folders, and names that are taken, leave of the source.
Beneath(R, k) == \E j \in R : j < k /\ StartsWith(source[k].path, source[j].path)
Taken(G, k) ==
    folds = "insensitive" /\ \E j \in G :
        /\ j < k /\ Fold(source[j].path) = Fold(source[k].path)
        /\ ~(source[j].kind = "dir" /\ source[k].kind = "dir")

Fair(G, R, k) ==
    /\ k \in G <=> ~Beneath(R, k) /\ ~Taken(G, k)
    /\ k \in R => source[k].kind = "dir" /\ ~Beneath(R, k)
    /\ source[k].kind = "dir" /\ k \notin G /\ ~Beneath(R, k) => k \in R

\* A file has the place of a folder that claimed its name and was refused.
InTheWay(k) == \E x \in AtIn(volume, source[k].path) : x.is = "file"

\* What the volume has in its place leaves an entry nothing to do.
Suits(x, e) ==
    IF e.kind = "dir" THEN IsFolder(x)
    ELSE \/ IsFolder(x) /\ policy # "fail"
         \/ x.is = "file" /\ (x.size = e.size \/ policy = "skip")
Placed(k) == \E x \in AtIn(volume, source[k].path) : Suits(x, source[k])

\* The fates of the first n entries.
Fates(G, R, n) ==
    /\ G \subseteq 1..n /\ R \subseteq 1..n
    /\ \A k \in 1..n : Fair(G, R, k)
    /\ \A k \in G \cap R : InTheWay(k)
    /\ policy = "fail" => R = {} /\ G = 1..n

\* The planner's own record of them.
ClaimsFit(G) ==
    /\ \A c \in claims : \E k \in G :
        k < at /\ c.name = Fold(source[k].path) /\ c.kind = source[k].kind
    /\ \A k \in G : k < at =>
        \E c \in claims : c.name = Fold(source[k].path) /\ c.kind = source[k].kind
BlockFits(R) ==
    /\ blocked # << >> => \E j \in R : j < at /\ blocked[1].path = source[j].path
    /\ \A j \in R : j < at =>
        UnderBlock(source[j].path) \/ \A r \in at..Len(source) : ~StartsWith(source[r].path, source[j].path)
Fit(G, R) == (folds = "insensitive" => ClaimsFit(G)) /\ BlockFits(R)

Makes(a, e) ==
    /\ a.do = IF e.kind = "dir" THEN "mkdir" ELSE "copy"
    /\ a.path = e.path /\ (e.kind = "file" => a.size = e.size)
MakesOf(s, G, R) ==
    \A j \in 1..Len(s) : s[j].do # "skip" => \E k \in G \ R : Makes(s[j], source[k])
IsIn(s, from, k) == \E j \in from..Len(s) : Makes(s[j], source[k])

\* While the first plan is made, while it is carried out, and after.
Deciding(G, R) ==
    /\ Fates(G, R, at - 1) /\ Fit(G, R)
    /\ MakesOf(mkdirs, G, R) /\ MakesOf(files, G, R)
    /\ \A k \in G \ R : Placed(k) \/ IsIn(mkdirs, 1, k) \/ IsIn(files, 1, k)
Running(G, R) ==
    /\ Fates(G, R, Len(source)) /\ MakesOf(Actions, G, R)
    /\ \A k \in G \ R : Placed(k) \/ IsIn(Actions, ran + 1, k)
Settled(G, R) ==
    /\ Fates(G, R, Len(source)) /\ \A k \in G \ R : Placed(k)
    /\ phase = "decide" => Fit(G, R)

Entries == SUBSET (1..Len(source))

\* No entry's place lies where the scan could not look.
AllSeen == \A k \in 1..Len(source) : ~Hidden(source[k].path)

FoldingInv ==
    /\ walk = "listed" => found.folding = folds
    /\ phase # "idle" => folding = folds
FirstInv ==
    round = 0 =>
        /\ phase # "run" => ran = 0 /\ failed = {}
        /\ phase = "decide" => \E G, R \in Entries : Deciding(G, R)
        /\ phase \in {"ready", "run"} /\ failed = {} => \E G, R \in Entries : Running(G, R)
SecondInv ==
    round = 1 /\ failed = {} =>
        /\ \E G, R \in Entries : Settled(G, R)
        /\ phase # "conflicts" /\ conflicts = << >>
        /\ mkdirs = << >> /\ \A j \in 1..Len(files) : files[j].do = "skip"
AgainInv ==
    baseTells = folds /\ AllSeen =>
        /\ FoldingInv /\ (phase = "collect" => policy = "fail")
        /\ FirstInv /\ SecondInv

\* What is kept of the source and of the planner says the same of the next entry.
LEMMA SeesFates ==
    ASSUME TypeInv, at <= Len(source), folding = folds,
           NEW G, NEW R, G \subseteq 1..Len(source), R \subseteq 1..Len(source), Fit(G, R)
    PROVE  (IsBlocked(entry) <=> Beneath(R, at)) /\ (Collides(entry) <=> Taken(G, at))
<1>1. /\ at \in 1..Len(source) /\ entry = source[at] /\ Len(source) \in Nat
      /\ source[at].path \in Seq(Names)
    <2>1. Len(source) \in Nat BY DEF TypeInv, GivenInv, IsListing
    <2> QED BY <2>1, EntryIs, SourcePaths
<1>2. ASSUME IsBlocked(entry) PROVE Beneath(R, at)
    <2>1. blocked # << >> /\ StartsWith(entry.path, blocked[1].path) BY <1>2 DEF IsBlocked
    <2>2. PICK j \in R : j < at /\ blocked[1].path = source[j].path BY <2>1 DEF Fit, BlockFits
    <2> QED BY <1>1, <2>1, <2>2 DEF Beneath
<1>3. ASSUME Beneath(R, at) PROVE IsBlocked(entry)
    <2>1. PICK j \in R : j < at /\ StartsWith(source[at].path, source[j].path) BY <1>3 DEF Beneath
    <2>2. at \in at..Len(source) BY <1>1
    <2>3. UnderBlock(source[j].path) BY <2>1, <2>2 DEF Fit, BlockFits
    <2>4. blocked # << >> /\ StartsWith(source[j].path, blocked[1].path) BY <2>3 DEF UnderBlock
    <2>5. j \in 1..Len(source) BY <2>1
    <2>6. source[j].path \in Seq(Names) BY <2>5, SourcePaths
    <2>7. StartsWith(source[at].path, blocked[1].path)
        BY <1>1, <2>1, <2>4, <2>6, BlockedPath, StartsTransitive
    <2> QED BY <1>1, <2>4, <2>7 DEF IsBlocked
<1>4. ASSUME Collides(entry) PROVE Taken(G, at)
    <2>1. folding = "insensitive" BY <1>4 DEF Collides
    <2>2. PICK c \in claims : c.name = Fold(entry.path) /\ ~(entry.kind = "dir" /\ c.kind = "dir")
        BY <1>4 DEF Collides
    <2>3. PICK k \in G : k < at /\ c.name = Fold(source[k].path) /\ c.kind = source[k].kind
        BY <2>1 DEF Fit, ClaimsFit
    <2> QED BY <1>1, <2>1, <2>2, <2>3 DEF Taken
<1>5. ASSUME Taken(G, at) PROVE Collides(entry)
    <2>1. folds = "insensitive" BY <1>5 DEF Taken
    <2>2. PICK j \in G : /\ j < at /\ Fold(source[j].path) = Fold(source[at].path)
                         /\ ~(source[j].kind = "dir" /\ source[at].kind = "dir")
        BY <1>5 DEF Taken
    <2>3. PICK c \in claims : c.name = Fold(source[j].path) /\ c.kind = source[j].kind
        BY <2>1, <2>2 DEF Fit, ClaimsFit
    <2> QED BY <1>1, <2>1, <2>2, <2>3 DEF Collides
<1> QED BY <1>2, <1>3, <1>4, <1>5

LEMMA ClaimsStayFit ==
    ASSUME TypeInv, at <= Len(source), source' = source, at' = at + 1,
           folding = "insensitive", NEW G, G \subseteq 1..Len(source), ClaimsFit(G),
           at \in G => claims' = Claimed(entry) /\ ~Collides(entry),
           at \notin G => claims' = claims
    PROVE  ClaimsFit(G)'
<1>1. at \in 1..Len(source) /\ entry = source[at] /\ Len(source) \in Nat /\ G \subseteq Nat
    <2>1. Len(source) \in Nat BY DEF TypeInv, GivenInv, IsListing
    <2> QED BY <2>1, EntryIs
<1> DEFINE new == [name |-> Fold(entry.path), kind |-> entry.kind]
<1>2. claims \subseteq claims' BY DEF Claimed
<1>3. ASSUME NEW c \in claims'
      PROVE  \E k \in G : k < at' /\ c.name = Fold(source[k].path) /\ c.kind = source[k].kind
    <2>1. CASE c \in claims
        <3>1. PICK k \in G : k < at /\ c.name = Fold(source[k].path) /\ c.kind = source[k].kind
            BY <2>1 DEF ClaimsFit
        <3>2. k < at' BY <1>1, <3>1
        <3> QED BY <3>1, <3>2
    <2>2. CASE c \notin claims
        <3>1. at \in G /\ c = new BY <1>3, <2>2 DEF Claimed
        <3>2. at < at' BY <1>1
        <3> QED BY <1>1, <3>1, <3>2
    <2> QED BY <2>1, <2>2
<1>4. ASSUME NEW k \in G, k < at'
      PROVE  \E c \in claims' : c.name = Fold(source[k].path) /\ c.kind = source[k].kind
    <2>1. CASE k < at BY <1>2, <2>1 DEF ClaimsFit
    <2>2. CASE k = at
        <3>1. claims' = Claimed(entry) /\ ~Collides(entry) BY <2>2
        <3>2. CASE \E c \in claims : c.name = Fold(entry.path)
            <4>1. PICK c \in claims : c.name = Fold(entry.path) BY <3>2
            <4>2. entry.kind = "dir" /\ c.kind = "dir" BY <3>1, <4>1 DEF Collides
            <4> QED BY <1>1, <1>2, <2>2, <4>1, <4>2
        <3>3. CASE ~\E c \in claims : c.name = Fold(entry.path)
            <4>1. new \in claims' BY <3>1, <3>3 DEF Claimed
            <4>2. new.name = Fold(source[k].path) /\ new.kind = source[k].kind BY <1>1, <2>2
            <4> HIDE DEF new
            <4> QED BY <4>1, <4>2
        <3> QED BY <3>2, <3>3
    <2>3. k < at \/ k = at BY <1>1, <1>4
    <2> QED BY <2>1, <2>2, <2>3
<1> QED BY <1>3, <1>4 DEF ClaimsFit

LEMMA BlocksStayFit ==
    ASSUME TypeInv, at <= Len(source), source' = source, at' = at + 1,
           NEW R, R \subseteq 1..Len(source), BlockFits(R),
           \/ IsBlocked(entry) /\ at \notin R /\ blocked' = blocked
           \/ ~IsBlocked(entry) /\ at \in R /\ blocked' # << >> /\ blocked'[1].path = entry.path
           \/ ~IsBlocked(entry) /\ at \notin R /\ blocked' = << >>
    PROVE  BlockFits(R)'
<1>1. /\ at \in 1..Len(source) /\ entry = source[at] /\ Len(source) \in Nat /\ R \subseteq Nat
      /\ source[at].path \in Seq(Names)
    <2>1. Len(source) \in Nat BY DEF TypeInv, GivenInv, IsListing
    <2> QED BY <2>1, EntryIs, SourcePaths
<1>2. ASSUME blocked' # << >>
      PROVE  \E j \in R : j < at' /\ blocked'[1].path = source[j].path
    <2>1. CASE IsBlocked(entry) /\ blocked' = blocked
        <3>1. PICK j \in R : j < at /\ blocked[1].path = source[j].path BY <1>2, <2>1 DEF BlockFits
        <3>2. j < at' BY <1>1, <3>1
        <3> QED BY <2>1, <3>1, <3>2
    <2>2. CASE at \in R /\ blocked'[1].path = entry.path
        <3>1. at < at' BY <1>1
        <3> QED BY <1>1, <2>2, <3>1
    <2> QED BY <1>2, <2>1, <2>2
<1>3. ASSUME NEW j \in R, j < at'
      PROVE  \/ UnderBlock(source[j].path)'
             \/ \A r \in at'..Len(source) : ~StartsWith(source[r].path, source[j].path)
    <2>1. j \in 1..Len(source) /\ source[j].path \in Seq(Names) BY SourcePaths
    <2>2. CASE j = at
        <3>1. blocked' # << >> /\ blocked'[1].path = source[j].path BY <1>1, <2>2
        <3>2. StartsWith(source[j].path, source[j].path) BY <2>1, StartsSelf
        <3> QED BY <3>1, <3>2 DEF UnderBlock
    <2>3. CASE j # at
        <3>0. j < at BY <1>1, <1>3, <2>3
        <3>1. CASE \A r \in at..Len(source) : ~StartsWith(source[r].path, source[j].path)
            <4>1. \A r \in at'..Len(source) : r \in at..Len(source) BY <1>1
            <4> QED BY <3>1, <4>1
        <3>2. CASE UnderBlock(source[j].path) /\ IsBlocked(entry)
            <4>1. blocked' = blocked BY <3>2
            <4> QED BY <3>2, <4>1 DEF UnderBlock
        <3>3. CASE UnderBlock(source[j].path) /\ ~IsBlocked(entry)
            <4> SUFFICES ASSUME NEW r \in at'..Len(source), StartsWith(source[r].path, source[j].path)
                         PROVE  FALSE
                OBVIOUS
            <4>1. r \in 1..Len(source) /\ at < r BY <1>1
            <4>2. Before(source[j].path, source[at].path) /\ Before(source[at].path, source[r].path)
                BY <1>1, <2>1, <3>0, <4>1, EarlierIsBefore
            <4>3. source[r].path \in Seq(Names) BY <4>1, SourcePaths
            <4>4. StartsWith(source[at].path, source[j].path) BY <1>1, <2>1, <4>2, <4>3, BetweenIsBeneath
            <4>5. blocked # << >> /\ StartsWith(source[j].path, blocked[1].path) BY <3>3 DEF UnderBlock
            <4>6. StartsWith(source[at].path, blocked[1].path)
                BY <1>1, <2>1, <4>4, <4>5, BlockedPath, StartsTransitive
            <4> QED BY <1>1, <3>3, <4>5, <4>6 DEF IsBlocked
        <3> QED BY <3>0, <3>1, <3>2, <3>3 DEF BlockFits
    <2> QED BY <2>2, <2>3
<1> QED BY <1>2, <1>3 DEF BlockFits

Refused == entry.kind = "dir" /\ (Collides(entry) \/ \E x \in Get(entry.path) : x.kind = "file")

\* One more entry decided, in full: blocked, colliding, a folder, or a file.
StaysBlocked == IsBlocked(entry) /\ blocked' = blocked /\ claims' = claims
Loses ==
    /\ ~IsBlocked(entry) /\ Collides(entry) /\ claims' = claims
    /\ IF entry.kind = "dir" THEN blocked' # << >> /\ blocked'[1].path = entry.path ELSE blocked' = << >>
Gives ==
    /\ mkdirs' = mkdirs
    /\ \E reason \in Reasons : files' = Append(files, Skip(entry, reason))
Stands ==
    /\ ~IsBlocked(entry) /\ ~Collides(entry) /\ claims' = Claimed(entry)
    /\ \/ /\ entry.kind = "dir" /\ Get(entry.path) = {} /\ blocked' = << >>
          /\ mkdirs' = Append(mkdirs, Action("mkdir", entry, 0, "none")) /\ files' = files
       \/ /\ entry.kind = "dir" /\ Exists(entry.path) /\ blocked' = << >>
          /\ mkdirs' = mkdirs /\ files' = files
       \/ /\ entry.kind = "dir" /\ \E x \in Get(entry.path) : x.kind = "file"
          /\ blocked' # << >> /\ blocked'[1].path = entry.path
          /\ Gives
       \/ /\ entry.kind = "file" /\ blocked' = << >>
          /\ mkdirs' = mkdirs /\ files' = Append(files, DecideFile(entry))

Decides ==
    /\ phase = "decide" /\ at <= Len(source)
    /\ given' = given /\ phase' = "decide" /\ at' = at + 1 /\ conflicts' = conflicts
    /\ \/ StaysBlocked /\ Gives
       \/ Loses /\ Gives
       \/ Stands

LEMMA DecidesSo ==
    ASSUME TypeInv, DecideBlocked \/ DecideCollision \/ DecideMkdir \/ DecideExists
                        \/ DecideInTheWay \/ DecideOneFile
    PROVE  Decides
<1>0. Decision BY DecisionIs
<1>1. /\ phase = "decide" /\ at <= Len(source)
      /\ given' = given /\ phase' = "decide" /\ at' = at + 1 /\ conflicts' = conflicts
    BY <1>0 DEF Decision
<1>r. {"none", "collision", "kind"} \subseteq Reasons BY DEF Reasons
<1>k. entry.kind \in {"file", "dir"} BY <1>1, EntryIs
<1>2. CASE DecideBlocked
    <2>1. blocked # << >> /\ blocked \in Seq(BlockedType) /\ IsBlocked(entry)
        BY <1>2 DEF TypeInv, DeciderInv, DecideBlocked, IsBlocked
    <2>2. blocked[1] \in BlockedType BY <2>1, EmptySeq
    <2>3. blocked[1].reason \in Reasons BY <2>2 DEF BlockedType
    <2> QED BY <1>1, <1>2, <2>1, <2>3 DEF DecideBlocked, Decides, StaysBlocked, Gives
<1>3. CASE DecideCollision
    <2>1. claims' = claims BY <1>3 DEF DecideCollision, Collides, Claimed
    <2>2. IF entry.kind = "dir" THEN blocked' # << >> /\ blocked'[1].path = entry.path ELSE blocked' = << >>
        BY <1>3 DEF DecideCollision, Refuse
    <2>3. Gives BY <1>3, <1>r DEF DecideCollision, Refuse, Gives
    <2> QED BY <1>1, <1>3, <2>1, <2>2, <2>3 DEF DecideCollision, Decides, Loses
<1>4. CASE DecideInTheWay
    <2>1. Gives BY <1>4, <1>r DEF DecideInTheWay, Refuse, Gives
    <2>2. entry.kind = "dir" /\ blocked' # << >> /\ blocked'[1].path = entry.path
        BY <1>4 DEF DecideInTheWay, Free, Refuse
    <2> QED BY <1>1, <1>4, <2>1, <2>2 DEF DecideInTheWay, Free, Decides, Stands
<1>5. CASE DecideMkdir
    BY <1>1, <1>5 DEF DecideMkdir, Free, Unblocked, Decides, Stands
<1>6. CASE DecideExists
    BY <1>1, <1>6 DEF DecideExists, Free, Unblocked, Exists, Decides, Stands
<1>7. CASE DecideOneFile
    BY <1>1, <1>7 DEF DecideOneFile, Free, Unblocked, Decides, Stands
<1> QED BY <1>2, <1>3, <1>4, <1>5, <1>6, <1>7

\* The volume holds one thing of a name, and the listing shows it.
LEMMA GetShows ==
    ASSUME TypeInv, ListInv, AllSeen, ~SinglesFold, CaseKeepsOddNames, phase \notin {"idle", "run"},
           folding = folds, NEW k \in 1..Len(source), Get(source[k].path) # {}
    PROVE  \E x \in AtIn(volume, source[k].path) :
               x.is \in {"file", "dir", "locked"} /\ Get(source[k].path) = {EntryOf(x)}
<1>1. PICK e \in dest : Same(e.path, source[k].path, folds) BY DEF Get
<1>2. PICK x \in volume : x.is \in {"file", "dir", "locked"} /\ e = EntryOf(x)
    BY DEF ListInv, DestInv, IsListed
<1>3. Same(x.path, source[k].path, folds) BY <1>1, <1>2 DEF EntryOf, Entry
<1>4. Get(source[k].path) = {EntryOf(x)} BY <1>2, <1>3, GetIsIt DEF AllSeen
<1> QED BY <1>2, <1>3, <1>4 DEF AtIn

\* Of two folders or files, neither is the other.
LEMMA ShownAs ==
    ASSUME NEW x, x.is \in {"file", "dir", "locked"}
    PROVE  /\ EntryOf(x).kind = "file" <=> x.is = "file"
           /\ EntryOf(x).kind = "dir" <=> IsFolder(x)
           /\ x.is = "file" => EntryOf(x).size = x.size
           /\ x.is # "file" => EntryOf(x).size = 0
<1> QED BY DEF EntryOf, Entry, KindOf, IsFolder

\* After a decision the planner's record still fits what is kept of the source.
LEMMA StaysFit ==
    ASSUME TypeInv, folding = folds, folds' = folds, Decides, ~(Exists(entry.path) /\ \E x \in Get(entry.path) : x.kind = "file"),
           NEW G, NEW R, G \subseteq 1..Len(source), R \subseteq 1..Len(source), Fit(G, R),
           at \in G <=> ~IsBlocked(entry) /\ ~Collides(entry),
           at \in R <=> ~IsBlocked(entry) /\ Refused
    PROVE  Fit(G, R)'
<1>1. at <= Len(source) /\ source' = source /\ at' = at + 1 BY DEF Decides, given
<1>2. ASSUME folds = "insensitive" PROVE ClaimsFit(G)'
    <2>1. ClaimsFit(G) BY <1>2 DEF Fit
    <2>2. at \in G => claims' = Claimed(entry) /\ ~Collides(entry)
        BY DEF Decides, StaysBlocked, Loses, Stands
    <2>3. at \notin G => claims' = claims BY DEF Decides, StaysBlocked, Loses, Stands
    <2> QED BY <1>1, <1>2, <2>1, <2>2, <2>3, ClaimsStayFit
<1>3. BlockFits(R)'
    <2>1. BlockFits(R) BY DEF Fit
    <2>k. entry.kind \in {"file", "dir"} BY <1>1, EntryIs
    <2>2. \/ IsBlocked(entry) /\ at \notin R /\ blocked' = blocked
          \/ ~IsBlocked(entry) /\ at \in R /\ blocked' # << >> /\ blocked'[1].path = entry.path
          \/ ~IsBlocked(entry) /\ at \notin R /\ blocked' = << >>
        BY <2>k DEF Decides, StaysBlocked, Loses, Stands, Refused
    <2> QED BY <1>1, <2>1, <2>2, BlocksStayFit
<1> QED BY <1>2, <1>3 DEF Fit

\* Only what comes before an entry has a say in its fate.
LEMMA FairAside ==
    ASSUME NEW G, NEW R, NEW H, NEW S, NEW k,
           \A j : j < k \/ j = k => (j \in H <=> j \in G) /\ (j \in S <=> j \in R)
    PROVE  Fair(H, S, k) <=> Fair(G, R, k)
<1>1. Beneath(S, k) <=> Beneath(R, k) BY DEF Beneath
<1>2. Taken(H, k) <=> Taken(G, k) BY DEF Taken
<1>3. k = k OBVIOUS
<1> QED BY <1>1, <1>2, <1>3 DEF Fair

LEMMA FitAside ==
    ASSUME NEW G, NEW R, NEW H, NEW S,
           \A j : j < at => (j \in H <=> j \in G) /\ (j \in S <=> j \in R), Fit(G, R)
    PROVE  Fit(H, S)
<1>1. folds = "insensitive" => ClaimsFit(H) BY DEF Fit, ClaimsFit
<1>2. BlockFits(S) BY DEF Fit, BlockFits
<1> QED BY <1>1, <1>2 DEF Fit

\* Where every conflict was found first, the second pass meets none.
LEMMA NoQuarrel ==
    ASSUME TypeInv, FailInv, policy = "fail", phase = "decide", at <= Len(source)
    PROVE  ~IsBlocked(entry) /\ ~Collides(entry) /\ \A x \in Get(entry.path) : ~IsConflict(entry, x)
<1>1. at \in 1..Len(source) BY EntryIs
<1>2. blocked = << >> /\ claims = ClaimsBefore(at) /\ Peaceful(at) BY <1>1 DEF FailInv
<1>3. ~Conflicting(entry) BY <1>2, PeacefulEntry
<1> QED BY <1>2, <1>3 DEF Conflicting, IsBlocked

\* What the listing shows of an entry that stands, and what that calls for.
LEMMA SuitsOrNot ==
    ASSUME TypeInv, ListInv, AllSeen, ~SinglesFold, CaseKeepsOddNames, phase \notin {"idle", "run"},
           folding = folds, at <= Len(source), NEW x \in AtIn(volume, entry.path),
           x.is \in {"file", "dir", "locked"}
    PROVE  /\ Get(entry.path) = {EntryOf(x)}
           /\ entry.kind = "dir" => (Suits(x, entry) <=> Exists(entry.path))
           /\ entry.kind = "file" /\ Suits(x, entry) =>
                \E reason \in Reasons : DecideFile(entry) = Skip(entry, reason)
           /\ entry.kind = "file" /\ ~Suits(x, entry) =>
                \/ policy = "fail" /\ \E y \in Get(entry.path) : IsConflict(entry, y)
                \/ DecideFile(entry) = Copy(entry, "differs")
<1>1. at \in 1..Len(source) /\ entry = source[at] BY EntryIs
<1>2. x \in volume /\ Same(x.path, source[at].path, folds) BY <1>1 DEF AtIn
<1>3. Get(entry.path) = {EntryOf(x)} BY <1>1, <1>2, GetIsIt DEF AllSeen
<1>4. /\ EntryOf(x).kind = "file" <=> x.is = "file"
      /\ EntryOf(x).kind = "dir" <=> IsFolder(x)
      /\ x.is = "file" => EntryOf(x).size = x.size
    BY ShownAs
<1>5. {"kind", "identical", "conflict"} \subseteq Reasons BY DEF Reasons
<1>6. IsFolder(x) <=> x.is # "file" BY DEF IsFolder
<1>7. entry.kind = "dir" => (Suits(x, entry) <=> Exists(entry.path)) BY <1>3, <1>4 DEF Suits, Exists
<1>8. ASSUME entry.kind = "file", Suits(x, entry)
      PROVE  \E reason \in Reasons : DecideFile(entry) = Skip(entry, reason)
    <2>1. CASE IsFolder(x)
        <3>1. DecideFile(entry) = Skip(entry, "kind") BY <1>3, <1>4, <2>1 DEF DecideFile
        <3> QED BY <1>5, <3>1
    <2>2. CASE ~IsFolder(x)
        <3>1. x.is = "file" /\ (x.size = entry.size \/ policy = "skip") BY <1>8, <2>2 DEF Suits
        <3>2. EntryOf(x).kind = "file" /\ EntryOf(x).size = x.size BY <1>4, <3>1
        <3>3. CASE x.size = entry.size
            <4>1. DecideFile(entry) = Skip(entry, "identical")
                BY <1>3, <1>8, <3>2, <3>3 DEF DecideFile, IsConflict
            <4> QED BY <1>5, <4>1
        <3>4. CASE x.size # entry.size
            <4>1. DecideFile(entry) = Skip(entry, "conflict")
                BY <1>3, <1>8, <3>1, <3>2, <3>4 DEF DecideFile, IsConflict
            <4> QED BY <1>5, <4>1
        <3> QED BY <3>3, <3>4
    <2> QED BY <2>1, <2>2
<1>9. ASSUME entry.kind = "file", ~Suits(x, entry)
      PROVE  \/ policy = "fail" /\ \E y \in Get(entry.path) : IsConflict(entry, y)
             \/ DecideFile(entry) = Copy(entry, "differs")
    <2>1. CASE IsFolder(x)
        <3>1. policy = "fail" BY <1>9, <2>1 DEF Suits
        <3>2. IsConflict(entry, EntryOf(x)) BY <1>4, <1>9, <2>1 DEF IsConflict
        <3> QED BY <1>3, <3>1, <3>2
    <2>2. CASE ~IsFolder(x)
        <3>1. x.is = "file" /\ x.size # entry.size /\ policy # "skip" BY <1>6, <1>9, <2>2 DEF Suits
        <3>2. EntryOf(x).kind = "file" /\ EntryOf(x).size = x.size BY <1>4, <3>1
        <3>3. IsConflict(entry, EntryOf(x)) BY <3>1, <3>2 DEF IsConflict
        <3>4. DecideFile(entry) = Copy(entry, "differs") BY <1>3, <3>1, <3>2, <3>3 DEF DecideFile
        <3> QED BY <3>4
    <2> QED BY <2>1, <2>2
<1> QED BY <1>3, <1>7, <1>8, <1>9

\* What the next decision adds to the two sets.
Adds(H, S, G, R) ==
    /\ H = IF ~IsBlocked(entry) /\ ~Collides(entry) THEN G \cup {at} ELSE G
    /\ S = IF ~IsBlocked(entry) /\ Refused THEN R \cup {at} ELSE R

LEMMA FatesGrow ==
    ASSUME TypeInv, ListInv, FailInv, AllSeen, ~SinglesFold, CaseKeepsOddNames,
           folding = folds, phase = "decide", at <= Len(source),
           NEW G, NEW R, NEW H, NEW S, Fates(G, R, at - 1), Fit(G, R), Adds(H, S, G, R)
    PROVE  Fates(H, S, at) /\ Fit(H, S)
<1>1. /\ at \in 1..Len(source) /\ entry = source[at] /\ Len(source) \in Nat
      /\ entry.kind \in {"file", "dir"}
    <2>1. Len(source) \in Nat BY DEF TypeInv, GivenInv, IsListing
    <2> QED BY <2>1, EntryIs
<1>2. G \subseteq 1..(at - 1) /\ R \subseteq 1..(at - 1) BY DEF Fates
<1>3. G \subseteq 1..Len(source) /\ R \subseteq 1..Len(source) /\ at \notin G /\ at \notin R BY <1>1, <1>2
<1>4. H \subseteq 1..at /\ S \subseteq 1..at BY <1>1, <1>2 DEF Adds
<1>5. \A j : j # at => (j \in H <=> j \in G) /\ (j \in S <=> j \in R) BY DEF Adds
<1>6. /\ at \in H <=> ~IsBlocked(entry) /\ ~Collides(entry)
      /\ at \in S <=> ~IsBlocked(entry) /\ Refused
    BY <1>3 DEF Adds
<1>7. (IsBlocked(entry) <=> Beneath(R, at)) /\ (Collides(entry) <=> Taken(G, at))
    BY <1>1, <1>3, SeesFates
<1>8. Fair(H, S, at)
    <2>1. \A j : j < at => j # at BY <1>1
    <2>2. Beneath(S, at) <=> Beneath(R, at) BY <1>5, <2>1 DEF Beneath
    <2>3. Taken(H, at) <=> Taken(G, at) BY <1>5, <2>1 DEF Taken
    <2> QED BY <1>1, <1>6, <1>7, <2>2, <2>3 DEF Fair, Refused
<1>9. ASSUME NEW k \in 1..(at - 1) PROVE Fair(H, S, k)
    <2>1. \A j : j < k \/ j = k => (j \in H <=> j \in G) /\ (j \in S <=> j \in R)
        <3>1. ASSUME NEW j, j < k \/ j = k, j \in H \cup G \cup S \cup R PROVE j # at
            BY <1>1, <1>2, <1>4, <3>1
        <3> QED BY <1>5, <3>1
    <2>2. Fair(G, R, k) BY DEF Fates
    <2> QED BY <2>1, <2>2, FairAside
<1>10. \A k \in 1..at : k \in 1..(at - 1) \/ k = at BY <1>1
<1>11. ASSUME NEW k \in H \cap S PROVE InTheWay(k)
    <2>1. CASE k # at
        <3>1. k \in G \cap R BY <1>5, <2>1
        <3> QED BY <3>1 DEF Fates
    <2>2. CASE k = at
        <3>1. PICK y \in Get(entry.path) : y.kind = "file" BY <1>6, <2>2 DEF Refused
        <3>2. PICK x \in AtIn(volume, entry.path) :
                x.is \in {"file", "dir", "locked"} /\ Get(entry.path) = {EntryOf(x)}
            BY <1>1, <3>1, GetShows
        <3>3. x.is = "file" BY <3>1, <3>2, ShownAs
        <3> QED BY <1>1, <2>2, <3>2, <3>3 DEF InTheWay
    <2> QED BY <2>1, <2>2
<1>12. ASSUME policy = "fail" PROVE S = {} /\ H = 1..at
    <2>1. ~IsBlocked(entry) /\ ~Collides(entry) /\ \A x \in Get(entry.path) : ~IsConflict(entry, x)
        BY <1>1, <1>12, NoQuarrel
    <2>2. ~Refused BY <2>1 DEF Refused, IsConflict
    <2>3. R = {} /\ G = 1..(at - 1) BY <1>12 DEF Fates
    <2>4. 1..at = 1..(at - 1) \cup {at} BY <1>1
    <2> QED BY <2>1, <2>2, <2>3, <2>4 DEF Adds
<1>13. Fates(H, S, at)
    <2>1. \A k \in 1..at : Fair(H, S, k) BY <1>8, <1>9, <1>10
    <2> QED BY <1>4, <1>11, <1>12, <2>1 DEF Fates
<1>14. Fit(H, S)
    <2>1. \A j : j < at => (j \in H <=> j \in G) /\ (j \in S <=> j \in R)
        <3>1. \A j : j < at => j # at BY <1>1
        <3> QED BY <1>5, <3>1
    <2> QED BY <2>1, FitAside
<1> QED BY <1>13, <1>14

\* A plan that grows keeps what it makes.
LEMMA MakesMore ==
    ASSUME NEW T, NEW s \in Seq(T), NEW a \in T, NEW G, NEW R, NEW H, NEW S,
           MakesOf(s, G, R), G \ R \subseteq H \ S,
           a.do # "skip" => \E k \in H \ S : Makes(a, source[k])
    PROVE  /\ MakesOf(Append(s, a), H, S)
           /\ \A k : IsIn(s, 1, k) => IsIn(Append(s, a), 1, k)
           /\ \A k : Makes(a, source[k]) => IsIn(Append(s, a), 1, k)
<1> DEFINE t == Append(s, a)
<1>1. /\ t \in Seq(T) /\ Len(t) = Len(s) + 1 /\ Len(s) \in Nat
      /\ \A i \in 1..Len(s) : t[i] = s[i]
      /\ t[Len(s) + 1] = a
    BY Appended
<1> HIDE DEF t
<1>2. ASSUME NEW j \in 1..Len(t), t[j].do # "skip" PROVE \E k \in H \ S : Makes(t[j], source[k])
    <2>1. CASE j \in 1..Len(s)
        <3>1. t[j] = s[j] BY <1>1, <2>1
        <3>2. PICK k \in G \ R : Makes(s[j], source[k]) BY <1>2, <2>1, <3>1 DEF MakesOf
        <3> QED BY <3>1, <3>2
    <2>2. CASE j \notin 1..Len(s)
        <3>1. j = Len(s) + 1 BY <1>1, <2>2
        <3> QED BY <1>1, <1>2, <3>1
    <2> QED BY <2>1, <2>2
<1>3. ASSUME NEW k, IsIn(s, 1, k) PROVE IsIn(t, 1, k)
    <2>1. PICK j \in 1..Len(s) : Makes(s[j], source[k]) BY <1>3 DEF IsIn
    <2>2. j \in 1..Len(t) /\ t[j] = s[j] BY <1>1
    <2> QED BY <2>1, <2>2 DEF IsIn
<1>4. ASSUME NEW k, Makes(a, source[k]) PROVE IsIn(t, 1, k)
    <2>1. Len(s) + 1 \in 1..Len(t) BY <1>1
    <2> QED BY <1>1, <1>4, <2>1 DEF IsIn
<1> QED BY <1>2, <1>3, <1>4 DEF t, MakesOf

LEMMA MakesStay ==
    ASSUME NEW s, NEW G, NEW R, NEW H, NEW S, MakesOf(s, G, R), G \ R \subseteq H \ S
    PROVE  MakesOf(s, H, S)
<1> QED BY DEF MakesOf

\* One decision of the first plan.
LEMMA DecidingStep ==
    ASSUME TypeInv, ListInv, FailInv, AllSeen, ~SinglesFold, CaseKeepsOddNames,
           folding = folds, disk' = disk, Decides, NEW G, NEW R, Deciding(G, R)
    PROVE  \E H, S \in Entries' : Deciding(H, S)'
<1>0. /\ phase = "decide" /\ at <= Len(source) /\ at' = at + 1
      /\ source' = source /\ policy' = policy /\ folding' = folding /\ folds' = folds /\ volume' = volume
    BY DEF Decides, given, disk
<1>1. /\ at \in 1..Len(source) /\ entry = source[at] /\ Len(source) \in Nat
      /\ entry \in EntryType /\ entry.kind \in {"file", "dir"} /\ partials \subseteq PartialType
    <2>1. Len(source) \in Nat /\ partials \subseteq PartialType BY DEF TypeInv, GivenInv, IsListing
    <2> QED BY <1>0, <2>1, EntryIs
<1>2. Fates(G, R, at - 1) /\ Fit(G, R) /\ MakesOf(mkdirs, G, R) /\ MakesOf(files, G, R)
    BY DEF Deciding
<1>3. PICK H, S : Adds(H, S, G, R) BY DEF Adds
<1>4. Fates(H, S, at) /\ Fit(H, S) BY <1>0, <1>2, <1>3, FatesGrow
<1>5. /\ G \subseteq 1..(at - 1) /\ R \subseteq 1..(at - 1) /\ H \subseteq 1..at /\ S \subseteq 1..at
      /\ at \notin G /\ at \notin R
    <2>1. G \subseteq 1..(at - 1) /\ R \subseteq 1..(at - 1) /\ H \subseteq 1..at /\ S \subseteq 1..at
        BY <1>2, <1>4 DEF Fates
    <2> QED BY <1>1, <2>1
<1>6. /\ at \in H <=> ~IsBlocked(entry) /\ ~Collides(entry)
      /\ at \in S <=> ~IsBlocked(entry) /\ Refused
      /\ \A k : k # at => (k \in H <=> k \in G) /\ (k \in S <=> k \in R)
    BY <1>3, <1>5 DEF Adds
<1>7. G \ R \subseteq H \ S /\ \A k \in H \ S : k \in G \ R \/ k = at BY <1>5, <1>6
<1>8. MakesOf(mkdirs, H, S) /\ MakesOf(files, H, S) BY <1>2, <1>7, MakesStay
<1>9. mkdirs \in Seq(ActionType({"mkdir"})) /\ files \in Seq(ActionType({"copy", "skip"}))
    BY DEF TypeInv, DeciderInv
<1> DEFINE Keeps == /\ MakesOf(mkdirs', H, S) /\ MakesOf(files', H, S)
                    /\ \A k : IsIn(mkdirs, 1, k) => IsIn(mkdirs', 1, k)
                    /\ \A k : IsIn(files, 1, k) => IsIn(files', 1, k)
           Done1 == at \in H \ S => Placed(at) \/ IsIn(mkdirs', 1, at) \/ IsIn(files', 1, at)
<1>10. ASSUME NEW a \in ActionType({"copy", "skip"}), mkdirs' = mkdirs, files' = Append(files, a),
              a.do # "skip" => at \in H \ S /\ Makes(a, source[at])
       PROVE  Keeps /\ (a.do # "skip" => IsIn(files', 1, at))
    <2>1. a.do # "skip" => \E k \in H \ S : Makes(a, source[k]) BY <1>10
    <2>2. /\ MakesOf(Append(files, a), H, S)
          /\ \A k : IsIn(files, 1, k) => IsIn(Append(files, a), 1, k)
          /\ \A k : Makes(a, source[k]) => IsIn(Append(files, a), 1, k)
        BY <1>2, <1>7, <1>9, <1>10, <2>1, MakesMore
    <2> QED BY <1>8, <1>10, <2>2
<1>11. ASSUME Gives PROVE Keeps
    <2>1. PICK reason \in Reasons : files' = Append(files, Skip(entry, reason)) BY <1>11 DEF Gives
    <2>2. Skip(entry, reason) \in ActionType({"copy", "skip"}) BY <1>1, SkipTyped
    <2>3. Skip(entry, reason).do = "skip" BY DEF Skip, Action
    <2> QED BY <1>10, <1>11, <2>1, <2>2, <2>3 DEF Gives
<1> HIDE DEF Keeps
<1>12. ASSUME (StaysBlocked /\ Gives) \/ (Loses /\ Gives) PROVE Keeps /\ Done1
    <2>1. at \notin H BY <1>6, <1>12 DEF StaysBlocked, Loses
    <2> QED BY <1>11, <1>12, <2>1
<1>13. ASSUME Stands PROVE Keeps /\ Done1
    <2>0. ~IsBlocked(entry) /\ ~Collides(entry) /\ at \in H BY <1>6, <1>13 DEF Stands
    <2>1. ASSUME /\ entry.kind = "dir" /\ Get(entry.path) = {}
                 /\ mkdirs' = Append(mkdirs, Action("mkdir", entry, 0, "none")) /\ files' = files
          PROVE  Keeps /\ Done1
        <3> DEFINE a == Action("mkdir", entry, 0, "none")
        <3>1. "none" \in Reasons BY DEF Reasons
        <3>2. a \in ActionType({"mkdir"}) BY <1>1, <3>1, ActionTyped
        <3>3. Makes(a, source[at]) BY <1>1, <2>1 DEF Action, Makes
        <3>4. at \in H \ S BY <1>6, <2>0, <2>1 DEF Refused
        <3> HIDE DEF a
        <3>5. /\ MakesOf(Append(mkdirs, a), H, S)
              /\ \A k : IsIn(mkdirs, 1, k) => IsIn(Append(mkdirs, a), 1, k)
              /\ \A k : Makes(a, source[k]) => IsIn(Append(mkdirs, a), 1, k)
            BY <1>2, <1>7, <1>9, <3>2, <3>3, <3>4, MakesMore
        <3>6. mkdirs' = Append(mkdirs, a) BY <2>1 DEF a
        <3> QED BY <1>8, <2>1, <3>3, <3>5, <3>6 DEF Keeps
    <2>2. ASSUME entry.kind = "dir", Exists(entry.path), mkdirs' = mkdirs, files' = files
          PROVE  Keeps /\ Done1
        <3>1. PICK x \in AtIn(volume, entry.path) :
                x.is \in {"file", "dir", "locked"} /\ Get(entry.path) = {EntryOf(x)}
            <4>1. Get(source[at].path) # {} BY <1>1, <2>2 DEF Exists
            <4> QED BY <1>0, <1>1, <4>1, GetShows
        <3>2. Suits(x, entry) BY <1>0, <2>2, <3>1, SuitsOrNot
        <3>3. Placed(at) BY <1>1, <3>1, <3>2 DEF Placed
        <3> QED BY <1>8, <2>2, <3>3 DEF Keeps
    <2>3. ASSUME entry.kind = "dir", \E x \in Get(entry.path) : x.kind = "file", Gives
          PROVE  Keeps /\ Done1
        <3>1. at \in S BY <1>6, <2>0, <2>3 DEF Refused
        <3> QED BY <1>11, <2>3, <3>1
    <2>4. ASSUME entry.kind = "file", mkdirs' = mkdirs, files' = Append(files, DecideFile(entry))
          PROVE  Keeps /\ Done1
        <3>1. at \in H \ S BY <1>6, <2>0, <2>4 DEF Refused
        <3>2. ASSUME NEW reason \in {"new", "differs"}, DecideFile(entry) = Copy(entry, reason)
              PROVE  Keeps /\ Done1
            <4>1. reason \in Reasons BY DEF Reasons
            <4>2. Copy(entry, reason) \in ActionType({"copy", "skip"}) BY <1>1, <4>1, CopyTyped
            <4>3. Copy(entry, reason).do # "skip" /\ Makes(Copy(entry, reason), source[at])
                BY <1>1, <2>4 DEF Copy, Action, Makes
            <4> QED BY <1>10, <2>4, <3>1, <3>2, <4>2, <4>3
        <3>3. ASSUME NEW reason \in Reasons, DecideFile(entry) = Skip(entry, reason) PROVE Keeps
            BY <1>11, <2>4, <3>3 DEF Gives
        <3>4. CASE Get(entry.path) = {}
            <4>1. DecideFile(entry) = Copy(entry, "new") BY <3>4 DEF DecideFile
            <4> QED BY <3>2, <4>1
        <3>5. CASE Get(entry.path) # {}
            <4>1. PICK x \in AtIn(volume, entry.path) :
                    x.is \in {"file", "dir", "locked"} /\ Get(entry.path) = {EntryOf(x)}
                BY <1>0, <1>1, <3>5, GetShows
            <4>2. CASE Suits(x, entry)
                <5>1. \E reason \in Reasons : DecideFile(entry) = Skip(entry, reason)
                    BY <1>0, <2>4, <4>1, <4>2, SuitsOrNot
                <5>2. Placed(at) BY <1>1, <4>1, <4>2 DEF Placed
                <5> QED BY <3>3, <5>1, <5>2
            <4>3. CASE ~Suits(x, entry)
                <5>1. \/ policy = "fail" /\ \E y \in Get(entry.path) : IsConflict(entry, y)
                      \/ DecideFile(entry) = Copy(entry, "differs")
                    BY <1>0, <2>4, <4>1, <4>3, SuitsOrNot
                <5>2. DecideFile(entry) = Copy(entry, "differs") BY <1>0, <5>1, NoQuarrel
                <5> QED BY <3>2, <5>2
            <4> QED BY <4>2, <4>3
        <3> QED BY <3>4, <3>5
    <2> QED BY <1>13, <2>1, <2>2, <2>3, <2>4 DEF Stands
<1>14. Keeps /\ Done1 BY <1>12, <1>13 DEF Decides
<1>15. Fit(H, S)'
    <2>1. ~(Exists(entry.path) /\ \E x \in Get(entry.path) : x.kind = "file")
        <3> SUFFICES ASSUME Exists(entry.path), NEW y \in Get(entry.path), y.kind = "file" PROVE FALSE
            OBVIOUS
        <3>1. PICK x \in AtIn(volume, entry.path) : Get(entry.path) = {EntryOf(x)}
            BY <1>0, <1>1, GetShows
        <3> QED BY <3>1 DEF Exists
    <2>2. H \subseteq 1..Len(source) /\ S \subseteq 1..Len(source) BY <1>1, <1>5
    <2> QED BY <1>0, <1>4, <1>6, <2>1, <2>2, StaysFit
<1>16. \A k : (Placed(k)' <=> Placed(k)) /\ (InTheWay(k)' <=> InTheWay(k))
    BY <1>0 DEF Placed, InTheWay, Suits, AtIn
<1>17. Fates(H, S, at - 1)'
    <2>1. at' - 1 = at BY <1>0, <1>1
    <2>2. \A k : Fair(H, S, k)' <=> Fair(H, S, k) BY <1>0 DEF Fair, Beneath, Taken
    <2> QED BY <1>0, <1>4, <1>16, <2>1, <2>2 DEF Fates
<1>18. ASSUME NEW k \in H \ S
       PROVE  Placed(k)' \/ IsIn(mkdirs, 1, k)' \/ IsIn(files, 1, k)'
    <2>1. Placed(k) \/ IsIn(mkdirs', 1, k) \/ IsIn(files', 1, k)
        BY <1>7, <1>14 DEF Keeps, Deciding
    <2> QED BY <1>0, <1>16, <2>1 DEF IsIn
<1>19. MakesOf(mkdirs, H, S)' /\ MakesOf(files, H, S)' BY <1>0, <1>14 DEF Keeps, MakesOf
<1>20. H \in Entries' /\ S \in Entries' BY <1>0, <1>1, <1>5 DEF Entries
<1>21. Deciding(H, S)' BY <1>0, <1>15, <1>17, <1>18, <1>19 DEF Deciding
<1> QED BY <1>20, <1>21

\* One decision of the second plan: it makes nothing.
LEMMA SettledStep ==
    ASSUME TypeInv, ListInv, AllSeen, ~SinglesFold, CaseKeepsOddNames,
           folding = folds, disk' = disk, Decides, NEW G, NEW R, Settled(G, R),
           mkdirs = << >>, \A j \in 1..Len(files) : files[j].do = "skip"
    PROVE  /\ Settled(G, R)' /\ mkdirs' = << >>
           /\ \A j \in 1..Len(files') : files'[j].do = "skip"
<1>0. /\ phase = "decide" /\ at <= Len(source) /\ at' = at + 1
      /\ source' = source /\ policy' = policy /\ folding' = folding /\ folds' = folds /\ volume' = volume
    BY DEF Decides, given, disk
<1>1. /\ at \in 1..Len(source) /\ entry = source[at] /\ Len(source) \in Nat
      /\ entry \in EntryType /\ entry.kind \in {"file", "dir"}
    <2>1. Len(source) \in Nat BY DEF TypeInv, GivenInv, IsListing
    <2> QED BY <1>0, <2>1, EntryIs
<1>2. Fates(G, R, Len(source)) /\ Fit(G, R) /\ \A k \in G \ R : Placed(k) BY <1>0 DEF Settled
<1>3. G \subseteq 1..Len(source) /\ R \subseteq 1..Len(source) /\ Fair(G, R, at)
      /\ \A k \in G \cap R : InTheWay(k)
    BY <1>1, <1>2 DEF Fates
<1>4. (IsBlocked(entry) <=> Beneath(R, at)) /\ (Collides(entry) <=> Taken(G, at))
    BY <1>0, <1>2, <1>3, SeesFates
<1>5. /\ at \in G <=> ~IsBlocked(entry) /\ ~Collides(entry)
      /\ at \in R => entry.kind = "dir" /\ ~IsBlocked(entry)
      /\ entry.kind = "dir" /\ at \notin G /\ ~IsBlocked(entry) => at \in R
    BY <1>1, <1>3, <1>4 DEF Fair
<1>6. ASSUME at \in G \cap R
      PROVE  \E x \in AtIn(volume, entry.path) : Get(entry.path) = {EntryOf(x)} /\ EntryOf(x).kind = "file"
    <2>1. PICK x \in AtIn(volume, entry.path) : x.is = "file" BY <1>1, <1>3, <1>6 DEF InTheWay
    <2> QED BY <1>0, <2>1, SuitsOrNot, ShownAs
<1>7. ASSUME at \in G \ R
      PROVE  \E x \in AtIn(volume, entry.path) : /\ Get(entry.path) = {EntryOf(x)} /\ Suits(x, entry)
                                                 /\ x.is \in {"file", "dir", "locked"}
    <2>1. PICK x \in AtIn(volume, entry.path) : Suits(x, entry) BY <1>1, <1>2, <1>7 DEF Placed
    <2>2. x.is \in {"file", "dir", "locked"} BY <2>1 DEF Suits, IsFolder
    <2> QED BY <1>0, <2>1, <2>2, SuitsOrNot
<1>8. ASSUME at \in G \ R, entry.kind = "dir" PROVE Exists(entry.path) /\ ~\E y \in Get(entry.path) : y.kind = "file"
    <2>1. PICK x \in AtIn(volume, entry.path) : /\ Get(entry.path) = {EntryOf(x)} /\ Suits(x, entry)
                                                /\ x.is \in {"file", "dir", "locked"}
        BY <1>7, <1>8
    <2>2. Exists(entry.path) BY <1>0, <1>8, <2>1, SuitsOrNot
    <2> QED BY <2>1, <2>2 DEF Exists
<1>9. at \in R <=> ~IsBlocked(entry) /\ Refused
    <2>1. ASSUME at \in R PROVE ~IsBlocked(entry) /\ Refused
        <3>1. CASE at \in G BY <1>5, <1>6, <2>1, <3>1 DEF Refused
        <3>2. CASE at \notin G BY <1>5, <2>1, <3>2 DEF Refused
        <3> QED BY <3>1, <3>2
    <2>2. ASSUME ~IsBlocked(entry), Refused, at \notin R PROVE FALSE
        <3>1. entry.kind = "dir" /\ at \in G BY <1>5, <2>2 DEF Refused
        <3>2. \E x \in Get(entry.path) : x.kind = "file" BY <1>5, <2>2, <3>1 DEF Refused
        <3> QED BY <1>8, <2>2, <3>1, <3>2
    <2> QED BY <2>1, <2>2
<1>10. Fit(G, R)'
    <2>1. ~(Exists(entry.path) /\ \E x \in Get(entry.path) : x.kind = "file")
        <3> SUFFICES ASSUME Exists(entry.path), NEW y \in Get(entry.path), y.kind = "file" PROVE FALSE
            OBVIOUS
        <3>1. PICK x \in AtIn(volume, entry.path) : Get(entry.path) = {EntryOf(x)}
            BY <1>0, <1>1, GetShows
        <3> QED BY <3>1 DEF Exists
    <2> QED BY <1>0, <1>2, <1>3, <1>5, <1>9, <2>1, StaysFit
<1>11. ASSUME Gives PROVE mkdirs' = << >> /\ \A j \in 1..Len(files') : files'[j].do = "skip"
    <2>1. PICK reason \in Reasons : files' = Append(files, Skip(entry, reason)) BY <1>11 DEF Gives
    <2>2. files \in Seq(ActionType({"copy", "skip"})) BY DEF TypeInv, DeciderInv
    <2>3. Skip(entry, reason) \in ActionType({"copy", "skip"}) BY <1>1, SkipTyped
    <2>4. Skip(entry, reason).do = "skip" BY DEF Skip, Action
    <2>5. /\ \A i \in 1..Len(files) : files'[i] = files[i]
          /\ files'[Len(files) + 1] = Skip(entry, reason)
          /\ 1..Len(files') = 1..Len(files) \cup {Len(files) + 1}
        BY <2>1, <2>2, <2>3, Appended
    <2> QED BY <1>11, <2>4, <2>5 DEF Gives
<1>12. ASSUME Stands PROVE mkdirs' = << >> /\ \A j \in 1..Len(files') : files'[j].do = "skip"
    <2>0. at \in G BY <1>5, <1>12 DEF Stands
    <2>1. CASE entry.kind = "dir" /\ Get(entry.path) = {}
        BY <1>6, <1>7, <2>0, <2>1
    <2>2. CASE mkdirs' = mkdirs /\ files' = files BY <2>2
    <2>3. CASE Gives BY <1>11, <2>3
    <2>4. CASE /\ entry.kind = "file" /\ mkdirs' = mkdirs
               /\ files' = Append(files, DecideFile(entry))
        <3>1. at \in G \ R BY <1>5, <2>0, <2>4
        <3>2. PICK x \in AtIn(volume, entry.path) : /\ Get(entry.path) = {EntryOf(x)} /\ Suits(x, entry)
                                                    /\ x.is \in {"file", "dir", "locked"}
            BY <1>7, <3>1
        <3>3. \E reason \in Reasons : DecideFile(entry) = Skip(entry, reason)
            BY <1>0, <2>4, <3>2, SuitsOrNot
        <3> QED BY <1>11, <2>4, <3>3 DEF Gives
    <2> QED BY <1>12, <2>1, <2>2, <2>3, <2>4 DEF Stands
<1>13. mkdirs' = << >> /\ \A j \in 1..Len(files') : files'[j].do = "skip"
    BY <1>11, <1>12 DEF Decides
<1>14. \A k : (Placed(k)' <=> Placed(k)) /\ (InTheWay(k)' <=> InTheWay(k))
    BY <1>0 DEF Placed, InTheWay, Suits, AtIn
<1>15. Fates(G, R, Len(source))'
    <2>2. \A k : Fair(G, R, k)' <=> Fair(G, R, k) BY <1>0 DEF Fair, Beneath, Taken
    <2> QED BY <1>0, <1>2, <1>14, <2>2 DEF Fates
<1>16. \A k \in G \ R : Placed(k)' BY <1>2, <1>14
<1>17. Settled(G, R)' BY <1>10, <1>15, <1>16 DEF Settled
<1> QED BY <1>13, <1>17

\* A folder that could be made is there, beside all there was.
LEMMA FolderLands ==
    ASSUME DiskInv, NEW path \in Paths, MakeFolder(volume, path).ok
    PROVE  /\ volume \subseteq MakeFolder(volume, path).items
           /\ \E x \in AtIn(MakeFolder(volume, path).items, path) : IsFolder(x)
<1> DEFINE K == Kept(volume, path)
           made == MakeFolder(volume, path).items
<1>1. IsVolume(volume, folds) /\ folds \in Foldings BY DEF DiskInv
<1>2. path \in Seq(Names) /\ Len(path) \in 1..Len(path)
    <2>1. path \in Seq(Names) /\ path # << >> BY DEF Paths, Root
    <2> QED BY <2>1
<1>3. K \in Seq(Names) /\ Len(K) = Len(path) /\ Same(K, path, folds) BY <1>1, <1>2, KeptIs
<1>4. \A n \in 1..Len(path) : \E k \in made : k.path = SubSeq(K, 1, n) /\ IsFolder(k)
    BY <1>1, <1>2, MakeFolderKeepsVolume
<1>5. volume \subseteq made BY DEF MakeFolder
<1> HIDE DEF K, made
<1>6. SubSeq(K, 1, Len(path)) = K
    <2>1. Len(path) \in 0..Len(K) BY <1>2, <1>3
    <2>2. /\ SubSeq(K, 1, Len(path)) \in Seq(Names) /\ Len(SubSeq(K, 1, Len(path))) = Len(path)
          /\ \A k \in 1..Len(path) : SubSeq(K, 1, Len(path))[k] = K[k]
        BY <1>3, <2>1, UpToType
    <2> QED BY <1>3, <2>2, PathsEqual
<1>7. PICK k \in made : k.path = K /\ IsFolder(k) BY <1>2, <1>4, <1>6
<1>8. k \in AtIn(made, path) BY <1>3, <1>7 DEF AtIn
<1> QED BY <1>5, <1>7, <1>8 DEF made

\* So is a file that could be put, and nothing else is gone but its own parts.
LEMMA FileLands ==
    ASSUME DiskInv, NEW a, a.path \in Paths, PutFile(volume, a).ok
    PROVE  /\ volume \ LeftBy(volume, a.path) \subseteq PutFile(volume, a).items
           /\ \E x \in AtIn(PutFile(volume, a).items, a.path) : x.is = "file" /\ x.size = a.size
<1> DEFINE q == Parent(a.path)
           F == MakeFolder(volume, q).items
           to == Append(Kept(F, q), Last(a.path))
           new == Item(to, "file", a.size, a.modified)
           put == PutFile(volume, a).items
<1>1. IsVolume(volume, folds) /\ folds \in Foldings BY DEF DiskInv
<1>2. q \in Seq(Names) /\ Last(a.path) \in Names /\ a.path = Append(q, Last(a.path)) BY FrontOf
<1>3. MakeFolder(volume, q).ok BY DEF PutFile
<1>4. put = (F \ LeftBy(volume, a.path)) \cup {new} /\ volume \subseteq F BY DEF PutFile, MakeFolder
<1>5. IsVolume(F, folds) BY <1>1, <1>2, <1>3, MakeFolderKeepsVolume
<1>6. new.path = to /\ new.is = "file" /\ new.size = a.size BY DEF Item
<1> HIDE DEF F, q, put, new
<1>7. Kept(F, q) \in Seq(Names) /\ Same(Kept(F, q), q, folds) BY <1>1, <1>2, <1>5, KeptIs
<1>8. Same(to, a.path, folds) BY <1>1, <1>2, <1>7, SameAppend
<1>9. new \in AtIn(put, a.path) BY <1>4, <1>6, <1>8 DEF AtIn
<1> QED BY <1>4, <1>6, <1>9 DEF put

\* A transfer's own files are in the place of no entry but their own.
LEMMA Undisturbed ==
    ASSUME TypeInv, CaseKeepsOddNames, NEW k \in 1..Len(source), NEW m \in 1..Len(source),
           NEW x \in AtIn(volume, source[k].path), x \in LeftBy(volume, source[m].path)
    PROVE  Same(source[k].path, source[m].path, folds)
<1> DEFINE p == source[m].path
<1>1. folds \in Foldings /\ IsListing(source) BY DEF TypeInv, DiskInv, GivenInv
<1>2. source[k].path \in Seq(Names) /\ p \in Paths
    <2>1. source[k] \in EntryType /\ source[m] \in EntryType BY <1>1 DEF IsListing
    <2> QED BY <2>1 DEF EntryType, Paths
<1>3. Same(x.path, source[k].path, folds) /\ x.path \in Seq(Names)
    <2>1. x \in volume /\ Same(x.path, source[k].path, folds) BY DEF AtIn
    <2> QED BY <2>1, VolumeFacts DEF TypeInv, DiskInv
<1>4. PICK n \in ResumeFiles(Last(p)) : x \in AtIn(volume, Append(Parent(p), n)) BY DEF LeftBy
<1> HIDE DEF p
<1>5. Parent(p) \in Seq(Names) /\ Last(p) \in Names /\ p = Append(Parent(p), Last(p)) BY <1>2, FrontOf
<1>6. n = Last(p) \/ (n \in Reserved /\ n \in Names)
    <2>1. n = Last(p) \/ (Last(p) \in DOMAIN PartOf /\ n \in {PartOf[Last(p)], SidecarOf[Last(p)]})
        BY DEF ResumeFiles
    <2>2. PartOf \in [DOMAIN PartOf -> Names] /\ SidecarOf \in [DOMAIN PartOf -> Names]
        BY LocalScanAssumption
    <2>3. ASSUME Last(p) \in DOMAIN PartOf
          PROVE  /\ PartOf[Last(p)] \in Range(PartOf) /\ PartOf[Last(p)] \in Names
                 /\ SidecarOf[Last(p)] \in Range(SidecarOf) /\ SidecarOf[Last(p)] \in Names
        BY <2>2, <2>3 DEF Range
    <2>4. ASSUME n # Last(p) PROVE n \in Reserved /\ n \in Names
        <3>1. n = PartOf[Last(p)] \/ n = SidecarOf[Last(p)] BY <2>1, <2>4
        <3>2. Last(p) \in DOMAIN PartOf BY <2>1, <2>4
        <3> QED BY <2>3, <3>1, <3>2 DEF Reserved
    <2> QED BY <2>4
<1> DEFINE q == Append(Parent(p), n)
<1>7. q \in Paths /\ Last(q) = n BY <1>5, <1>6, AppendTo
<1>8. Same(x.path, q, folds) BY <1>4 DEF AtIn
<1> HIDE DEF q
<1>9. q \in Seq(Names) /\ q # << >> BY <1>7 DEF Paths, Root
<1>10. Same(q, source[k].path, folds) /\ Same(source[k].path, q, folds)
    BY <1>1, <1>2, <1>3, <1>8, <1>9, SameIsEquivalence
<1>11. n \notin OddNames
    <2>1. \A i \in 1..Len(q) : q[i] \notin OddNames BY <1>9, <1>10, NotOdd
    <2>2. Len(q) \in 1..Len(q) BY <1>9
    <2> QED BY <1>7, <2>1, <2>2 DEF Last
<1>12. q = p BY <1>5, <1>6, <1>11 DEF q, OddNames
<1> QED BY <1>10, <1>12 DEF p

\* Of one name only one thing is put anywhere, unless both are folders.
LEMMA OneOfAName ==
    ASSUME TypeInv, NEW G, NEW R, Fates(G, R, Len(source)), NEW k \in G, NEW m \in G,
           source[m].kind = "file", Same(source[k].path, source[m].path, folds)
    PROVE  k = m
<1>1. IsListing(source) /\ folds \in Foldings BY DEF TypeInv, GivenInv, DiskInv
<1>2. k \in 1..Len(source) /\ m \in 1..Len(source) /\ Len(source) \in Nat
    BY <1>1 DEF Fates, IsListing
<1>3. ~Taken(G, k) /\ ~Taken(G, m) BY <1>2 DEF Fates, Fair
<1>4. CASE folds = "exact"
    <2>1. source[k].path = source[m].path BY <1>4 DEF Same
    <2>2. ~(k < m) /\ ~(m < k) BY <1>2, <2>1, EarlierIsBefore
    <2> QED BY <1>2, <2>2
<1>5. CASE folds = "insensitive"
    <2>1. Fold(source[k].path) = Fold(source[m].path) BY <1>5 DEF Same
    <2>2. ~(k < m) BY <1>2, <1>3, <1>5, <2>1 DEF Taken
    <2>3. ~(m < k) BY <1>2, <1>3, <1>5, <2>1 DEF Taken
    <2> QED BY <1>2, <2>2, <2>3
<1> QED BY <1>1, <1>4, <1>5 DEF Foldings

\* One action of the first plan, carried out: every entry keeps what it has,
\* and this one gets it.
LEMMA RunKeeps ==
    ASSUME TypeInv, CaseKeepsOddNames, RunAction, failed = {}, failed' = {},
           NEW G, NEW R, Running(G, R)
    PROVE  Running(G, R)'
<1> DEFINE a == Actions[ran + 1]
<1>1. /\ ran < Len(Actions) /\ ran' = ran + 1
      /\ folds' = folds /\ given' = given /\ decider' = decider
    BY DEF RunAction
<1>2. volume' = Effect(a).items /\ Effect(a).ok
    <2>1. \/ Effect(a).ok /\ volume' = Effect(a).items
          \/ failed' = failed \cup {a.path}
        BY Zenon DEF RunAction
    <2> HIDE DEF a
    <2>2. a.path \in failed \cup {a.path} OBVIOUS
    <2> QED BY <2>1, <2>2
<1>3. /\ DiskInv /\ IsListing(source) /\ Len(source) \in Nat /\ ran \in Nat
      /\ Actions \in Seq(ActionType({"mkdir", "copy", "skip"})) /\ Len(Actions) \in Nat
    <2>1. Actions \in Seq(ActionType({"mkdir", "copy", "skip"})) BY ActionsAre DEF TypeInv
    <2>2. Len(Actions) \in Nat BY <2>1
    <2>3. DiskInv /\ IsListing(source) /\ ran \in Nat BY DEF TypeInv, GivenInv, PhaseInv
    <2>4. Len(source) \in Nat BY <2>3 DEF IsListing
    <2> QED BY <2>1, <2>2, <2>3, <2>4
<1>4. a \in ActionType({"mkdir", "copy", "skip"}) /\ ran + 1 \in 1..Len(Actions) BY <1>1, <1>3
<1>5. a.do \in {"mkdir", "copy", "skip"} /\ a.path \in Paths BY <1>4 DEF ActionType
<1>6. /\ Fates(G, R, Len(source)) /\ MakesOf(Actions, G, R)
      /\ \A k \in G \ R : Placed(k) \/ IsIn(Actions, ran + 1, k)
    BY DEF Running
<1>7. /\ G \subseteq 1..Len(source) /\ R \subseteq 1..Len(source) /\ \A k \in G \cap R : InTheWay(k)
      /\ \A k \in R : source[k].kind = "dir"
    <2>1. G \subseteq 1..Len(source) /\ R \subseteq 1..Len(source) /\ \A k \in G \cap R : InTheWay(k)
        BY <1>6 DEF Fates
    <2>2. \A k \in R : Fair(G, R, k) BY <1>6, <2>1 DEF Fates
    <2> QED BY <2>1, <2>2 DEF Fair
<1>8. source' = source /\ policy' = policy /\ Actions' = Actions
    BY <1>1 DEF given, decider, Actions
<1> HIDE DEF a
<1>9. ASSUME NEW k, IsIn(Actions, ran + 1, k) PROVE Makes(a, source[k]) \/ IsIn(Actions, ran + 2, k)
    <2>1. PICK j \in (ran + 1)..Len(Actions) : Makes(Actions[j], source[k]) BY <1>9 DEF IsIn
    <2>2. CASE j = ran + 1 BY <2>1, <2>2 DEF a
    <2>3. CASE j # ran + 1
        <3>1. j \in (ran + 2)..Len(Actions) BY <1>3, <2>3
        <3> QED BY <2>1, <3>1 DEF IsIn
    <2> QED BY <2>2, <2>3
<1> DEFINE At(k) == AtIn(volume', source[k].path)
           Way == \A k \in G \cap R : \E x \in At(k) : x.is = "file"
           Place == \A k \in G \ R : (\E x \in At(k) : Suits(x, source[k])) \/ IsIn(Actions, ran + 2, k)
<1>10. ASSUME NEW k, NEW x \in AtIn(volume, source[k].path), x \in volume' PROVE x \in At(k)
    BY <1>10 DEF AtIn
<1>11. ASSUME a.do = "skip" PROVE Way /\ Place
    <2>1. volume' = volume BY <1>2, <1>11 DEF Effect
    <2>2. \A k : ~Makes(a, source[k]) BY <1>11 DEF Makes
    <2> QED BY <1>6, <1>7, <1>9, <2>1, <2>2 DEF InTheWay, Placed
<1>12. ASSUME a.do = "mkdir" PROVE Way /\ Place
    <2>1. volume' = MakeFolder(volume, a.path).items /\ MakeFolder(volume, a.path).ok
        BY <1>2, <1>12 DEF Effect
    <2>2. /\ volume \subseteq volume'
          /\ \E x \in AtIn(volume', a.path) : IsFolder(x)
        BY <1>3, <1>5, <2>1, FolderLands
    <2>3. \A k : \A x \in AtIn(volume, source[k].path) : x \in At(k) BY <2>2 DEF AtIn
    <2>4. ASSUME NEW k \in G \ R PROVE (\E x \in At(k) : Suits(x, source[k])) \/ IsIn(Actions, ran + 2, k)
        <3>1. CASE Placed(k) BY <2>3, <3>1 DEF Placed
        <3>2. CASE Makes(a, source[k])
            <4>1. a.path = source[k].path BY <3>2 DEF Makes
            <4>2. source[k].kind = "dir" BY <1>12, <3>2 DEF Makes
            <4> QED BY <2>2, <4>1, <4>2 DEF Suits
        <3> QED BY <1>6, <1>9, <3>1, <3>2
    <2> QED BY <1>7, <2>3, <2>4 DEF InTheWay
<1>13. ASSUME a.do = "copy" PROVE Way /\ Place
    <2>1. volume' = PutFile(volume, a).items /\ PutFile(volume, a).ok BY <1>2, <1>13 DEF Effect
    <2>2. /\ volume \ LeftBy(volume, a.path) \subseteq volume'
          /\ \E x \in AtIn(volume', a.path) : x.is = "file" /\ x.size = a.size
        BY <1>3, <1>5, <2>1, FileLands
    <2>3. PICK m \in G \ R : Makes(a, source[m]) BY <1>4, <1>6, <1>13 DEF MakesOf, a
    <2>4. m \in 1..Len(source) /\ a.path = source[m].path BY <1>7, <2>3 DEF Makes
    <2>5. source[m].kind = "file" BY <1>13, <2>3, <2>4, SourcePaths DEF Makes
    <2>6. \A k \in G : k # m => \A x \in AtIn(volume, source[k].path) : x \in At(k)
        <3> SUFFICES ASSUME NEW k \in G, k # m, NEW x \in AtIn(volume, source[k].path)
                     PROVE  x \in At(k)
            OBVIOUS
        <3>1. ~Same(source[k].path, source[m].path, folds) BY <1>6, <2>3, <2>5, OneOfAName
        <3>2. k \in 1..Len(source) BY <1>7
        <3>3. x \notin LeftBy(volume, a.path) BY <2>4, <3>1, <3>2, Undisturbed
        <3>4. x \in volume' BY <2>2, <3>3 DEF AtIn
        <3> QED BY <1>10, <3>4
    <2>7. Way
        <3> SUFFICES ASSUME NEW k \in G \cap R PROVE \E x \in At(k) : x.is = "file" OBVIOUS
        <3>1. k # m BY <2>3
        <3> QED BY <1>7, <2>6, <3>1 DEF InTheWay
    <2>8. ASSUME NEW k \in G \ R PROVE (\E x \in At(k) : Suits(x, source[k])) \/ IsIn(Actions, ran + 2, k)
        <3>1. ASSUME Makes(a, source[k]) PROVE \E x \in At(k) : Suits(x, source[k])
            <4>1. a.path = source[k].path BY <3>1 DEF Makes
            <4>2. source[k].kind = "file" /\ a.size = source[k].size
                <5>1. k \in 1..Len(source) BY <1>7
                <5> QED BY <1>13, <3>1, <5>1, SourcePaths DEF Makes
            <4> QED BY <2>2, <4>1, <4>2 DEF Suits
        <3>2. CASE k = m BY <2>3, <3>1, <3>2
        <3>3. CASE k # m /\ Placed(k) BY <2>6, <3>3 DEF Placed
        <3> QED BY <1>6, <1>9, <3>1, <3>2, <3>3
    <2> QED BY <2>7, <2>8
<1>14. Way /\ Place BY <1>5, <1>11, <1>12, <1>13
<1>15. \A k : (Placed(k)' <=> \E x \in At(k) : Suits(x, source[k]))
              /\ (InTheWay(k)' <=> \E x \in At(k) : x.is = "file")
    BY <1>1, <1>8 DEF Placed, InTheWay, Suits, AtIn
<1> HIDE DEF At
<1>16. Fates(G, R, Len(source))'
    <2>1. \A k : Fair(G, R, k)' <=> Fair(G, R, k) BY <1>1, <1>8 DEF Fair, Beneath, Taken
    <2> QED BY <1>6, <1>8, <1>14, <1>15, <2>1 DEF Fates
<1>17. MakesOf(Actions, G, R)' BY <1>6, <1>8 DEF MakesOf
<1>18. ASSUME NEW k \in G \ R PROVE Placed(k)' \/ IsIn(Actions, ran + 1, k)'
    <2>1. ran' + 1 = ran + 2 BY <1>1, <1>3
    <2>2. Placed(k)' \/ IsIn(Actions, ran + 2, k) BY <1>14, <1>15
    <2> QED BY <1>8, <2>1, <2>2 DEF IsIn
<1> QED BY <1>16, <1>17, <1>18 DEF Running

\* The first plan is there to be carried out as it was decided.
LEMMA DecidedRuns ==
    ASSUME TypeInv, EndDecide, disk' = disk, runVars' = runVars, ran = 0,
           NEW G, NEW R, Deciding(G, R)
    PROVE  Running(G, R)'
<1>1. /\ at > Len(source) /\ given' = given /\ decider' = decider /\ volume' = volume /\ folds' = folds
      /\ ran' = 0
    BY DEF EndDecide, disk, runVars
<1>2. at - 1 = Len(source) BY <1>1 DEF TypeInv, DeciderInv, GivenInv, IsListing
<1>3. /\ Fates(G, R, Len(source)) /\ MakesOf(mkdirs, G, R) /\ MakesOf(files, G, R)
      /\ \A k \in G \ R : Placed(k) \/ IsIn(mkdirs, 1, k) \/ IsIn(files, 1, k)
    BY <1>2 DEF Deciding
<1>4. /\ Len(mkdirs) \in Nat /\ Len(files) \in Nat /\ Len(Actions) = Len(mkdirs) + Len(files)
      /\ \A i \in 1..Len(mkdirs) : Actions[i] = mkdirs[i]
      /\ \A i \in 1..Len(files) : Actions[Len(mkdirs) + i] = files[i]
    BY ActionsAre DEF TypeInv, DeciderInv
<1>5. ASSUME NEW j \in 1..Len(Actions), Actions[j].do # "skip"
      PROVE  \E k \in G \ R : Makes(Actions[j], source[k])
    <2>1. CASE j \in 1..Len(mkdirs) BY <1>3, <1>4, <1>5, <2>1 DEF MakesOf
    <2>2. CASE j \notin 1..Len(mkdirs)
        <3>1. j - Len(mkdirs) \in 1..Len(files) /\ Len(mkdirs) + (j - Len(mkdirs)) = j BY <1>4, <2>2
        <3>2. Actions[j] = files[j - Len(mkdirs)] BY <1>4, <3>1
        <3> QED BY <1>3, <1>5, <3>1, <3>2 DEF MakesOf
    <2> QED BY <2>1, <2>2
<1>6. ASSUME NEW k, IsIn(mkdirs, 1, k) \/ IsIn(files, 1, k) PROVE IsIn(Actions, 1, k)
    <2>1. ASSUME NEW j \in 1..Len(mkdirs), Makes(mkdirs[j], source[k]) PROVE IsIn(Actions, 1, k)
        <3>1. j \in 1..Len(Actions) BY <1>4
        <3> QED BY <1>4, <2>1, <3>1 DEF IsIn
    <2>2. ASSUME NEW j \in 1..Len(files), Makes(files[j], source[k]) PROVE IsIn(Actions, 1, k)
        <3>1. Len(mkdirs) + j \in 1..Len(Actions) BY <1>4
        <3> QED BY <1>4, <2>2, <3>1 DEF IsIn
    <2> QED BY <1>6, <2>1, <2>2 DEF IsIn
<1>7. source' = source /\ policy' = policy /\ Actions' = Actions
    BY <1>1 DEF given, decider, Actions
<1>8. \A k : /\ Placed(k)' <=> Placed(k)
             /\ InTheWay(k)' <=> InTheWay(k)
             /\ Fair(G, R, k)' <=> Fair(G, R, k)
    BY <1>1, <1>7 DEF Placed, InTheWay, Suits, AtIn, Fair, Beneath, Taken
<1>9. Fates(G, R, Len(source))' BY <1>3, <1>7, <1>8 DEF Fates
<1>10. MakesOf(Actions, G, R)' BY <1>5, <1>7 DEF MakesOf
<1>11. ASSUME NEW k \in G \ R PROVE Placed(k)' \/ IsIn(Actions, ran + 1, k)'
    <2>1. ran' + 1 = 1 BY <1>1
    <2>2. Placed(k) \/ IsIn(Actions, 1, k) BY <1>3, <1>6
    <2> QED BY <1>7, <1>8, <2>1, <2>2 DEF IsIn
<1> QED BY <1>9, <1>10, <1>11 DEF Running

\* And when it was carried out there is nothing left of it.
LEMMA RunSettles ==
    ASSUME TypeInv, RunAgain, NEW G, NEW R, Running(G, R)
    PROVE  Settled(G, R)'
<1>1. /\ ran = Len(Actions) /\ phase' = "idle" /\ disk' = disk /\ given' = given
      /\ source' = source /\ policy' = policy /\ volume' = volume /\ folds' = folds
    BY DEF RunAgain, disk, given
<1>2. Fates(G, R, Len(source)) /\ \A k \in G \ R : Placed(k) \/ IsIn(Actions, ran + 1, k)
    BY DEF Running
<1>3. Len(Actions) \in Nat
    <2>1. Len(mkdirs) \in Nat /\ Len(files) \in Nat /\ Len(Actions) = Len(mkdirs) + Len(files)
        BY ActionsAre DEF TypeInv, DeciderInv
    <2> QED BY <2>1
<1>4. \A k : ~IsIn(Actions, ran + 1, k) BY <1>1, <1>3 DEF IsIn
<1>5. \A k : /\ Placed(k)' <=> Placed(k)
             /\ InTheWay(k)' <=> InTheWay(k)
             /\ Fair(G, R, k)' <=> Fair(G, R, k)
    BY <1>1 DEF Placed, InTheWay, Suits, AtIn, Fair, Beneath, Taken
<1>6. Fates(G, R, Len(source))' BY <1>1, <1>2, <1>5 DEF Fates
<1>7. \A k \in G \ R : Placed(k)' BY <1>2, <1>4, <1>5
<1> QED BY <1>1, <1>6, <1>7 DEF Settled

\* What is kept of the two runs is about the volume, the source and the planner.
LEMMA SaysTheSame ==
    ASSUME disk' = disk, source' = source, policy' = policy, decider' = decider, ran' = ran
    PROVE  /\ Entries' = Entries
           /\ \A G, R : /\ Deciding(G, R)' <=> Deciding(G, R)
                        /\ Running(G, R)' <=> Running(G, R)
                        /\ Fates(G, R, Len(source))' <=> Fates(G, R, Len(source))
                        /\ Fit(G, R)' <=> Fit(G, R)
           /\ \A k : Placed(k)' <=> Placed(k)
<1>1. /\ volume' = volume /\ folds' = folds /\ at' = at /\ claims' = claims /\ blocked' = blocked
      /\ mkdirs' = mkdirs /\ files' = files /\ Actions' = Actions
    BY DEF disk, decider, Actions
<1>2. \A k : (Placed(k)' <=> Placed(k)) /\ (InTheWay(k)' <=> InTheWay(k))
    BY <1>1 DEF Placed, InTheWay, Suits, AtIn
<1>3. \A G, R, k : Fair(G, R, k)' <=> Fair(G, R, k) BY <1>1 DEF Fair, Beneath, Taken
<1>4. \A G, R, n : Fates(G, R, n)' <=> Fates(G, R, n) BY <1>2, <1>3 DEF Fates
<1>5. \A G, R : Fates(G, R, at - 1)' <=> Fates(G, R, at - 1) BY <1>1, <1>2, <1>3 DEF Fates
<1>6. \A G, R : Fates(G, R, Len(source))' <=> Fates(G, R, Len(source)) BY <1>2, <1>3 DEF Fates
<1>7. \A G, R : Fit(G, R)' <=> Fit(G, R) BY <1>1 DEF Fit, ClaimsFit, BlockFits, UnderBlock
<1>8. \A k : /\ IsIn(mkdirs, 1, k)' <=> IsIn(mkdirs, 1, k)
             /\ IsIn(files, 1, k)' <=> IsIn(files, 1, k)
             /\ IsIn(Actions, ran + 1, k)' <=> IsIn(Actions, ran + 1, k)
    BY <1>1 DEF IsIn
<1>9. \A G, R : /\ MakesOf(mkdirs, G, R)' <=> MakesOf(mkdirs, G, R)
                /\ MakesOf(files, G, R)' <=> MakesOf(files, G, R)
                /\ MakesOf(Actions, G, R)' <=> MakesOf(Actions, G, R)
    BY <1>1 DEF MakesOf
<1>10. \A G, R : Deciding(G, R)' <=> Deciding(G, R) BY <1>2, <1>5, <1>7, <1>8, <1>9 DEF Deciding
<1>11. \A G, R : Running(G, R)' <=> Running(G, R) BY <1>2, <1>6, <1>8, <1>9 DEF Running
<1>12. Entries' = Entries BY DEF Entries
<1> QED BY <1>2, <1>6, <1>7, <1>10, <1>11, <1>12

\* Before the first entry nothing is decided.
LEMMA DecidingStarts ==
    ASSUME at' = 1, claims' = {}, blocked' = << >>, mkdirs' = << >>, files' = << >>
    PROVE  {} \in Entries' /\ Deciding({}, {})'
<1>1. at' - 1 = 0 /\ 1..0 = {} OBVIOUS
<1>2. Fates({}, {}, at - 1)' BY <1>1 DEF Fates
<1>3. Fit({}, {})' BY DEF Fit, ClaimsFit, BlockFits
<1>4. MakesOf(mkdirs, {}, {})' /\ MakesOf(files, {}, {})' BY DEF MakesOf
<1> QED BY <1>2, <1>3, <1>4 DEF Deciding, Entries

LEMMA FitStarts ==
    ASSUME at' = 1, claims' = {}, blocked' = << >>,
           NEW G \in Entries, NEW R \in Entries
    PROVE  Fit(G, R)'
<1>1. \A k \in G \cup R : ~(k < at') BY DEF Entries
<1> QED BY <1>1 DEF Fit, ClaimsFit, BlockFits

\* The second time round the pass that looks for conflicts finds none.
LEMMA CollectsNone ==
    ASSUME TypeInv, ListInv, FailInv, AllSeen, ~SinglesFold, CaseKeepsOddNames, folding = folds,
           phase = "collect", policy = "fail", at <= Len(source),
           NEW G, NEW R, Fates(G, R, Len(source)), \A k \in G \ R : Placed(k)
    PROVE  ~Conflicting(entry)
<1>1. at \in 1..Len(source) /\ entry = source[at] /\ entry.kind \in {"file", "dir"} BY EntryIs
<1>2. R = {} /\ G = 1..Len(source) /\ ~Taken(G, at) BY <1>1 DEF Fates, Fair
<1>3. PICK x \in AtIn(volume, entry.path) : Suits(x, entry) BY <1>1, <1>2 DEF Placed
<1>4. x.is \in {"file", "dir", "locked"} /\ x \in volume /\ Same(x.path, entry.path, folds)
    BY <1>3 DEF Suits, IsFolder, AtIn
<1>5. Get(entry.path) = {EntryOf(x)} BY <1>1, <1>4, GetIsIt DEF AllSeen
<1>6. ~IsConflict(entry, EntryOf(x))
    <2>1. CASE entry.kind = "dir"
        <3>1. IsFolder(x) /\ x.is # "file" BY <1>3, <2>1 DEF Suits, IsFolder
        <3>2. EntryOf(x).kind = "dir" /\ EntryOf(x).size = 0 BY <1>4, <3>1, ShownAs
        <3>3. entry.size = 0 BY <1>1, <2>1 DEF TypeInv, GivenInv, IsListing
        <3> QED BY <2>1, <3>2, <3>3 DEF IsConflict
    <2>2. CASE entry.kind = "file"
        <3>1. x.is = "file" /\ x.size = entry.size BY <1>3, <2>2 DEF Suits
        <3>2. EntryOf(x).kind = "file" /\ EntryOf(x).size = x.size BY <1>4, <3>1, ShownAs
        <3> QED BY <2>2, <3>1, <3>2 DEF IsConflict
    <2> QED BY <1>1, <2>1, <2>2
<1>7. ~Collides(entry)
    <2> SUFFICES ASSUME folding = "insensitive", NEW c \in claims, c.name = Fold(entry.path),
                        ~(entry.kind = "dir" /\ c.kind = "dir")
                 PROVE  FALSE
        BY DEF Collides
    <2>1. claims = ClaimsBefore(at) BY DEF FailInv
    <2>2. PICK k \in 1..(at - 1) : c = [name |-> Fold(source[k].path), kind |-> source[k].kind]
        BY <2>1 DEF ClaimsBefore
    <2>3. k \in G /\ k < at BY <1>1, <1>2
    <2>4. Fold(source[k].path) = Fold(source[at].path) /\ ~(source[k].kind = "dir" /\ source[at].kind = "dir")
        BY <1>1, <2>2
    <2> QED BY <1>2, <2>3, <2>4 DEF Taken
<1> QED BY <1>5, <1>6, <1>7 DEF Conflicting

\* A scan that had a name to try tells how the volume compares names.
LEMMA FoldingKept ==
    ASSUME TypeInv, FoldingInv, baseTells = folds, [Next]_vars
    PROVE  FoldingInv' /\ folds' = folds /\ baseTells' = baseTells
<1>1. folds \in Foldings /\ found \in FoundType BY DEF TypeInv, DiskInv, ScanInv
<1>2. folds' = folds /\ baseTells' = baseTells
    BY DEF Next, vars, Scan, Cancel, Begin, Plan, RunAction, RunAgain, disk
<1>3. CASE Scan
    <2>1. phase' = phase /\ folding' = folding BY <1>3 DEF Scan, plannerVars, given
    <2>2. ASSUME walk' = "listed" PROVE found'.folding = folds
        <3>1. FinishWalk
            BY <1>3, <2>2, Zenon DEF Scan, LocalScanNext, StatRoot, WalkCancelled, FailWalk, VisitUnlistable,
                VisitUnwanted, VisitEntry, VisitTransferFile, VisitUnreadable, Walking
        <3>2. PICK tells \in Foldings : Detected(tells) /\ found' = [found EXCEPT !.folding = tells]
            BY <3>1 DEF FinishWalk
        <3>3. tells = folds BY <1>1, <3>2 DEF Detected, Foldings
        <3> QED BY <1>1, <3>2, <3>3 DEF FoundType
    <2> QED BY <1>2, <2>1, <2>2 DEF FoldingInv
<1>4. CASE Begin
    BY <1>2, <1>4 DEF Begin, BeginPlan, HandOver, FoldingInv
<1>5. CASE Plan
    <2>1. given' = given /\ phase # "idle"
        BY <1>5 DEF Plan, PlannerNext, CollectConflict, EndCollect, DecideBlocked, DecideCollision,
            DecideMkdir, DecideExists, DecideInTheWay, DecideOneFile, EndDecide, Free, More
    <2> QED BY <1>2, <1>5, <2>1 DEF Plan, scanVars, given, FoldingInv
<1>6. CASE RunAction BY <1>2, <1>6 DEF RunAction, scanVars, given, FoldingInv
<1>7. CASE RunAgain BY <1>2, <1>7 DEF RunAgain, ScanAgain, given, FoldingInv
<1>8. CASE Cancel \/ UNCHANGED vars
    BY <1>2, <1>8 DEF Cancel, vars, scanVars, plannerVars, given, FoldingInv
<1> QED BY <1>2, <1>3, <1>4, <1>5, <1>6, <1>7, <1>8 DEF Next

LEMMA AgainInit == Init => AgainInv
<1> QED BY DEF Init, AgainInv, FoldingInv, FirstInv, SecondInv

LEMMA FirstStep ==
    ASSUME TypeInv, ListInv, FailInv, AgainInv, ~SinglesFold, CaseKeepsOddNames,
           AllSeen, baseTells = folds, [Next]_vars
    PROVE  FirstInv'
<1>1. FoldingInv /\ FirstInv BY DEF AgainInv
<1>2. SUFFICES ASSUME round' = 0
               PROVE  /\ phase' # "run" => ran' = 0 /\ failed' = {}
                      /\ phase' = "decide" => \E G, R \in Entries' : Deciding(G, R)'
                      /\ phase' \in {"ready", "run"} /\ failed' = {} =>
                            \E G, R \in Entries' : Running(G, R)'
    BY Zenon DEF FirstInv
<1>3. round = 0
    BY <1>2 DEF Next, vars, runVars, Scan, Cancel, Begin, Plan, RunAction, RunAgain
<1>4. /\ phase # "run" => ran = 0 /\ failed = {}
      /\ phase = "decide" => \E G, R \in Entries : Deciding(G, R)
      /\ phase \in {"ready", "run"} /\ failed = {} => \E G, R \in Entries : Running(G, R)
    BY <1>1, <1>3 DEF FirstInv
<1>5. CASE UNCHANGED vars \/ Cancel \/ Scan
    <2>1. disk' = disk /\ given' = given /\ decider' = decider /\ phase' = phase /\ runVars' = runVars
        BY <1>5 DEF vars, Cancel, Scan, plannerVars
    <2>2. source' = source /\ policy' = policy /\ ran' = ran /\ failed' = failed
        BY <2>1 DEF given, runVars
    <2>3. /\ Entries' = Entries
          /\ \A G, R : (Deciding(G, R)' <=> Deciding(G, R)) /\ (Running(G, R)' <=> Running(G, R))
        BY <2>1, <2>2, SaysTheSame
    <2> QED BY <1>4, <2>1, <2>2, <2>3
<1>6. CASE Begin
    <2>1. /\ phase = "idle" /\ phase' \in {"collect", "decide"} /\ decider' = decider /\ runVars' = runVars
        BY <1>6 DEF Begin, BeginPlan
    <2>2. Blank BY <2>1 DEF TypeInv, PhaseInv
    <2>3. {} \in Entries' /\ Deciding({}, {})' BY <2>1, <2>2, DecidingStarts DEF decider, Blank
    <2> QED BY <1>4, <2>1, <2>3 DEF runVars
<1>7. CASE Plan
    <2>0. disk' = disk /\ runVars' = runVars /\ ran' = ran /\ failed' = failed
        BY <1>7 DEF Plan, runVars
    <2>1. CASE CollectConflict
        <3>1. phase = "collect" /\ phase' = "collect" BY <2>1 DEF CollectConflict, More
        <3> QED BY <1>4, <2>0, <3>1
    <2>2. CASE EndCollect
        <3>1. /\ phase = "collect" /\ phase' \in {"decide", "conflicts"} /\ at' = 1 /\ claims' = {}
              /\ blocked' = blocked /\ mkdirs' = mkdirs /\ files' = files
            BY <2>2 DEF EndCollect
        <3>2. blocked = << >> /\ mkdirs = << >> /\ files = << >> BY <3>1 DEF TypeInv, PhaseInv
        <3>3. {} \in Entries' /\ Deciding({}, {})' BY <3>1, <3>2, DecidingStarts
        <3> QED BY <1>4, <2>0, <3>1, <3>3
    <2>3. CASE DecideBlocked \/ DecideCollision \/ DecideMkdir \/ DecideExists
                    \/ DecideInTheWay \/ DecideOneFile
        <3>1. Decides BY <2>3, DecidesSo
        <3>2. phase = "decide" /\ phase' = "decide" BY <3>1 DEF Decides
        <3>3. folding = folds BY <1>1, <3>2 DEF FoldingInv
        <3>4. PICK G, R \in Entries : Deciding(G, R) BY <1>4, <3>2
        <3>5. \E H, S \in Entries' : Deciding(H, S)' BY <2>0, <3>1, <3>3, <3>4, DecidingStep
        <3> QED BY <1>4, <2>0, <3>2, <3>5
    <2>4. CASE EndDecide
        <3>1. phase = "decide" /\ phase' = "ready" /\ source' = source
            BY <2>4 DEF EndDecide, given
        <3>2. PICK G, R \in Entries : Deciding(G, R) BY <1>4, <3>1
        <3>3. Running(G, R)' BY <1>4, <2>0, <2>4, <3>1, <3>2, DecidedRuns
        <3>4. Entries' = Entries BY <3>1 DEF Entries
        <3> QED BY <1>4, <2>0, <3>1, <3>3, <3>4
    <2> QED BY <1>7, <2>1, <2>2, <2>3, <2>4 DEF Plan, PlannerNext
<1>8. CASE RunAction
    <2>1. phase \in {"ready", "run"} /\ phase' = "run" /\ source' = source BY <1>8 DEF RunAction, given
    <2>2. ASSUME failed' = {} PROVE \E G, R \in Entries' : Running(G, R)'
        <3>1. failed = {}
            <4>1. failed' = failed \/ \E path : failed' = failed \cup {path} BY <1>8 DEF RunAction
            <4> QED BY <2>2, <4>1
        <3>2. PICK G, R \in Entries : Running(G, R) BY <1>4, <2>1, <3>1
        <3>3. Running(G, R)' BY <1>8, <2>2, <3>1, <3>2, RunKeeps
        <3>4. Entries' = Entries BY <2>1 DEF Entries
        <3> QED BY <3>3, <3>4
    <2> QED BY <2>1, <2>2
<1>9. CASE RunAgain BY <1>2, <1>9 DEF RunAgain
<1> QED BY <1>5, <1>6, <1>7, <1>8, <1>9 DEF Next

LEMMA SecondStep ==
    ASSUME TypeInv, ListInv, FailInv, AgainInv, ~SinglesFold, CaseKeepsOddNames,
           AllSeen, baseTells = folds, [Next]_vars
    PROVE  SecondInv'
<1> DEFINE Nothing == /\ phase # "conflicts" /\ conflicts = << >>
                      /\ mkdirs = << >> /\ \A j \in 1..Len(files) : files[j].do = "skip"
<1>1. FoldingInv /\ (phase = "collect" => policy = "fail") /\ FirstInv /\ SecondInv BY DEF AgainInv
<1>2. SUFFICES ASSUME round' = 1, failed' = {}
               PROVE  (\E G, R \in Entries' : Settled(G, R)') /\ Nothing'
    BY Zenon DEF SecondInv
<1>3. CASE RunAgain
    <2>1. /\ phase \in {"ready", "run"} /\ round = 0 /\ failed = {} /\ source' = source
          /\ phase' = "idle" /\ conflicts' = << >> /\ mkdirs' = << >> /\ files' = << >>
        BY <1>2, <1>3 DEF RunAgain, given
    <2>2. PICK G, R \in Entries : Running(G, R) BY <1>1, <2>1 DEF FirstInv
    <2>3. Settled(G, R)' BY <1>3, <2>2, RunSettles
    <2>4. Entries' = Entries BY <2>1 DEF Entries
    <2> QED BY <2>1, <2>3, <2>4
<1>4. ASSUME ~RunAgain PROVE (\E G, R \in Entries' : Settled(G, R)') /\ Nothing'
    <2>0. round = 1 /\ ~RunAction
        BY <1>2, <1>4 DEF Next, vars, runVars, Scan, Cancel, Begin, Plan, RunAction
    <2>1. disk' = disk /\ source' = source /\ policy' = policy /\ runVars' = runVars
        BY <1>4, <2>0 DEF Next, vars, Scan, Cancel, Begin, BeginPlan, Plan, PlannerNext, plannerVars,
            given, CollectConflict, EndCollect, DecideBlocked, DecideCollision, DecideMkdir,
            DecideExists, DecideInTheWay, DecideOneFile, EndDecide, Free
    <2>2. ran' = ran /\ failed = {} BY <1>2, <2>1 DEF runVars
    <2>3. PICK G, R \in Entries : Settled(G, R) BY <1>1, <2>0, <2>2 DEF SecondInv
    <2>4. Nothing BY <1>1, <2>0, <2>2 DEF SecondInv
    <2>5. Fates(G, R, Len(source)) /\ \A k \in G \ R : Placed(k) BY <2>3 DEF Settled
    <2>6. Entries' = Entries BY <2>1 DEF Entries
    <2>7. Fates(G, R, Len(source))' /\ \A k \in G \ R : Placed(k)'
        <3>1. volume' = volume /\ folds' = folds BY <2>1 DEF disk
        <3>2. \A k : (Placed(k)' <=> Placed(k)) /\ (InTheWay(k)' <=> InTheWay(k))
            BY <2>1, <3>1 DEF Placed, InTheWay, Suits, AtIn
        <3>3. \A k : Fair(G, R, k)' <=> Fair(G, R, k) BY <2>1, <3>1 DEF Fair, Beneath, Taken
        <3> QED BY <2>1, <2>5, <3>2, <3>3 DEF Fates
    <2>8. ASSUME at' = 1, claims' = {}, blocked' = << >> PROVE Settled(G, R)'
        BY <2>7, <2>8, FitStarts DEF Settled
    <2>9. CASE UNCHANGED vars \/ Cancel \/ Scan
        <3>1. decider' = decider /\ phase' = phase
            BY <2>9 DEF vars, Cancel, Scan, plannerVars
        <3>2. Fit(G, R)' <=> Fit(G, R) BY <2>1, <2>2, <3>1, SaysTheSame
        <3>3. Settled(G, R)' BY <2>3, <2>7, <3>1, <3>2 DEF Settled
        <3> QED BY <2>4, <2>6, <3>1, <3>3 DEF decider
    <2>10. CASE Begin
        <3>1. phase = "idle" /\ phase' \in {"collect", "decide"} /\ decider' = decider
            BY <2>10 DEF Begin, BeginPlan
        <3>2. Blank BY <3>1 DEF TypeInv, PhaseInv
        <3>3. Settled(G, R)' BY <2>8, <3>1, <3>2 DEF decider, Blank
        <3> QED BY <2>4, <2>6, <3>1, <3>3 DEF decider
    <2>11. CASE CollectConflict
        <3>1. /\ phase = "collect" /\ phase' = "collect" /\ at <= Len(source)
              /\ conflicts' = IF Conflicting(entry) THEN Append(conflicts, entry.path) ELSE conflicts
              /\ mkdirs' = mkdirs /\ files' = files
            BY <2>11 DEF CollectConflict, More
        <3>2. folding = folds /\ policy = "fail" BY <1>1, <3>1 DEF FoldingInv
        <3>3. ~Conflicting(entry) BY <2>5, <3>1, <3>2, CollectsNone
        <3>4. Settled(G, R)' BY <2>7, <3>1 DEF Settled
        <3> QED BY <2>4, <2>6, <3>1, <3>3, <3>4
    <2>12. CASE EndCollect
        <3>1. /\ phase = "collect" /\ phase' = IF conflicts = << >> THEN "decide" ELSE "conflicts"
              /\ at' = 1 /\ claims' = {} /\ blocked' = blocked /\ conflicts' = conflicts
              /\ mkdirs' = mkdirs /\ files' = files
            BY <2>12 DEF EndCollect
        <3>2. blocked = << >> BY <3>1 DEF TypeInv, PhaseInv
        <3>3. Settled(G, R)' BY <2>8, <3>1, <3>2
        <3> QED BY <2>4, <2>6, <3>1, <3>3
    <2>13. CASE DecideBlocked \/ DecideCollision \/ DecideMkdir \/ DecideExists
                    \/ DecideInTheWay \/ DecideOneFile
        <3>1. Decides BY <2>13, DecidesSo
        <3>2. phase = "decide" /\ phase' = "decide" /\ conflicts' = conflicts BY <3>1 DEF Decides
        <3>3. folding = folds BY <1>1, <3>2 DEF FoldingInv
        <3>4. /\ Settled(G, R)' /\ mkdirs' = << >>
              /\ \A j \in 1..Len(files') : files'[j].do = "skip"
            BY <2>1, <2>3, <2>4, <3>1, <3>3, SettledStep
        <3> QED BY <2>4, <2>6, <3>2, <3>4
    <2>14. CASE EndDecide
        <3>1. phase' = "ready" /\ decider' = decider BY <2>14 DEF EndDecide
        <3>2. Settled(G, R)' BY <2>7, <3>1 DEF Settled
        <3> QED BY <2>4, <2>6, <3>1, <3>2 DEF decider
    <2> QED BY <1>4, <2>0, <2>9, <2>10, <2>11, <2>12, <2>13, <2>14 DEF Next, Plan, PlannerNext
<1> QED BY <1>3, <1>4

\* What cannot be listed cannot be listed later: no action changes that.
LEMMA HiddenStays ==
    ASSUME TypeInv, [Next]_vars, NEW path, Hidden(path)
    PROVE  Hidden(path)'
<1>1. folds' = folds /\ (rootIs = "locked" => rootIs' = "locked")
    BY DEF Next, vars, Scan, Cancel, Begin, Plan, RunAction, RunAgain, disk
<1>2. ASSUME NEW i \in volume, i.is = "locked" PROVE i \in volume'
    <2>1. CASE RunAction
        <3> DEFINE a == Actions[ran + 1]
        <3>1. (Effect(a).ok /\ volume' = Effect(a).items) \/ volume' = volume
            BY <2>1, Zenon DEF RunAction
        <3>2. a.do \in {"mkdir", "copy", "skip"}
            <4>1. /\ Actions \in Seq(ActionType({"mkdir", "copy", "skip"})) /\ ran \in Nat
                  /\ ran < Len(Actions)
                BY <2>1, ActionsAre DEF TypeInv, PhaseInv, RunAction
            <4>2. ran + 1 \in 1..Len(Actions) BY <4>1
            <4> HIDE DEF a
            <4>3. a \in ActionType({"mkdir", "copy", "skip"}) BY <4>1, <4>2 DEF a
            <4> QED BY <4>3 DEF ActionType
        <3> HIDE DEF a
        <3>3. CASE a.do = "mkdir"
            <4>1. Effect(a).items = MakeFolder(volume, a.path).items BY <3>3 DEF Effect
            <4>2. volume \subseteq MakeFolder(volume, a.path).items BY DEF MakeFolder
            <4> QED BY <3>1, <4>1, <4>2
        <3>4. CASE a.do = "copy"
            <4>1. Effect(a) = PutFile(volume, a) BY <3>4 DEF Effect
            <4>2. volume \ LeftBy(volume, a.path) \subseteq PutFile(volume, a).items
                BY DEF PutFile, MakeFolder
            <4>3. PutFile(volume, a).ok => \A x \in LeftBy(volume, a.path) : ~IsFolder(x)
                BY DEF PutFile
            <4>4. IsFolder(i) BY <1>2 DEF IsFolder
            <4> QED BY <3>1, <4>1, <4>2, <4>3, <4>4
        <3>5. CASE a.do = "skip"
            <4>1. Effect(a).items = volume BY <3>5 DEF Effect
            <4> QED BY <3>1, <4>1
        <3> QED BY <3>2, <3>3, <3>4, <3>5
    <2>2. CASE ~RunAction
        <3>1. volume' = volume BY <2>2 DEF Next, vars, Scan, Cancel, Begin, Plan, RunAgain, disk
        <3> QED BY <3>1
    <2> QED BY <2>1, <2>2
<1> QED BY <1>1, <1>2 DEF Hidden

LEMMA AgainStep ==
    ASSUME ~SinglesFold, CaseKeepsOddNames
    PROVE  TypeInv /\ ListInv /\ FailInv /\ AgainInv /\ [Next]_vars => AgainInv'
<1> SUFFICES ASSUME TypeInv, ListInv, FailInv, AgainInv, [Next]_vars PROVE AgainInv' OBVIOUS
<1>1. baseTells' = folds' /\ AllSeen' => baseTells = folds /\ AllSeen
    <2>1. baseTells' = baseTells /\ folds' = folds
        BY DEF Next, vars, Scan, Cancel, Begin, Plan, RunAction, RunAgain, disk
    <2>2. source' = source
        BY DEF Next, vars, Scan, Cancel, Begin, BeginPlan, Plan, PlannerNext, plannerVars, given,
            CollectConflict, EndCollect, DecideBlocked, DecideCollision, DecideMkdir, DecideExists,
            DecideInTheWay, DecideOneFile, EndDecide, Free, More, RunAction, RunAgain
    <2>3. \A k \in 1..Len(source) : Hidden(source[k].path) => Hidden(source[k].path)'
        BY <2>2, SourcePaths, HiddenStays
    <2> QED BY <2>1, <2>2, <2>3 DEF AllSeen
<1>2. ASSUME baseTells = folds, AllSeen
      PROVE  /\ FoldingInv' /\ (phase' = "collect" => policy' = "fail")
             /\ FirstInv' /\ SecondInv'
    <2>1. FoldingInv' BY <1>2, FoldingKept DEF AgainInv
    <2>2. phase = "collect" => policy = "fail" BY <1>2 DEF AgainInv
    <2>3. phase' = "collect" => policy' = "fail"
        BY <2>2 DEF Next, vars, Scan, Cancel, Begin, BeginPlan, Plan, PlannerNext, plannerVars,
            given, CollectConflict, EndCollect, DecideBlocked, DecideCollision, DecideMkdir,
            DecideExists, DecideInTheWay, DecideOneFile, EndDecide, Free, More, RunAction, RunAgain
    <2> QED BY <1>2, <2>1, <2>3, FirstStep, SecondStep
<1> QED BY <1>1, <1>2 DEF AgainInv

\* What was carried out in full needs nothing more: whatever the two sides hold
\* and whichever the policy, where the root's own name tells how the volume
\* compares names and no entry's place lies in a folder that cannot be listed, a
\* second run has nothing to copy, no folder to make, and is not refused.  Left
\* out: a file pulled by name to a volume that folds names, and names that differ
\* by case from those of a transfer's own files.
THEOREM SecondRunRests ==
    ASSUME ~SinglesFold, CaseKeepsOddNames
    PROVE  Spec => []SecondRunHasNothingToDo
<1>1. TypeInv /\ AgainInv => SecondRunHasNothingToDo
    <2> SUFFICES ASSUME TypeInv, AgainInv, phase \in {"ready", "conflicts"}, round = 1,
                        failed = {}, baseTells = folds,
                        ~\E i \in DOMAIN source : Hidden(source[i].path)
                 PROVE  phase = "ready" /\ Done({"copy", "mkdir"}) = {}
        BY DEF SecondRunHasNothingToDo
    <2>0. AllSeen
        <3>1. DOMAIN source = 1..Len(source) BY DEF TypeInv, GivenInv, IsListing
        <3> QED BY <3>1 DEF AllSeen
    <2>1. /\ phase # "conflicts" /\ mkdirs = << >>
          /\ \A j \in 1..Len(files) : files[j].do = "skip"
        BY <2>0 DEF AgainInv, SecondInv
    <2>2. /\ DOMAIN Actions = 1..(Len(mkdirs) + Len(files))
          /\ \A j \in 1..Len(files) : Actions[Len(mkdirs) + j] = files[j]
        BY ActionsAre DEF TypeInv
    <2>3. ASSUME NEW i \in DOMAIN Actions PROVE Actions[i].do = "skip"
        <3>1. Len(mkdirs) = 0 /\ Len(files) \in Nat BY <2>1 DEF TypeInv, DeciderInv
        <3>2. i \in 1..Len(files) /\ Actions[i] = files[i] BY <2>2, <2>3, <3>1
        <3> QED BY <2>1, <3>2
    <2>4. Done({"copy", "mkdir"}) = {} BY <2>3 DEF Done
    <2> QED BY <2>1, <2>4
<1> QED BY <1>1, ListHolds, TypeInit, TypeStep, FailInit, FailStep, AgainInit, AgainStep, PTL DEF Spec
=============================================================================
