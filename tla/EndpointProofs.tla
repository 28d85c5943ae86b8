---------------------------- MODULE EndpointProofs ----------------------------
(***************************************************************************)
(* What an endpoint promises whatever the phone lists, re-keys, loses,     *)
(* gains, refuses or fails: the walk finds a tree and drops nothing in     *)
(* silence, the handle cache keeps to its paths, and a read opens what it  *)
(* was asked for.                                                          *)
(***************************************************************************)
EXTENDS MtpProofs, FiniteSetTheorems, NaturalsInduction

Called == {Name[o] : o \in Objects}
Places == Objects \cup {Storage}
-----------------------------------------------------------------------------
(* Sequences of names.                                                     *)

LEMMA AppendIs ==
    ASSUME NEW S, NEW p \in Seq(S), NEW n \in S
    PROVE  /\ Append(p, n) \in Seq(S) /\ Append(p, n) # <<>>
           /\ Len(Append(p, n)) = Len(p) + 1
           /\ Front(Append(p, n)) = p /\ Last(Append(p, n)) = n
<1>1. Append(p, n) \in Seq(S) /\ Len(Append(p, n)) = Len(p) + 1 OBVIOUS
<1>2. Append(p, n)[Len(p) + 1] = n OBVIOUS
<1>3. SubSeq(Append(p, n), 1, Len(p)) = p OBVIOUS
<1> QED BY <1>1, <1>2, <1>3 DEF Front, Last

LEMMA UpTo ==
    ASSUME NEW S, NEW p \in Seq(S), NEW n \in 0..Len(p)
    PROVE  /\ SubSeq(p, 1, n) \in Seq(S) /\ Len(SubSeq(p, 1, n)) = n
           /\ \A k \in 1..n : SubSeq(p, 1, n)[k] = p[k]
<1> QED OBVIOUS

LEMMA FrontIs ==
    ASSUME NEW S, NEW p \in Seq(S), p # <<>>
    PROVE  /\ Front(p) \in Seq(S) /\ Last(p) \in S
           /\ Len(p) \in Nat /\ Len(p) >= 1 /\ Len(Front(p)) = Len(p) - 1
           /\ \A i \in 1..(Len(p) - 1) : Front(p)[i] = p[i]
           /\ p = Append(Front(p), Last(p))
<1>1. Len(p) \in Nat /\ Len(p) >= 1 OBVIOUS
<1>2. p[Len(p)] \in S BY <1>1
<1>3. Len(p) - 1 \in 0..Len(p) BY <1>1
<1>4. SubSeq(p, 1, Len(p) - 1) \in Seq(S) BY <1>3, UpTo
<1>5. Len(SubSeq(p, 1, Len(p) - 1)) = Len(p) - 1 BY <1>3, UpTo
<1>6. \A i \in 1..(Len(p) - 1) : SubSeq(p, 1, Len(p) - 1)[i] = p[i] BY <1>3, UpTo
<1>7. p = Append(SubSeq(p, 1, Len(p) - 1), p[Len(p)]) BY <1>1, <1>4, <1>5, <1>6
<1> QED BY <1>1, <1>2, <1>4, <1>5, <1>6, <1>7 DEF Front, Last
-----------------------------------------------------------------------------
(* The phone.                                                              *)

PhoneInv ==
    /\ alive \subseteq Objects /\ key \in [Objects -> Nat]
    /\ since \in [changes : Nat, rekeys : Nat, faults : Nat]

LEMMA ChildrenAre ==
    ASSUME PhoneInv, NEW h
    PROVE  Children(h) \subseteq alive /\ IsFiniteSet(Children(h))
<1>1. Children(h) \subseteq alive BY DEF Children
<1>2. Children(h) \subseteq Objects BY <1>1 DEF PhoneInv
<1> QED BY <1>1, <1>2, PhoneAssumption, FS_Subset

LEMMA HandleTyped ==
    ASSUME PhoneInv, NEW o \in Objects
    PROVE  Handle(o) \in Handles /\ Handle(o).object = o
<1> QED BY DEF PhoneInv, Handle, Handles

\* A listing is of children, each at most once; between what it has and what it
\* refuses, a folder that is there is listed in full.
LEMMA ListingIs ==
    ASSUME PhoneInv, NEW h, NEW listing \in Listings(h)
    PROVE  /\ listing.refused \subseteq Children(h) /\ Cardinality(listing.refused) \in Nat
           /\ Len(listing.listed) \in Nat /\ DOMAIN listing.listed = 1..Len(listing.listed)
           /\ \A i \in DOMAIN listing.listed :
                /\ listing.listed[i] \in Children(h)
                /\ \A j \in DOMAIN listing.listed :
                    listing.listed[i] = listing.listed[j] => i = j
           /\ Names(h) => \A o \in Children(h) \ listing.refused :
                            \E i \in DOMAIN listing.listed : listing.listed[i] = o
           /\ ~Names(h) => listing.listed = <<>> /\ listing.refused = {}
<1>1. CASE Names(h)
    <2> DEFINE kids == Children(h)
    <2>1. PICK some \in SUBSET kids :
            listing \in {[listed |-> order, refused |-> some] : order \in SetToSeqs(kids \ some)}
        BY <1>1 DEF Listings
    <2>2. PICK order \in SetToSeqs(kids \ some) : listing = [listed |-> order, refused |-> some]
        BY <2>1
    <2> DEFINE rest == kids \ some
               N == Cardinality(rest)
    <2>3. IsFiniteSet(rest) /\ IsFiniteSet(some) BY ChildrenAre, FS_Subset
    <2>4. N \in Nat /\ Cardinality(some) \in Nat BY <2>3, FS_CardinalityType
    <2>5. order \in [1..N -> rest] /\ \A i, j \in 1..N : i # j => order[i] # order[j]
        BY <2>2 DEF SetToSeqs
    <2>6. IsFiniteSet(1..N) /\ Cardinality(1..N) = N BY <2>4, FS_Interval
    <2> HIDE DEF N, rest
    <2>7. order \in Injection(1..N, rest) BY <2>5 DEF Injection, IsInjective
    <2>8. order \in Surjection(1..N, rest) BY <2>3, <2>6, <2>7, FS_Injection DEF N
    <2>9. \A o \in rest : \E i \in 1..N : order[i] = o BY <2>8 DEF Surjection
    <2>10. listing.listed = order /\ listing.refused = some BY <2>2
    <2>11. DOMAIN order = 1..N /\ Len(order) = N BY <2>4, <2>5
    <2>12. \A i \in 1..N : order[i] \in kids BY <2>5 DEF rest
    <2>13. kids \ listing.refused = rest BY <2>10 DEF rest
    <2> HIDE DEF kids
    <2> QED BY <1>1, <2>4, <2>5, <2>9, <2>10, <2>11, <2>12, <2>13 DEF kids
<1>2. CASE ~Names(h)
    <2>1. listing = [listed |-> <<>>, refused |-> {}] BY <1>2 DEF Listings
    <2>2. Cardinality({}) = 0 BY FS_EmptySet
    <2> QED BY <1>2, <2>1, <2>2
<1> QED BY <1>1, <1>2

\* What a call leaves behind in the history.
CallMade ==
    \/ UNCHANGED since \/ Refuses(1)
    \/ \E h, e : ListingFails(h, e)
    \/ \E h : \E listing \in Listings(h) : ListingAnswers(h, listing)

LEMMA CallKeeps ==
    ASSUME PhoneInv, CallMade
    PROVE  /\ since' \in [changes : Nat, rekeys : Nat, faults : Nat]
           /\ since'.changes = since.changes /\ since'.rekeys = since.rekeys
<1>1. since = [since EXCEPT !.faults = since.faults] BY DEF PhoneInv
<1>2. ASSUME NEW n \in Nat, Refuses(n)
      PROVE  /\ since' \in [changes : Nat, rekeys : Nat, faults : Nat]
             /\ since'.changes = since.changes /\ since'.rekeys = since.rekeys
    BY <1>2 DEF Refuses, PhoneInv
<1>3. CASE UNCHANGED since BY <1>3 DEF PhoneInv
<1>4. CASE Refuses(1) BY <1>2, <1>4
<1>5. ASSUME NEW h, NEW e, ListingFails(h, e) PROVE UNCHANGED since \/ Refuses(1)
    BY <1>5 DEF ListingFails
<1>6. ASSUME NEW h, NEW listing \in Listings(h), ListingAnswers(h, listing)
      PROVE  Cardinality(listing.refused) \in Nat /\ Refuses(Cardinality(listing.refused))
    BY <1>6, ListingIs DEF ListingAnswers
<1> QED BY <1>2, <1>3, <1>4, <1>5, <1>6 DEF CallMade

LEMMA CallHistory ==
    ASSUME PhoneInv, CallMade \/ since' = Undisturbed
    PROVE  /\ since' \in [changes : Nat, rekeys : Nat, faults : Nat]
           /\ (since' = Undisturbed \/ (since'.changes = since.changes /\ since'.rekeys = since.rekeys))
<1> QED BY CallKeeps DEF Undisturbed

LEMMA ChangeTyped ==
    ASSUME PhoneInv, PhoneChanges
    PROVE  /\ PhoneInv' /\ since'.changes = since.changes + 1
           /\ since'.rekeys \in {since.rekeys, since.rekeys + 1}
<1>1. ASSUME NEW n \in {0, 1}, Change(n)
      PROVE  /\ since' \in [changes : Nat, rekeys : Nat, faults : Nat]
             /\ since'.changes = since.changes + 1 /\ since'.rekeys = since.rekeys + n
             /\ since.rekeys \in Nat
    <2>1. /\ since.changes \in Nat /\ since.rekeys \in Nat /\ since.faults \in Nat /\ n \in Nat
          /\ since = [changes |-> since.changes, rekeys |-> since.rekeys, faults |-> since.faults]
        BY DEF PhoneInv
    <2>2. since' = [since EXCEPT !.changes = since.changes + 1, !.rekeys = since.rekeys + n]
        BY <1>1 DEF Change
    <2>3. since' = [changes |-> since.changes + 1, rekeys |-> since.rekeys + n,
                    faults |-> since.faults]
        BY <2>1, <2>2, Zenon
    <2> QED BY <2>1, <2>3
<1>2. CASE Rekey
    <2>1. PICK some : key' = [o \in Objects |-> IF o \in some THEN key[o] + 1 ELSE key[o]]
        BY <1>2 DEF Rekey
    <2>2. key' \in [Objects -> Nat] BY <2>1 DEF PhoneInv
    <2>3. alive' = alive /\ Change(1) BY <1>2 DEF Rekey
    <2> QED BY <1>1, <2>2, <2>3 DEF PhoneInv
<1>3. CASE Lose
    <2>1. \A some : Held(some) \subseteq some BY DEF Held
    <2>2. alive' \subseteq alive BY <1>3, <2>1 DEF Lose
    <2>3. key' = key /\ Change(0) BY <1>3 DEF Lose
    <2> QED BY <1>1, <2>2, <2>3 DEF PhoneInv
<1>4. CASE Appear
    <2>1. PICK o \in Objects \ alive : alive' = alive \cup {o} /\ key' = [key EXCEPT ![o] = @ + 1]
        BY <1>4 DEF Appear
    <2>2. key' \in [Objects -> Nat] /\ alive' \subseteq Objects BY <2>1 DEF PhoneInv
    <2>3. Change(0) BY <1>4 DEF Appear
    <2> QED BY <1>1, <2>2, <2>3 DEF PhoneInv
<1> QED BY <1>2, <1>3, <1>4 DEF PhoneChanges
-----------------------------------------------------------------------------
(* One step of an endpoint, from the walk's and the cache's side.          *)

LEMMA StepKinds ==
    ASSUME [MtpNext]_endpoint
    PROVE  \/ WalkStep /\ UNCHANGED readVars
           \/ WalkDone /\ Prime
           \/ BeginRead
           \/ ReadStep
           \/ reader = "opened" /\ Rest /\ UNCHANGED <<phone, walkVars>>
           \/ PhoneChanges /\ UNCHANGED <<walkVars, readVars>>
                /\ (RootStays /\ Names(root) => Names(root)')
           \/ UNCHANGED <<phone, since, walkVars, readVars>>
<1>1. CASE Scan BY <1>1, Zenon DEF Scan
<1>2. CASE Read BY <1>2, Zenon DEF Read
<1>3. CASE Open BY <1>3, Zenon DEF Open
<1>4. CASE Stream BY <1>4, Zenon DEF Stream
<1>5. CASE WorldChanges BY <1>5, Zenon DEF WorldChanges
<1>6. CASE Stopped BY <1>6, Zenon DEF Stopped
<1>7. CASE UNCHANGED endpoint BY <1>7, Zenon DEF endpoint
<1> QED BY <1>1, <1>2, <1>3, <1>4, <1>5, <1>6, <1>7 DEF MtpNext
-----------------------------------------------------------------------------
(* What a listing gives the walk.                                          *)

EntryType == [path : Seq(Called) \ {<<>>}, handle : Handles, folder : BOOLEAN]
PendingType == [path : Seq(Called), handle : Handles]

LEMMA ChildIs ==
    ASSUME PhoneInv, NEW p \in Seq(Called), NEW h, NEW o \in Children(h)
    PROVE  /\ o \in alive /\ o \in Objects /\ h.object \in Under[o] /\ Name[o] \in Called
           /\ Handle(o) \in Handles /\ Handle(o).object = o
           /\ Child(p, o) \in EntryType /\ Child(p, o).folder = IsFolder(Child(p, o).handle)
           /\ Child(p, o).path = Append(p, Name[o]) /\ Child(p, o).handle = Handle(o)
           /\ Child(p, o).folder = (o \in Folders)
           /\ [path |-> Append(p, Name[o]), handle |-> Handle(o)] \in PendingType
<1>1. o \in alive /\ o \in Objects /\ h.object \in Under[o] BY DEF Children, PhoneInv
<1>2. Name[o] \in Called BY <1>1 DEF Called
<1>3. Handle(o) \in Handles /\ Handle(o).object = o BY <1>1, HandleTyped
<1>4. Append(p, Name[o]) \in Seq(Called) \ {<<>>} BY <1>2, AppendIs
<1>5. Child(p, o) = [path |-> Append(p, Name[o]), handle |-> Handle(o), folder |-> o \in Folders]
    BY DEF Child
<1> QED BY <1>1, <1>2, <1>3, <1>4, <1>5 DEF EntryType, PendingType, IsFolder

LEMMA NthIs ==
    ASSUME NEW S, S \subseteq Nat, IsFiniteSet(S)
    PROVE  /\ Cardinality(S) \in Nat
           /\ \A n \in 1..Cardinality(S) : Nth(S, n) \in S
           /\ \A m, n \in 1..Cardinality(S) : Nth(S, m) = Nth(S, n) => m = n
           /\ \A i \in S : \E n \in 1..Cardinality(S) : Nth(S, n) = i
<1> DEFINE N == Cardinality(S)
           before(i) == {j \in S : j < i}
           place == [i \in S |-> Cardinality(before(i)) + 1]
<1>1. N \in Nat BY FS_CardinalityType
<1>2. ASSUME NEW i \in S
      PROVE  /\ IsFiniteSet(before(i)) /\ Cardinality(before(i)) \in Nat
             /\ Cardinality(before(i)) < N
    <2>1. before(i) \subseteq S /\ i \notin before(i) BY <1>2
    <2>2. IsFiniteSet(before(i)) /\ Cardinality(before(i)) <= N /\ Cardinality(before(i)) # N
        BY <1>2, <2>1, FS_Subset
    <2>3. Cardinality(before(i)) \in Nat BY <2>2, FS_CardinalityType
    <2> HIDE DEF before, N
    <2> QED BY <1>1, <2>2, <2>3
<1>3. ASSUME NEW i \in S, NEW j \in S, i < j
      PROVE  Cardinality(before(i)) < Cardinality(before(j))
    <2>0. i \in Nat /\ j \in Nat /\ \A k \in S : k \in Nat OBVIOUS
    <2>a. ASSUME NEW k \in before(i) PROVE k \in before(j)
        <3>1. k \in S /\ k < i /\ k \in Nat BY <2>0
        <3>2. k < j BY <1>3, <2>0, <3>1
        <3> QED BY <3>1, <3>2
    <2>b. i \in before(j) BY <1>3
    <2>c. i \notin before(i) BY <2>0
    <2>1. before(i) \subseteq before(j) /\ i \in before(j) /\ i \notin before(i)
        BY <2>a, <2>b, <2>c
    <2>2. IsFiniteSet(before(j)) BY <1>2
    <2>3. Cardinality(before(i)) <= Cardinality(before(j))
            /\ Cardinality(before(i)) # Cardinality(before(j))
        BY <2>1, <2>2, FS_Subset
    <2>4. Cardinality(before(i)) \in Nat /\ Cardinality(before(j)) \in Nat BY <1>2
    <2> HIDE DEF before
    <2> QED BY <2>3, <2>4
<1>4. \A i, j \in S : place[i] = place[j] => i = j
    <2> SUFFICES ASSUME NEW i \in S, NEW j \in S, place[i] = place[j] PROVE i = j OBVIOUS
    <2>1. Cardinality(before(i)) = Cardinality(before(j)) BY <1>2
    <2>2. ~(i < j) /\ ~(j < i) BY <1>2, <1>3, <2>1
    <2> QED BY <2>2
<1>5. place \in [S -> 1..N] BY <1>1, <1>2
<1>6. place \in Injection(S, 1..N) BY <1>4, <1>5 DEF Injection, IsInjective
<1>7. IsFiniteSet(1..N) /\ Cardinality(1..N) = N BY <1>1, FS_Interval
<1>8. place \in Surjection(S, 1..N) BY <1>6, <1>7, FS_Injection
<1>9. \A n \in 1..N : \E i \in S : Cardinality(before(i)) = n - 1
    <2>1. \A n \in 1..N : \E i \in S : place[i] = n BY <1>8 DEF Surjection
    <2> SUFFICES ASSUME NEW n \in 1..N PROVE \E i \in S : Cardinality(before(i)) = n - 1
        OBVIOUS
    <2>2. PICK i \in S : place[i] = n BY <2>1
    <2>3. Cardinality(before(i)) + 1 = n BY <2>2
    <2>4. Cardinality(before(i)) \in Nat BY <1>2
    <2> HIDE DEF before, N, place
    <2> QED BY <1>1, <2>3, <2>4
<1>10. \A n \in 1..N : Nth(S, n) \in S /\ Cardinality(before(Nth(S, n))) = n - 1
    BY <1>9 DEF Nth
<1>11. ASSUME NEW m \in 1..N, NEW n \in 1..N, Nth(S, m) = Nth(S, n) PROVE m = n
    <2>1. Cardinality(before(Nth(S, m))) = m - 1 /\ Cardinality(before(Nth(S, n))) = n - 1 BY <1>10
    <2>2. m - 1 = n - 1 BY <1>11, <2>1
    <2> HIDE DEF N
    <2> QED BY <1>1, <2>2
<1>12. ASSUME NEW i \in S PROVE \E n \in 1..N : Nth(S, n) = i
    <2>1. place[i] \in 1..N /\ place[i] = Cardinality(before(i)) + 1 BY <1>2, <1>5
    <2>2. PICK n \in 1..N : n = Cardinality(before(i)) + 1 BY <2>1
    <2>3. Nth(S, n) \in S /\ Cardinality(before(Nth(S, n))) = n - 1 BY <1>10
    <2>4. Cardinality(before(Nth(S, n))) = Cardinality(before(i)) BY <1>2, <2>2, <2>3
    <2>5. place[Nth(S, n)] = place[i] BY <2>3, <2>4
    <2> QED BY <1>4, <2>3, <2>5
<1> QED BY <1>1, <1>10, <1>11, <1>12

\* The places of a listing by what record does with the child there.
Again(listed) ==
    {i \in NamedIn(listed) : listed[i] \in Folders /\ Handle(listed[i]) \in visited}
Fresh(listed) == NamedIn(listed) \ Again(listed)
Beneath(listed) == {i \in Fresh(listed) : listed[i] \in Folders}
ToList(p, o) == [path |-> Append(p, Name[o]), handle |-> Handle(o)]

LEMMA NamesDiffer ==
    ASSUME PhoneInv, NEW h, NEW listing \in Listings(h),
           NEW i \in NamedIn(listing.listed), NEW j \in NamedIn(listing.listed),
           Name[listing.listed[i]] = Name[listing.listed[j]]
    PROVE  i = j
<1> DEFINE listed == listing.listed
<1>1. DOMAIN listed = 1..Len(listed) /\ Len(listed) \in Nat BY ListingIs
<1>2. i \in 1..Len(listed) /\ j \in 1..Len(listed) BY <1>1 DEF NamedIn
<1>3. ~IsRepeated(listed, i) /\ ~IsRepeated(listed, j) BY DEF NamedIn, NamesChild
<1>4. ~(i < j) /\ ~(j < i)
    <2>1. i < j => i \in 1..(j - 1) BY <1>1, <1>2
    <2>2. j < i => j \in 1..(i - 1) BY <1>1, <1>2
    <2> QED BY <1>3, <2>1, <2>2 DEF IsRepeated
<1> QED BY <1>1, <1>2, <1>4

LEMMA RecordIs ==
    ASSUME PhoneInv, NEW h, NEW listing \in Listings(h), NEW p \in Seq(Called),
           Record(p, listing)
    PROVE  /\ entries' = entries \cup {Child(p, listing.listed[i]) : i \in Fresh(listing.listed)}
           /\ visited' = visited \cup {Handle(listing.listed[i]) : i \in Beneath(listing.listed)}
           /\ skipped' = skipped \cup LeftOut(p, listing)
                \cup {[parent |-> p, object |-> listing.listed[i]] : i \in Again(listing.listed)}
           /\ snapshot' = snapshot
           /\ \E new \in Seq(PendingType) :
                /\ pending' = Front(pending) \o new
                /\ \A n \in 1..Len(new) :
                    \E i \in Beneath(listing.listed) : new[n] = ToList(p, listing.listed[i])
                /\ \A i \in Beneath(listing.listed) :
                    \E n \in 1..Len(new) : new[n] = ToList(p, listing.listed[i])
                /\ \A m, n \in 1..Len(new) : new[m].path = new[n].path => m = n
<1> DEFINE listed == listing.listed
           B == Beneath(listed)
           N == Cardinality(B)
           new == [n \in 1..N |-> ToList(p, listed[Nth(B, n)])]
<1>0. /\ entries' = entries \cup {Child(p, listed[i]) : i \in Fresh(listed)}
      /\ visited' = visited \cup {Handle(listed[i]) : i \in B}
      /\ pending' = Front(pending) \o new
      /\ skipped' = skipped \cup LeftOut(p, listing)
            \cup {[parent |-> p, object |-> listed[i]] : i \in Again(listed)}
      /\ snapshot' = snapshot
    BY DEF Record, Again, Fresh, Beneath, ToList
<1>1. DOMAIN listed = 1..Len(listed) /\ Len(listed) \in Nat
        /\ \A i \in DOMAIN listed : listed[i] \in Children(h)
    BY ListingIs
<1>2. B \subseteq DOMAIN listed /\ B \subseteq NamedIn(listed) BY DEF Beneath, Fresh, NamedIn
<1>3. B \subseteq Nat /\ IsFiniteSet(B)
    <2>1. IsFiniteSet(1..Len(listed)) BY <1>1, FS_Interval
    <2>2. B \subseteq 1..Len(listed) BY <1>1, <1>2
    <2>3. 1..Len(listed) \subseteq Nat OBVIOUS
    <2> HIDE DEF B
    <2>4. IsFiniteSet(B) BY <2>1, <2>2, FS_Subset
    <2> QED BY <2>2, <2>3, <2>4
<1> HIDE DEF B
<1>4. /\ N \in Nat
      /\ \A n \in 1..N : Nth(B, n) \in B
      /\ \A m, n \in 1..N : Nth(B, m) = Nth(B, n) => m = n
      /\ \A i \in B : \E n \in 1..N : Nth(B, n) = i
    BY <1>3, NthIs
<1>5. ASSUME NEW n \in 1..N PROVE ToList(p, listed[Nth(B, n)]) \in PendingType
    BY <1>1, <1>2, <1>4, ChildIs DEF ToList
<1> HIDE DEF N
<1>6. new \in Seq(PendingType) /\ Len(new) = N
        /\ \A n \in 1..N : new[n] = ToList(p, listed[Nth(B, n)])
    BY <1>4, <1>5
<1> HIDE DEF new
<1>7. \A n \in 1..Len(new) : \E i \in B : new[n] = ToList(p, listed[i]) BY <1>4, <1>6
<1>8. \A i \in B : \E n \in 1..Len(new) : new[n] = ToList(p, listed[i]) BY <1>4, <1>6
<1>9. ASSUME NEW m \in 1..Len(new), NEW n \in 1..Len(new), new[m].path = new[n].path
      PROVE  m = n
    <2>1. Nth(B, m) \in B /\ Nth(B, n) \in B BY <1>4, <1>6
    <2> DEFINE x == listed[Nth(B, m)]
               y == listed[Nth(B, n)]
    <2>2. new[m] = ToList(p, x) /\ new[n] = ToList(p, y) BY <1>6
    <2>3. x \in Children(h) /\ y \in Children(h) BY <1>1, <1>2, <2>1
    <2>4. Name[x] \in Called /\ Name[y] \in Called BY <2>3, ChildIs
    <2>5. Append(p, Name[x]) = Append(p, Name[y]) BY <1>9, <2>2 DEF ToList
    <2>6. Name[x] = Name[y] BY <2>4, <2>5, AppendIs
    <2>7. Nth(B, m) = Nth(B, n) BY <1>2, <2>1, <2>6, NamesDiffer
    <2> QED BY <1>4, <1>6, <2>7
<1> QED BY <1>0, <1>6, <1>7, <1>8, <1>9 DEF B
-----------------------------------------------------------------------------
(* Types.  The walk keeps its own, and what is left to find of the path is *)
(* the end of it.                                                          *)

EndOf(q, p) ==
    /\ Len(q) <= Len(p)
    /\ \A i \in 1..Len(q) : q[i] = p[Len(p) - Len(q) + i]

OpenedInv ==
    /\ rootPath \in Seq(STRING) /\ left \in Seq(STRING) /\ EndOf(left, rootPath)
    /\ root \in Handles /\ file \subseteq Handles
    /\ \A h \in file : ~IsFolder(h)
    /\ file # {} => left = <<>> /\ rootPath # <<>> /\ Last(rootPath) \in Called

FoundInv ==
    /\ pending \in Seq(PendingType) /\ visited \subseteq Handles
    /\ entries \subseteq EntryType /\ \A e \in entries : e.folder = IsFolder(e.handle)
    /\ snapshot \subseteq Seq(Called) \ {<<>>}

ScanInv ==
    /\ scan \in {"locate", "opened", "walk", "pick", "find", "picked", "walked", "failed"}
    /\ error \in {"none", "cancelled", "device", "stale", "notFound", "undescribed",
                  "notDirectory", "vanished"}
    /\ (scan = "failed") = (error # "none")
    /\ scan \notin {"locate", "failed"} => left = <<>>
    /\ scan \in {"pick", "find", "picked"} => file # {}
    /\ scan \in {"locate", "opened", "pick", "find", "walked"} => entries = {}
    /\ scan = "walk" => \A i \in 1..Len(pending) : pending[i].handle \in visited

WalkInv == OpenedInv /\ FoundInv /\ ScanInv

LEMMA TailEnds ==
    ASSUME NEW S, NEW p \in Seq(S), NEW q \in Seq(S), q # <<>>, EndOf(q, p)
    PROVE  /\ Tail(q) \in Seq(S) /\ EndOf(Tail(q), p)
           /\ Len(q) \in Nat /\ Len(q) >= 1 /\ Len(Tail(q)) = Len(q) - 1
           /\ Head(q) = p[Len(p) - Len(q) + 1] /\ p # <<>>
<1>1. /\ Tail(q) \in Seq(S) /\ Len(Tail(q)) = Len(q) - 1
      /\ Len(q) \in Nat /\ Len(p) \in Nat /\ Len(q) >= 1 /\ Len(p) >= Len(q)
      /\ Head(q) = q[1]
    BY DEF EndOf
<1>2. ASSUME NEW i \in 1..Len(Tail(q)) PROVE Tail(q)[i] = p[Len(p) - Len(Tail(q)) + i]
    <2>1. Tail(q)[i] = q[i + 1] /\ i + 1 \in 1..Len(q) BY <1>1
    <2>2. q[i + 1] = p[Len(p) - Len(q) + (i + 1)] BY <2>1 DEF EndOf
    <2>3. Len(p) - Len(q) + (i + 1) = Len(p) - Len(Tail(q)) + i BY <1>1
    <2> QED BY <2>1, <2>2, <2>3
<1>3. q[1] = p[Len(p) - Len(q) + 1] BY <1>1 DEF EndOf
<1>4. p # <<>> BY <1>1
<1> QED BY <1>1, <1>2, <1>3, <1>4 DEF EndOf

LEMMA WalkTypeInit == WalkInit => WalkInv
<1> SUFFICES ASSUME WalkInit PROVE WalkInv OBVIOUS
<1>1. rootPath \in Seq(STRING) /\ left = rootPath /\ file = {}
    BY DeviceWalkAssumption DEF WalkInit
<1>2. root \in Handles BY DEF WalkInit, RootHandle, Handles
<1>3. Len(left) \in Nat /\ EndOf(left, rootPath) BY <1>1 DEF EndOf
<1>4. OpenedInv BY <1>1, <1>2, <1>3 DEF OpenedInv
<1> QED BY <1>1, <1>4 DEF WalkInit, WalkInv, FoundInv, ScanInv

LEMMA FailKeeps ==
    ASSUME WalkInv, NEW e \in {"cancelled", "device", "stale", "notFound", "undescribed",
                               "notDirectory", "vanished"}, FailScan(e),
           scan # "walked"
    PROVE  WalkInv'
<1>1. scan' = "failed" /\ error' = e /\ opened' = opened /\ walked' = walked BY DEF FailScan
<1> QED BY <1>1 DEF WalkInv, OpenedInv, FoundInv, ScanInv, opened, walked

\* The first object of a name is a child of the folder listed.
LEMMA FirstCalledIs ==
    ASSUME PhoneInv, NEW h, NEW listing \in Listings(h), NEW name,
           NEW o \in FirstCalled(name, listing.listed)
    PROVE  o \in Children(h) /\ Name[o] = name
<1>1. PICK i \in DOMAIN listing.listed : listing.listed[i] = o /\ Name[o] = name
    BY DEF FirstCalled
<1> QED BY <1>1, ListingIs

LEMMA LocateTyped == ASSUME PhoneInv, WalkInv, LocateSegment PROVE WalkInv'
<1>0. scan = "locate" /\ left # <<>> /\ UNCHANGED phone BY DEF LocateSegment
<1>1. CASE \E e \in {"cancelled", "device", "stale"} : FailScan(e)
    BY <1>0, <1>1, FailKeeps
<1>2. CASE \/ FailScan("notFound") \/ FailScan("undescribed") \/ FailScan("notDirectory")
    BY <1>0, <1>2, FailKeeps
<1>3. ASSUME NEW listing \in Listings(root),
             NEW o \in FirstCalled(Head(left), listing.listed),
             o \in Folders \/ Len(left) = 1, left' = Tail(left),
             IF o \in Folders
             THEN root' = Handle(o) /\ UNCHANGED file
             ELSE file' = {Handle(o)} /\ UNCHANGED root,
             UNCHANGED <<scan, error, rootPath, walked>>
      PROVE  WalkInv'
    <2>1. o \in Children(root) /\ Name[o] = Head(left) BY <1>3, FirstCalledIs
    <2>2. o \in Objects BY <2>1 DEF Children, PhoneInv
    <2>3. Handle(o) \in Handles /\ Handle(o).object = o BY <2>2, HandleTyped
    <2>4. rootPath \in Seq(STRING) /\ left \in Seq(STRING) /\ EndOf(left, rootPath) /\ file = {}
        BY <1>0 DEF WalkInv, OpenedInv
    <2>5. /\ Tail(left) \in Seq(STRING) /\ EndOf(Tail(left), rootPath)
          /\ Len(left) \in Nat /\ Len(left) >= 1 /\ Len(Tail(left)) = Len(left) - 1
          /\ Head(left) = rootPath[Len(rootPath) - Len(left) + 1] /\ rootPath # <<>>
        BY <1>0, <2>4, TailEnds
    <2>6. CASE o \in Folders
        <3>1. root' = Handle(o) /\ file' = {} BY <1>3, <2>4, <2>6
        <3>2. OpenedInv' BY <1>3, <2>3, <2>4, <2>5, <3>1 DEF OpenedInv
        <3> QED BY <1>0, <1>3, <3>1, <3>2 DEF WalkInv, FoundInv, ScanInv, walked
    <2>7. CASE o \notin Folders
        <3>1. file' = {Handle(o)} /\ root' = root /\ Len(left) = 1 BY <1>3, <2>7
        <3>2. Len(rootPath) - Len(left) + 1 = Len(rootPath) BY <2>4, <3>1
        <3>3. Last(rootPath) = Name[o] BY <2>1, <2>5, <3>2 DEF Last
        <3>4. Last(rootPath) \in Called BY <2>2, <3>3 DEF Called
        <3>p. Len(Tail(left)) = 0 BY <2>5, <3>1
        <3>5. Tail(left) = <<>> BY <2>5, <3>p, EmptySeq
        <3>6. ~IsFolder(Handle(o)) BY <2>3, <2>7 DEF IsFolder
        <3>7. OpenedInv' BY <1>3, <2>3, <2>4, <2>5, <3>1, <3>4, <3>5, <3>6 DEF OpenedInv, WalkInv
        <3> QED BY <1>0, <1>3, <3>1, <3>7 DEF WalkInv, FoundInv, ScanInv, walked
    <2> QED BY <2>6, <2>7
<1>4. \/ \E e \in {"cancelled", "device", "stale"} : FailScan(e)
      \/ FailScan("notFound") \/ FailScan("undescribed") \/ FailScan("notDirectory")
      \/ \E listing \in Listings(root) :
            \E o \in FirstCalled(Head(left), listing.listed) :
                /\ o \in Folders \/ Len(left) = 1
                /\ left' = Tail(left)
                /\ IF o \in Folders
                   THEN root' = Handle(o) /\ UNCHANGED file
                   ELSE file' = {Handle(o)} /\ UNCHANGED root
                /\ UNCHANGED <<scan, error, rootPath, walked>>
    BY DEF LocateSegment
<1> QED BY <1>1, <1>2, <1>3, <1>4

\* A child listed in the root stands for a single file only if it is no folder.
LEMMA PickTyped ==
    ASSUME WalkInv, file # {}, NEW h \in Handles, ~IsFolder(h), PickedAs(h), scan # "walked",
           error = "none"
    PROVE  WalkInv'
<1>1. /\ scan' = "picked" /\ pending' = <<>> /\ visited' = {} /\ error' = error
      /\ opened' = opened /\ snapshot' = snapshot
      /\ entries' = {[path |-> <<Last(rootPath)>>, handle |-> h, folder |-> FALSE]}
    BY DEF PickedAs
<1>2. OpenedInv' BY <1>1 DEF opened, WalkInv, OpenedInv
<1>3. Last(rootPath) \in Called BY DEF WalkInv, OpenedInv
<1>4. <<Last(rootPath)>> \in Seq(Called) \ {<<>>} BY <1>3
<1>e. [path |-> <<Last(rootPath)>>, handle |-> h, folder |-> FALSE] \in EntryType
    BY <1>4 DEF EntryType
<1>p. <<>> \in Seq(PendingType) BY EmptySeq
<1>5. FoundInv'
    <2>1. pending' \in Seq(PendingType) /\ visited' \subseteq Handles BY <1>1, <1>p
    <2>2. entries' \subseteq EntryType BY <1>1, <1>e
    <2>3. ASSUME NEW d \in entries' PROVE d.folder = IsFolder(d.handle)
        <3>1. d = [path |-> <<Last(rootPath)>>, handle |-> h, folder |-> FALSE] BY <1>1
        <3>2. d.folder = FALSE /\ d.handle = h BY <3>1
        <3>3. IsFolder(h) = FALSE BY DEF IsFolder
        <3> QED BY <3>2, <3>3, Zenon
    <2>4. snapshot' \subseteq Seq(Called) \ {<<>>} BY <1>1 DEF WalkInv, FoundInv
    <2> QED BY <2>1, <2>2, <2>3, <2>4 DEF FoundInv
<1>6. left = <<>> BY DEF WalkInv, OpenedInv
<1> QED BY <1>1, <1>2, <1>5, <1>6 DEF WalkInv, ScanInv, opened

LEMMA FolderTyped == ASSUME PhoneInv, WalkInv, WalkFolder PROVE WalkInv'
<1>0. scan = "walk" /\ pending # <<>> BY DEF WalkFolder
<1> DEFINE folder == Last(pending)
<1>1. /\ Front(pending) \in Seq(PendingType) /\ folder \in PendingType
      /\ Len(pending) \in Nat /\ Len(pending) >= 1 /\ Len(Front(pending)) = Len(pending) - 1
      /\ \A i \in 1..(Len(pending) - 1) : Front(pending)[i] = pending[i]
    BY <1>0, FrontIs DEF WalkInv, FoundInv
<1>2. folder.path \in Seq(Called) /\ folder.handle \in Handles BY <1>1 DEF PendingType
<1>3. CASE \E e \in {"cancelled", "device", "stale"} : FailScan(e) BY <1>0, <1>3, FailKeeps
<1>4. ASSUME NEW listing \in Listings(folder.handle), Record(folder.path, listing),
             UNCHANGED <<scan, error, opened>>
      PROVE  WalkInv'
    <2> DEFINE listed == listing.listed
    <2>1. /\ entries' = entries \cup {Child(folder.path, listed[i]) : i \in Fresh(listed)}
          /\ visited' = visited \cup {Handle(listed[i]) : i \in Beneath(listed)}
          /\ snapshot' = snapshot
        BY <1>2, <1>4, RecordIs
    <2>2. PICK new \in Seq(PendingType) :
            /\ pending' = Front(pending) \o new
            /\ \A n \in 1..Len(new) : \E i \in Beneath(listed) : new[n] = ToList(folder.path, listed[i])
        BY <1>2, <1>4, RecordIs
    <2>3. \A i \in DOMAIN listed : listed[i] \in Children(folder.handle) BY ListingIs
    <2>4. /\ Fresh(listed) \subseteq DOMAIN listed /\ Beneath(listed) \subseteq DOMAIN listed
        BY DEF Fresh, Beneath, NamedIn
    <2>5. \A i \in Fresh(listed) :
            /\ Child(folder.path, listed[i]) \in EntryType
            /\ Child(folder.path, listed[i]).folder = IsFolder(Child(folder.path, listed[i]).handle)
        BY <1>2, <2>3, <2>4, ChildIs
    <2>6. \A i \in Beneath(listed) : Handle(listed[i]) \in Handles
        BY <1>2, <2>3, <2>4, ChildIs
    <2>a. Front(pending) \in Seq(PendingType) BY <1>1
    <2>b. pending' \in Seq(PendingType) BY <2>2, <2>a, ConcatProperties
    <2>c. Len(pending') = Len(Front(pending)) + Len(new) BY <2>2, <2>a, ConcatProperties
    <2>d. \A i \in 1..(Len(Front(pending)) + Len(new)) :
            pending'[i] = IF i <= Len(Front(pending)) THEN Front(pending)[i]
                          ELSE new[i - Len(Front(pending))]
        BY <2>2, <2>a, ConcatProperties
    <2>7. /\ pending' \in Seq(PendingType) /\ Len(pending') = Len(Front(pending)) + Len(new)
          /\ \A i \in 1..(Len(Front(pending)) + Len(new)) :
                pending'[i] = IF i <= Len(Front(pending)) THEN Front(pending)[i]
                              ELSE new[i - Len(Front(pending))]
        BY <2>b, <2>c, <2>d
    <2>8. ASSUME NEW i \in 1..Len(pending') PROVE pending'[i].handle \in visited'
        <3>1. Len(Front(pending)) \in Nat /\ Len(new) \in Nat BY <1>1, <2>2
        <3>2. CASE i <= Len(Front(pending))
            <4>1. i \in 1..(Len(pending) - 1) /\ i \in 1..Len(pending) BY <1>1, <2>7, <3>1, <3>2
            <4>2. pending'[i] = pending[i] BY <1>1, <2>7, <3>2, <4>1
            <4>3. pending[i].handle \in visited BY <1>0, <4>1 DEF WalkInv, ScanInv
            <4> QED BY <2>1, <4>2, <4>3
        <3>3. CASE ~(i <= Len(Front(pending)))
            <4>1. PICK n \in 1..Len(new) : n = i - Len(Front(pending)) BY <2>7, <3>1, <3>3
            <4>2. pending'[i] = new[n] BY <2>7, <3>3, <4>1
            <4>3. PICK j \in Beneath(listed) : new[n] = ToList(folder.path, listed[j]) BY <2>2
            <4>4. pending'[i].handle = Handle(listed[j]) BY <4>2, <4>3 DEF ToList
            <4> QED BY <2>1, <4>4
        <3> QED BY <3>2, <3>3
    <2>9. OpenedInv' BY <1>4 DEF WalkInv, OpenedInv, opened
    <2>10. FoundInv'
        <3>1. visited' \subseteq Handles BY <2>1, <2>6 DEF WalkInv, FoundInv
        <3>2. entries' \subseteq EntryType BY <2>1, <2>5 DEF WalkInv, FoundInv
        <3>3. \A e \in entries' : e.folder = IsFolder(e.handle) BY <2>1, <2>5 DEF WalkInv, FoundInv
        <3> QED BY <2>1, <2>7, <3>1, <3>2, <3>3 DEF WalkInv, FoundInv
    <2> QED BY <1>0, <1>4, <2>8, <2>9, <2>10 DEF WalkInv, ScanInv, opened
<1> QED BY <1>3, <1>4 DEF WalkFolder

LEMMA WalkTyped == ASSUME PhoneInv, WalkInv, WalkStep PROVE WalkInv'
<1>1. CASE Located
    BY <1>1 DEF Located, WalkInv, OpenedInv, FoundInv, ScanInv, opened, walked
<1>2. CASE BeginScan
    <2>1. /\ scan = "opened" /\ scan' = IF file = {} THEN "walk" ELSE "pick"
          /\ pending' = <<[path |-> <<>>, handle |-> root]>> /\ visited' = {root}
          /\ UNCHANGED <<error, opened, entries, skipped, snapshot>>
        BY <1>2 DEF BeginScan
    <2>2. root \in Handles /\ <<>> \in Seq(Called) BY EmptySeq DEF WalkInv, OpenedInv
    <2>3. [path |-> <<>>, handle |-> root] \in PendingType BY <2>2 DEF PendingType
    <2>4. /\ pending' \in Seq(PendingType)
          /\ \A i \in 1..Len(pending') : pending'[i].handle = root
        BY <2>1, <2>3
    <2>5. FoundInv' BY <2>1, <2>2, <2>4 DEF WalkInv, FoundInv
    <2>6. OpenedInv' BY <2>1 DEF WalkInv, OpenedInv, opened
    <2> QED BY <2>1, <2>4, <2>5, <2>6 DEF WalkInv, ScanInv, opened
<1>3. CASE Revalidate
    <2>1. scan = "pick" /\ error = "none" /\ file # {} BY <1>3 DEF Revalidate, WalkInv, ScanInv
    <2>2. PICK h \in file : \/ FailScan("cancelled") \/ FailScan("device") \/ PickedAs(h)
                            \/ scan' = "find" /\ UNCHANGED <<error, opened, walked>>
        BY <1>3 DEF Revalidate
    <2>3. h \in Handles /\ ~IsFolder(h) BY DEF WalkInv, OpenedInv
    <2>4. CASE FailScan("cancelled") \/ FailScan("device") BY <2>1, <2>4, FailKeeps
    <2>5. CASE PickedAs(h) BY <2>1, <2>3, <2>5, PickTyped
    <2>6. CASE scan' = "find" /\ UNCHANGED <<error, opened, walked>>
        BY <2>1, <2>6 DEF WalkInv, OpenedInv, FoundInv, ScanInv, opened, walked
    <2> QED BY <2>2, <2>4, <2>5, <2>6
<1>4. CASE FindFile
    <2>1. scan = "find" /\ error = "none" /\ file # {} BY <1>4 DEF FindFile, WalkInv, ScanInv
    <2>2. \/ \E e \in {"cancelled", "device", "stale"} : FailScan(e)
          \/ FailScan("vanished")
          \/ \E listing \in Listings(root) :
                \E c \in ChildrenOf(<<>>, listing) : ~c.folder /\ PickedAs(c.handle)
        BY <1>4 DEF FindFile
    <2>3. CASE \/ \E e \in {"cancelled", "device", "stale"} : FailScan(e)
               \/ FailScan("vanished")
        BY <2>1, <2>3, FailKeeps
    <2>4. ASSUME NEW listing \in Listings(root), NEW c \in ChildrenOf(<<>>, listing),
                 ~c.folder, PickedAs(c.handle)
          PROVE  WalkInv'
        <3>1. PICK i \in DOMAIN listing.listed : c = Child(<<>>, listing.listed[i])
            BY DEF ChildrenOf, NamedIn
        <3>2. listing.listed[i] \in Children(root) /\ <<>> \in Seq(Called) BY ListingIs, EmptySeq
        <3>3. c.folder = IsFolder(c.handle) /\ c \in EntryType BY <3>1, <3>2, ChildIs
        <3>4. c.handle \in Handles /\ ~IsFolder(c.handle) BY <2>4, <3>3 DEF EntryType
        <3> QED BY <2>1, <2>4, <3>4, PickTyped
    <2> QED BY <2>2, <2>3, <2>4
<1> QED BY <1>1, <1>2, <1>3, <1>4, LocateTyped, FolderTyped DEF WalkStep
-----------------------------------------------------------------------------
(* The cache and the read.                                                 *)

IsCache(c) == DOMAIN c \subseteq Seq(Called) \ {<<>>} /\ \A p \in DOMAIN c : c[p] \in Handles

ReadInv ==
    /\ reader \in {"idle", "resolve", "descend", "operate", "probe", "opened", "failed"}
    /\ IsCache(cache)
    /\ path \in Seq(Called) /\ attempt \in 1..3 /\ level \in 0..Len(path) /\ target \in Handles
    /\ (reader = "failed") = (failure # "none")
    /\ known \in {"nothing", "stale", "handle"}
    /\ (reader = "resolve" => level = 0) /\ (reader = "descend" => level < Len(path))
    /\ reader # "idle" => path # <<>> /\ scan = "walked"

LEMMA PrimedIs ==
    ASSUME NEW some
    PROVE  /\ DOMAIN Primed(some) = {e.path : e \in some} \cup DOMAIN cache
           /\ \A p \in {e.path : e \in some} :
                \E e \in some : e.path = p /\ Primed(some)[p] = e.handle
           /\ \A p \in DOMAIN cache \ {e.path : e \in some} : Primed(some)[p] = cache[p]
<1> DEFINE paths == {e.path : e \in some}
<1>1. Primed(some) = [p \in paths \cup DOMAIN cache |->
                        IF p \in paths THEN (CHOOSE e \in some : e.path = p).handle ELSE cache[p]]
    BY DEF Primed
<1>2. ASSUME NEW p \in paths
      PROVE  \E e \in some : e.path = p /\ Primed(some)[p] = e.handle
    <2>1. PICK e \in some : e.path = p BY <1>2
    <2>2. (CHOOSE d \in some : d.path = p) \in some
            /\ (CHOOSE d \in some : d.path = p).path = p
        BY <2>1
    <2>3. Primed(some)[p] = (CHOOSE d \in some : d.path = p).handle BY <1>1, <1>2
    <2> QED BY <2>2, <2>3
<1>3. \A p \in DOMAIN cache \ paths : Primed(some)[p] = cache[p] BY <1>1
<1>4. DOMAIN Primed(some) = paths \cup DOMAIN cache BY <1>1
<1> QED BY <1>2, <1>3, <1>4

LEMMA PrimedTyped ==
    ASSUME IsCache(cache), NEW some, some \subseteq EntryType
    PROVE  IsCache(Primed(some))
<1>1. \A e \in some : e.path \in Seq(Called) \ {<<>>} /\ e.handle \in Handles BY DEF EntryType
<1>2. DOMAIN Primed(some) = {e.path : e \in some} \cup DOMAIN cache BY PrimedIs
<1>3. DOMAIN Primed(some) \subseteq Seq(Called) \ {<<>>} BY <1>1, <1>2 DEF IsCache
<1>4. ASSUME NEW p \in DOMAIN Primed(some) PROVE Primed(some)[p] \in Handles
    <2>1. CASE p \in {e.path : e \in some} BY <1>1, <2>1, PrimedIs
    <2>2. CASE p \notin {e.path : e \in some}
        <3>1. p \in DOMAIN cache \ {e.path : e \in some} BY <1>2, <2>2
        <3>2. Primed(some)[p] = cache[p] BY <3>1, PrimedIs
        <3> QED BY <3>1, <3>2 DEF IsCache
    <2> QED BY <2>1, <2>2
<1> QED BY <1>3, <1>4 DEF IsCache

LEMMA ForgottenIs ==
    ASSUME NEW c, NEW p
    PROVE  /\ DOMAIN Forgotten(c, p) = DOMAIN c \ {p}
           /\ \A q \in DOMAIN c \ {p} : Forgotten(c, p)[q] = c[q]
<1> QED BY DEF Forgotten

LEMMA OutcomeIs ==
    ASSUME NEW e, NEW kept, Outcome(e, kept)
    PROVE  \/ e = "stale" /\ attempt = 1 /\ TryAgain(2, Forgotten(kept, path))
           \/ e = "stale" /\ attempt = 2 /\ TryAgain(3, <<>>)
           \/ /\ e = "vanished" /\ attempt = 2
              /\ reader' = "probe" /\ cache' = kept /\ UNCHANGED <<position, failure>>
           \/ Answer(e, kept)
<1>1. CASE e = "stale" /\ attempt = 1 BY <1>1 DEF Outcome
<1>2. CASE e = "stale" /\ attempt = 2 BY <1>2 DEF Outcome
<1>3. CASE e = "vanished" /\ attempt = 2 BY <1>3 DEF Outcome
<1>4. CASE /\ ~(e = "stale" /\ attempt = 1) /\ ~(e = "stale" /\ attempt = 2)
           /\ ~(e = "vanished" /\ attempt = 2)
    BY <1>4 DEF Outcome
<1> QED BY <1>1, <1>2, <1>3, <1>4

LEMMA AgainTyped ==
    ASSUME WalkInv, ReadInv, reader \notin {"idle", "failed"}, scan' = scan, NEW n \in {2, 3},
           NEW kept, IsCache(kept), TryAgain(n, kept)
    PROVE  ReadInv'
<1>1. /\ attempt' = n /\ cache' = kept /\ reader' = "resolve" /\ level' = 0 /\ target' = root
      /\ path' = path /\ known' = known /\ failure' = failure
    BY DEF TryAgain
<1>2. root \in Handles BY DEF WalkInv, OpenedInv
<1>3. failure' = "none" BY <1>1 DEF ReadInv
<1>4. Len(path) \in Nat BY DEF ReadInv
<1> QED BY <1>1, <1>2, <1>3, <1>4 DEF ReadInv, IsCache

LEMMA AnswerTyped ==
    ASSUME WalkInv, ReadInv, reader # "idle", scan' = scan,
           NEW e, e # "none", NEW kept, IsCache(kept), Answer(e, kept)
    PROVE  ReadInv'
<1>1. reader' = "failed" /\ failure' = e /\ cache' = kept /\ UNCHANGED position BY DEF Answer
<1> QED BY <1>1 DEF ReadInv, IsCache, position

LEMMA OutcomeTyped ==
    ASSUME WalkInv, ReadInv, reader \notin {"idle", "failed"}, scan' = scan,
           NEW e, e # "none", NEW kept, IsCache(kept), Outcome(e, kept)
    PROVE  ReadInv'
<1> DEFINE rest == Forgotten(kept, path)
<1>d. DOMAIN rest = DOMAIN kept \ {path} /\ \A q \in DOMAIN kept \ {path} : rest[q] = kept[q]
    BY ForgottenIs
<1> HIDE DEF rest
<1>1. IsCache(rest) BY <1>d DEF IsCache
<1>2. IsCache(<<>>) BY DEF IsCache
<1>3. CASE TryAgain(2, Forgotten(kept, path))
    <2>1. PICK c : c = rest OBVIOUS
    <2>2. TryAgain(2, c) BY <1>3, <2>1 DEF TryAgain, rest
    <2> QED BY <1>1, <2>1, <2>2, AgainTyped
<1>4. CASE TryAgain(3, <<>>) BY <1>2, <1>4, AgainTyped
<1>5. CASE reader' = "probe" /\ cache' = kept /\ UNCHANGED <<position, failure>>
    BY <1>5 DEF ReadInv, IsCache, position
<1>6. CASE Answer(e, kept) BY <1>6, AnswerTyped
<1> QED BY <1>3, <1>4, <1>5, <1>6, OutcomeIs

\* The children of a listing are entries of what was listed.
LEMMA ChildrenTyped ==
    ASSUME PhoneInv, NEW h, NEW listing \in Listings(h), NEW p \in Seq(Called)
    PROVE  ChildrenOf(p, listing) \subseteq EntryType
<1> SUFFICES ASSUME NEW i \in NamedIn(listing.listed)
             PROVE  Child(p, listing.listed[i]) \in EntryType
    BY DEF ChildrenOf
<1>1. i \in DOMAIN listing.listed BY DEF NamedIn
<1>2. listing.listed[i] \in Children(h) BY <1>1, ListingIs
<1> QED BY <1>2, ChildIs

LEMMA PrefixIs ==
    ASSUME ReadInv, NEW n \in 0..Len(path)
    PROVE  Prefix(n) \in Seq(Called) /\ Len(Prefix(n)) = n /\ \A i \in 1..n : Prefix(n)[i] = path[i]
<1>1. path \in Seq(Called) BY DEF ReadInv
<1>2. /\ SubSeq(path, 1, n) \in Seq(Called) /\ Len(SubSeq(path, 1, n)) = n
      /\ \A i \in 1..n : SubSeq(path, 1, n)[i] = path[i]
    BY <1>1
<1> QED BY <1>2 DEF Prefix

LEMMA ReadTyped == ASSUME PhoneInv, WalkInv, ReadInv, ReadStep PROVE ReadInv'
<1>1. CASE ReadFailed
    <2>1. /\ reader' = "idle" /\ failure' = "none" /\ path' = <<>> /\ attempt' = 1 /\ level' = 0
          /\ target' = RootHandle /\ known' = "nothing" /\ cache' = cache
        BY <1>1 DEF ReadFailed, Rest
    <2>2. RootHandle \in Handles BY DEF RootHandle, Handles
    <2>3. <<>> \in Seq(Called) /\ Len(<<>>) = 0 BY EmptySeq
    <2>4. level' \in 0..Len(path') BY <2>1, <2>3
    <2> QED BY <2>1, <2>2, <2>3, <2>4 DEF ReadInv, IsCache
<1>2. CASE Resolve
    <2>1. /\ reader = "resolve" /\ scan' = scan
          /\ UNCHANGED <<cache, path, attempt, known, failure>>
          /\ \/ path \in DOMAIN cache /\ reader' = "operate" /\ level' = Len(path) /\ target' = cache[path]
             \/ path \notin DOMAIN cache /\ reader' = "descend" /\ UNCHANGED <<level, target>>
        BY <1>2 DEF Resolve, outside, walkVars
    <2>2. Len(path) \in Nat /\ path # <<>> /\ Len(path) >= 1 BY <2>1 DEF ReadInv
    <2>3. /\ IsCache(cache) /\ path \in Seq(Called) /\ level \in 0..Len(path) /\ attempt \in 1..3
          /\ known \in {"nothing", "stale", "handle"} /\ target \in Handles
          /\ failure = "none" /\ scan = "walked"
        BY <2>1 DEF ReadInv
    <2>4. CASE path \in DOMAIN cache /\ reader' = "operate" /\ level' = Len(path)
               /\ target' = cache[path]
        <3>1. target' \in Handles /\ level' \in 0..Len(path) BY <2>2, <2>3, <2>4 DEF IsCache
        <3> QED BY <2>1, <2>2, <2>3, <2>4, <3>1 DEF ReadInv, IsCache
    <2>5. CASE path \notin DOMAIN cache /\ reader' = "descend" /\ UNCHANGED <<level, target>>
        <3>1. level < Len(path)
            BY <2>1, <2>2 DEF ReadInv
        <3> QED BY <2>1, <2>2, <2>3, <2>5, <3>1 DEF ReadInv, IsCache
    <2> QED BY <2>1, <2>4, <2>5
<1>3. CASE DescendCached
    <2>1. /\ reader = "descend" /\ Prefix(level + 1) \in DOMAIN cache /\ scan' = scan
          /\ target' = cache[Prefix(level + 1)] /\ level' = level + 1
          /\ reader' = IF level + 1 = Len(path) THEN "operate" ELSE "descend"
          /\ UNCHANGED <<cache, path, attempt, known, failure>>
        BY <1>3 DEF DescendCached, outside, walkVars
    <2>2. Len(path) \in Nat /\ level \in Nat /\ level < Len(path) BY <2>1 DEF ReadInv
    <2>3. level' \in 0..Len(path) /\ (reader' = "descend" => level' < Len(path)) BY <2>1, <2>2
    <2> QED BY <2>1, <2>3 DEF ReadInv, IsCache
<1>4. CASE DescendListed
    <2>1. reader = "descend" /\ scan' = scan BY <1>4 DEF DescendListed, outside, walkVars
    <2>2. IsCache(cache) BY DEF ReadInv
    <2>3. CASE \E e \in {"cancelled", "device", "stale"} : Outcome(e, cache)
        <3>1. PICK e \in {"cancelled", "device", "stale"} : Outcome(e, cache) BY <2>3
        <3>2. PICK c : c = cache OBVIOUS
        <3>3. Outcome(e, c) BY <3>1, <3>2
        <3> QED BY <2>1, <2>2, <3>2, <3>3, OutcomeTyped
    <2>4. ASSUME NEW listing \in Listings(target), NEW now,
                 now = Primed(ChildrenOf(Prefix(level), listing)),
                 \/ cache' = now /\ UNCHANGED <<reader, position, failure>>
                 \/ Outcome("vanished", now)
          PROVE  ReadInv'
        <3>1. level \in 0..Len(path) BY DEF ReadInv
        <3>2. Prefix(level) \in Seq(Called) BY <3>1, PrefixIs
        <3>3. ChildrenOf(Prefix(level), listing) \subseteq EntryType BY <3>2, ChildrenTyped
        <3>4. IsCache(now) BY <2>2, <2>4, <3>3, PrimedTyped
        <3>5. CASE cache' = now /\ UNCHANGED <<reader, position, failure>>
            BY <2>1, <3>4, <3>5 DEF ReadInv, IsCache, position
        <3>6. CASE Outcome("vanished", now) BY <2>1, <3>4, <3>6, OutcomeTyped
        <3> QED BY <2>4, <3>5, <3>6
    <2> QED BY <1>4, <2>3, <2>4 DEF DescendListed
<1>5. CASE Operate
    <2>1. reader = "operate" /\ scan' = scan BY <1>5 DEF Operate, outside, walkVars
    <2>2. IsCache(cache) BY DEF ReadInv
    <2>3. CASE reader' = "opened" /\ UNCHANGED <<since, cache, position, failure>>
        BY <2>1, <2>3 DEF ReadInv, IsCache, position
    <2>4. CASE Outcome("stale", cache) \/ Outcome("device", cache)
        <3>1. PICK c : c = cache OBVIOUS
        <3>2. Outcome("stale", c) \/ Outcome("device", c) BY <2>4, <3>1
        <3> QED BY <2>1, <2>2, <3>1, <3>2, OutcomeTyped
    <2> QED BY <1>5, <2>3, <2>4 DEF Operate
<1>6. CASE Probe
    <2>1. reader = "probe" /\ scan' = scan BY <1>6 DEF Probe, outside, walkVars
    <2>2. IsCache(cache) /\ IsCache(<<>>) BY DEF ReadInv, IsCache
    <2>3. CASE TryAgain(3, <<>>) BY <2>1, <2>2, <2>3, AgainTyped
    <2>4. CASE Answer("vanished", cache)
        <3>1. PICK c : c = cache OBVIOUS
        <3>2. Answer("vanished", c) BY <2>4, <3>1 DEF Answer
        <3> QED BY <2>1, <2>2, <3>1, <3>2, AnswerTyped
    <2> QED BY <1>6, <2>3, <2>4 DEF Probe
<1> QED BY <1>1, <1>2, <1>3, <1>4, <1>5, <1>6 DEF ReadStep
-----------------------------------------------------------------------------
(* Every step of an endpoint keeps the types.                              *)

TypedInv == PhoneInv /\ WalkInv /\ ReadInv

LEMMA InitTyped == MtpInit => TypedInv
<1> SUFFICES ASSUME MtpInit PROVE TypedInv OBVIOUS
<1>1. PhoneInit /\ WalkInit /\ ResolverInit BY DEF MtpInit
<1>2. PhoneInv
    <2>1. alive \in SUBSET Objects BY <1>1, PhoneAssumption DEF PhoneInit
    <2> QED BY <1>1, <2>1 DEF PhoneInit, PhoneInv, Undisturbed
<1>3. WalkInv BY <1>1, WalkTypeInit
<1>4. RootHandle \in Handles BY DEF RootHandle, Handles
<1>5. <<>> \in Seq(Called) /\ Len(<<>>) = 0 BY EmptySeq
<1>6. ReadInv BY <1>1, <1>4, <1>5 DEF ResolverInit, ReadInv, IsCache
<1> QED BY <1>2, <1>3, <1>6 DEF TypedInv

\* What a step does to the history besides what the phone does.
LEMMA SinceTyped ==
    ASSUME PhoneInv, WalkStep \/ ReadStep
    PROVE  /\ UNCHANGED phone
           /\ CallMade \/ since' = Undisturbed
           /\ CallMade \/ BeginScan \/ ReadFailed
<1> USE DEF CallMade
<1>1. CASE LocateSegment BY <1>1, Zenon DEF LocateSegment
<1>2. CASE Located \/ BeginScan BY <1>2, Zenon DEF Located, BeginScan
<1>3. CASE WalkFolder BY <1>3, Zenon DEF WalkFolder
<1>4. CASE Revalidate BY <1>4, Zenon DEF Revalidate
<1>5. CASE FindFile BY <1>5, Zenon DEF FindFile
<1>6. CASE ReadFailed BY <1>6, Zenon DEF ReadFailed, Rest, outside
<1>7. CASE Resolve \/ DescendCached BY <1>7, Zenon DEF Resolve, DescendCached, outside
<1>8. CASE DescendListed BY <1>8, Zenon DEF DescendListed, outside
<1>9. CASE Operate BY <1>9, Zenon DEF Operate, outside
<1>10. CASE Probe BY <1>10, Zenon DEF Probe, outside
<1> QED
    BY <1>1, <1>2, <1>3, <1>4, <1>5, <1>6, <1>7, <1>8, <1>9, <1>10, Zenon DEF WalkStep, ReadStep

LEMMA StillTyped == ASSUME PhoneInv, WalkStep \/ ReadStep PROVE PhoneInv'
<1>1. alive' = alive /\ key' = key BY SinceTyped DEF phone
<1>2. since' \in [changes : Nat, rekeys : Nat, faults : Nat] BY SinceTyped, CallHistory
<1> QED BY <1>1, <1>2 DEF PhoneInv

LEMMA DoneTyped == ASSUME WalkInv, ReadInv, WalkDone, Prime PROVE WalkInv' /\ ReadInv'
<1>1. /\ scan \in {"walk", "picked"} /\ scan' = "walked" /\ error' = error /\ opened' = opened
      /\ snapshot' = {e.path : e \in {d \in entries : ~d.folder}}
      /\ pending' = <<>> /\ visited' = {} /\ entries' = {}
      /\ cache' = Primed(entries) /\ UNCHANGED <<reader, position, failure>>
    BY DEF WalkDone, WalkIsOver, Prime
<1>2. entries \subseteq EntryType BY DEF WalkInv, FoundInv
<1>3. \A e \in entries : e.path \in Seq(Called) \ {<<>>} BY <1>2 DEF EntryType
<1>4. snapshot' \subseteq Seq(Called) \ {<<>>} BY <1>1, <1>3
<1>5. <<>> \in Seq(PendingType) BY EmptySeq
<1>6. FoundInv' BY <1>1, <1>4, <1>5 DEF FoundInv
<1>7. OpenedInv' BY <1>1 DEF WalkInv, OpenedInv, opened
<1>8. ScanInv' BY <1>1 DEF WalkInv, ScanInv, opened
<1>9. IsCache(Primed(entries)) BY <1>2, PrimedTyped DEF ReadInv
<1>10. ReadInv' BY <1>1, <1>9 DEF ReadInv, IsCache, position
<1> QED BY <1>6, <1>7, <1>8, <1>10 DEF WalkInv

LEMMA BeginTyped == ASSUME WalkInv, ReadInv, BeginRead PROVE ReadInv'
<1>1. /\ scan = "walked" /\ reader = "idle" /\ path' \in snapshot /\ scan' = scan
      /\ known' \in {"nothing", "stale", "handle"}
      /\ reader' = "resolve" /\ attempt' = 1 /\ level' = 0 /\ target' = root
      /\ cache' = cache /\ failure' = failure
    BY DEF BeginRead, outside, walkVars
<1>2. path' \in Seq(Called) /\ path' # <<>> /\ root \in Handles
    BY <1>1 DEF WalkInv, FoundInv, OpenedInv
<1>3. Len(path') \in Nat BY <1>2
<1>4. failure' = "none" BY <1>1 DEF ReadInv
<1> QED BY <1>1, <1>2, <1>3, <1>4 DEF ReadInv, IsCache

LEMMA RestTyped == ASSUME ReadInv, Rest PROVE ReadInv'
<1>1. /\ reader' = "idle" /\ failure' = "none" /\ path' = <<>> /\ attempt' = 1 /\ level' = 0
      /\ target' = RootHandle /\ known' = "nothing" /\ cache' = cache
    BY DEF Rest
<1>2. RootHandle \in Handles BY DEF RootHandle, Handles
<1>3. <<>> \in Seq(Called) /\ Len(<<>>) = 0 BY EmptySeq
<1>4. level' \in 0..Len(path') BY <1>1, <1>3
<1> QED BY <1>1, <1>2, <1>3, <1>4 DEF ReadInv, IsCache

\* No read is under way while there is still something to scan.
LEMMA WalksAlone == ASSUME WalkInv, ReadInv, WalkStep PROVE reader = "idle" /\ scan # "walked"
<1>1. scan # "walked"
    BY DEF WalkStep, LocateSegment, Located, BeginScan, WalkFolder, Revalidate, FindFile
<1> QED BY <1>1 DEF ReadInv

LEMMA TypedStep == ASSUME TypedInv, [MtpNext]_endpoint PROVE TypedInv'
<1>0. PhoneInv /\ WalkInv /\ ReadInv BY DEF TypedInv
<1>1. CASE WalkStep /\ UNCHANGED readVars
    <2>1. PhoneInv' /\ WalkInv' BY <1>0, <1>1, StillTyped, WalkTyped
    <2>2. reader = "idle" BY <1>0, <1>1, WalksAlone
    <2>3. ReadInv' BY <1>0, <1>1, <2>2 DEF ReadInv, IsCache, readVars, position
    <2> QED BY <2>1, <2>3 DEF TypedInv
<1>2. CASE WalkDone /\ Prime
    <2>1. PhoneInv' BY <1>0, <1>2 DEF WalkDone, PhoneInv, phone
    <2> QED BY <1>0, <1>2, <2>1, DoneTyped DEF TypedInv
<1>3. CASE BeginRead
    <2>1. UNCHANGED <<phone, walkVars>> /\ since' = Undisturbed BY <1>3 DEF BeginRead, outside
    <2>2. PhoneInv' BY <1>0, <2>1 DEF PhoneInv, phone, Undisturbed
    <2>3. WalkInv'
        BY <1>0, <2>1 DEF WalkInv, OpenedInv, FoundInv, ScanInv, walkVars, opened, walked
    <2> QED BY <1>0, <1>3, <2>2, <2>3, BeginTyped DEF TypedInv
<1>4. CASE ReadStep
    <2>1. UNCHANGED walkVars
        BY <1>4, Zenon DEF ReadStep, ReadFailed, Resolve, DescendCached, DescendListed, Operate,
                           Probe, outside
    <2>2. WalkInv'
        BY <1>0, <2>1 DEF WalkInv, OpenedInv, FoundInv, ScanInv, walkVars, opened, walked
    <2> QED BY <1>0, <1>4, <2>2, StillTyped, ReadTyped DEF TypedInv
<1>5. CASE reader = "opened" /\ Rest /\ UNCHANGED <<phone, walkVars>>
    <2>1. PhoneInv' BY <1>0, <1>5 DEF PhoneInv, phone, Undisturbed, Rest
    <2>2. WalkInv'
        BY <1>0, <1>5 DEF WalkInv, OpenedInv, FoundInv, ScanInv, walkVars, opened, walked
    <2> QED BY <1>0, <1>5, <2>1, <2>2, RestTyped DEF TypedInv
<1>6. CASE PhoneChanges /\ UNCHANGED <<walkVars, readVars>>
    <2>1. PhoneInv' BY <1>0, <1>6, ChangeTyped
    <2>2. WalkInv'
        BY <1>0, <1>6 DEF WalkInv, OpenedInv, FoundInv, ScanInv, walkVars, opened, walked
    <2>3. ReadInv' BY <1>0, <1>6 DEF ReadInv, IsCache, readVars, position, walkVars
    <2> QED BY <2>1, <2>2, <2>3 DEF TypedInv
<1>7. CASE UNCHANGED <<phone, since, walkVars, readVars>>
    <2>1. PhoneInv' BY <1>0, <1>7 DEF PhoneInv, phone
    <2>2. WalkInv'
        BY <1>0, <1>7 DEF WalkInv, OpenedInv, FoundInv, ScanInv, walkVars, opened, walked
    <2>3. ReadInv' BY <1>0, <1>7 DEF ReadInv, IsCache, readVars, position, walkVars
    <2> QED BY <2>1, <2>2, <2>3 DEF TypedInv
<1> QED BY <1>1, <1>2, <1>3, <1>4, <1>5, <1>6, <1>7, StepKinds

LEMMA AlwaysTyped == MtpSpec => []TypedInv
<1> QED BY InitTyped, TypedStep, PTL DEF MtpSpec

LEMMA WalkTypesAgree == ASSUME TypedInv PROVE WalkTypeOK
<1>1. WalkInv BY DEF TypedInv
<1>2. pending \in Seq(PendingType) BY <1>1 DEF WalkInv, FoundInv
<1>3. DOMAIN pending = 1..Len(pending) BY <1>2
<1>4. \A e \in entries : e.handle \in Handles BY <1>1 DEF WalkInv, FoundInv, EntryType
<1> QED BY <1>1, <1>3, <1>4 DEF WalkInv, OpenedInv, FoundInv, ScanInv, WalkTypeOK

LEMMA ReadTypesAgree == ASSUME TypedInv PROVE ResolverTypeOK
<1> QED BY DEF TypedInv, ReadInv, IsCache, ResolverTypeOK, Called

\* The walk, the handle cache and the stream hold what the code's types allow,
\* whatever the phone does between any two calls, and no read makes more
\* attempts than with_handle and recover do.
THEOREM EndpointTyped == MtpSpec => []MtpTypeOK
<1>1. TypedInv /\ PumpTypeOK => MtpTypeOK
    BY WalkTypesAgree, ReadTypesAgree DEF MtpTypeOK
<1> QED BY <1>1, AlwaysTyped, EndpointPumps, PumpTypeCorrect, PTL
-----------------------------------------------------------------------------
(* The tree.  A folder that was listed gives up its place among the        *)
(* pending for what lies in it, so that no entry lies below a pending one. *)

\* q is p with its last element given up for new ones.
InPlaceOfLast(p, new, q) ==
    /\ Len(q) \in Nat
    /\ \A n \in 1..(Len(p) - 1) : n \in 1..Len(q) /\ n \in 1..Len(p) /\ q[n] = p[n]
    /\ \A m \in 1..Len(new) : Len(p) - 1 + m \in 1..Len(q) /\ q[Len(p) - 1 + m] = new[m]
    /\ \A n \in 1..Len(q) : \/ n \in 1..(Len(p) - 1)
                            \/ \E m \in 1..Len(new) : n = Len(p) - 1 + m

LEMMA Replaced ==
    ASSUME NEW S, NEW p \in Seq(S), p # <<>>, NEW new \in Seq(S), NEW q, q = Front(p) \o new
    PROVE  InPlaceOfLast(p, new, q)
<1>1. /\ Front(p) \in Seq(S) /\ Len(p) \in Nat /\ Len(p) >= 1 /\ Len(Front(p)) = Len(p) - 1
      /\ \A i \in 1..(Len(p) - 1) : Front(p)[i] = p[i]
    BY FrontIs
<1>3. Len(q) = Len(Front(p)) + Len(new) BY <1>1, ConcatProperties
<1>4. \A i \in 1..(Len(Front(p)) + Len(new)) :
            q[i] = IF i <= Len(Front(p)) THEN Front(p)[i] ELSE new[i - Len(Front(p))]
    BY <1>1, ConcatProperties
<1>5. Len(new) \in Nat /\ Len(q) = Len(p) - 1 + Len(new) /\ Len(q) \in Nat BY <1>1, <1>3
<1>6. ASSUME NEW n \in 1..(Len(p) - 1)
      PROVE  n \in 1..Len(q) /\ n \in 1..Len(p) /\ q[n] = p[n]
    <2>1. n \in 1..(Len(Front(p)) + Len(new)) /\ n <= Len(Front(p)) BY <1>1, <1>5
    <2>2. q[n] = Front(p)[n] BY <1>4, <2>1
    <2> QED BY <1>1, <1>3, <1>5, <2>1, <2>2
<1>7. ASSUME NEW m \in 1..Len(new)
      PROVE  Len(p) - 1 + m \in 1..Len(q) /\ q[Len(p) - 1 + m] = new[m]
    <2>1. PICK n : n = Len(p) - 1 + m OBVIOUS
    <2>2. /\ n \in 1..(Len(Front(p)) + Len(new)) /\ ~(n <= Len(Front(p)))
          /\ n - Len(Front(p)) = m /\ n \in 1..Len(q)
        BY <1>1, <1>5, <2>1
    <2>3. q[n] = new[n - Len(Front(p))] BY <1>4, <2>2
    <2> QED BY <2>1, <2>2, <2>3
<1>8. ASSUME NEW n \in 1..Len(q), n \notin 1..(Len(p) - 1)
      PROVE  \E m \in 1..Len(new) : n = Len(p) - 1 + m
    <2>1. n - (Len(p) - 1) \in 1..Len(new) /\ n = Len(p) - 1 + (n - (Len(p) - 1))
        BY <1>1, <1>5, <1>8
    <2> QED BY <2>1
<1> QED BY <1>5, <1>6, <1>7, <1>8 DEF InPlaceOfLast

\* What one listing adds to the walk.
Listed(listing, new) ==
    LET p == Last(pending).path
        listed == listing.listed
    IN  /\ listing \in Listings(Last(pending).handle)
        /\ entries' = entries \cup {Child(p, listed[i]) : i \in Fresh(listed)}
        /\ visited' = visited \cup {Handle(listed[i]) : i \in Beneath(listed)}
        /\ skipped' = skipped \cup LeftOut(p, listing)
             \cup {[parent |-> p, object |-> listed[i]] : i \in Again(listed)}
        /\ new \in Seq(PendingType) /\ pending' = Front(pending) \o new
        /\ \A n \in 1..Len(new) : \E i \in Beneath(listed) : new[n] = ToList(p, listed[i])
        /\ \A i \in Beneath(listed) : \E n \in 1..Len(new) : new[n] = ToList(p, listed[i])
        /\ \A m, n \in 1..Len(new) : new[m].path = new[n].path => m = n

LEMMA FolderIs ==
    ASSUME PhoneInv, WalkInv, WalkFolder
    PROVE  /\ scan = "walk" /\ pending # <<>> /\ Last(pending) \in PendingType
           /\ opened' = opened /\ phone' = phone
           /\ \/ scan' = "failed" /\ entries' = entries
              \/ scan' = "walk" /\ \E listing, new : Listed(listing, new)
<1>0. scan = "walk" /\ pending # <<>> /\ phone' = phone BY DEF WalkFolder
<1> DEFINE folder == Last(pending)
<1>1. folder \in PendingType BY <1>0, FrontIs DEF WalkInv, FoundInv
<1>2. folder.path \in Seq(Called) BY <1>1 DEF PendingType
<1>3. CASE \E e \in {"cancelled", "device", "stale"} : FailScan(e)
    BY <1>0, <1>1, <1>3 DEF FailScan, walked
<1>4. ASSUME NEW listing \in Listings(folder.handle), Record(folder.path, listing),
             UNCHANGED <<scan, error, opened>>
      PROVE  \E new : Listed(listing, new)
    <2>1. /\ entries' = entries \cup {Child(folder.path, listing.listed[i]) : i \in Fresh(listing.listed)}
          /\ visited' = visited \cup {Handle(listing.listed[i]) : i \in Beneath(listing.listed)}
          /\ skipped' = skipped \cup LeftOut(folder.path, listing)
               \cup {[parent |-> folder.path, object |-> listing.listed[i]] :
                        i \in Again(listing.listed)}
        BY <1>2, <1>4, RecordIs
    <2>2. PICK new \in Seq(PendingType) :
            /\ pending' = Front(pending) \o new
            /\ \A n \in 1..Len(new) :
                \E i \in Beneath(listing.listed) : new[n] = ToList(folder.path, listing.listed[i])
            /\ \A i \in Beneath(listing.listed) :
                \E n \in 1..Len(new) : new[n] = ToList(folder.path, listing.listed[i])
            /\ \A m, n \in 1..Len(new) : new[m].path = new[n].path => m = n
        BY <1>2, <1>4, RecordIs
    <2>3. Listed(listing, new) BY <1>4, <2>1, <2>2 DEF Listed
    <2> QED BY <2>3
<1>5. \/ \E e \in {"cancelled", "device", "stale"} : FailScan(e)
      \/ \E listing \in Listings(folder.handle) :
            Record(folder.path, listing) /\ UNCHANGED <<scan, error, opened>>
    BY DEF WalkFolder
<1> QED BY <1>0, <1>1, <1>3, <1>4, <1>5

\* The children that became entries, and the folders among them.
LEMMA FreshAre ==
    ASSUME PhoneInv, NEW h, NEW listing \in Listings(h), NEW p \in Seq(Called),
           NEW i \in Fresh(listing.listed)
    PROVE  LET o == listing.listed[i] IN
           /\ i \in NamedIn(listing.listed) /\ i \in DOMAIN listing.listed
           /\ o \in Children(h) /\ o \in Objects /\ Name[o] \in Called
           /\ o \in Folders => Handle(o) \notin visited /\ i \in Beneath(listing.listed)
           /\ Child(p, o).path = Append(p, Name[o]) /\ Child(p, o).handle = Handle(o)
           /\ Child(p, o).folder = (o \in Folders)
           /\ Front(Child(p, o).path) = p /\ Len(Child(p, o).path) = Len(p) + 1
           /\ Child(p, o).path # <<>>
<1>1. i \in NamedIn(listing.listed) /\ i \in DOMAIN listing.listed BY DEF Fresh, NamedIn
<1>2. listing.listed[i] \in Children(h) BY <1>1, ListingIs
<1>3. listing.listed[i] \in Folders => Handle(listing.listed[i]) \notin visited
                                        /\ i \in Beneath(listing.listed)
    BY <1>1 DEF Fresh, Again, Beneath
<1>4. /\ listing.listed[i] \in Objects /\ Name[listing.listed[i]] \in Called
      /\ Child(p, listing.listed[i]).path = Append(p, Name[listing.listed[i]])
      /\ Child(p, listing.listed[i]).handle = Handle(listing.listed[i])
      /\ Child(p, listing.listed[i]).folder = (listing.listed[i] \in Folders)
    BY <1>2, ChildIs
<1>5. /\ Front(Child(p, listing.listed[i]).path) = p
      /\ Len(Child(p, listing.listed[i]).path) = Len(p) + 1
      /\ Child(p, listing.listed[i]).path # <<>>
    BY <1>4, AppendIs
<1> QED BY <1>1, <1>2, <1>3, <1>4, <1>5

\* Where the walk stands: what lies under a pending folder is not known yet, and
\* a pending folder is the root or an entry.
TreeInv ==
    /\ FindsATree
    /\ scan = "walk" =>
        /\ \A e \in entries : e.folder => e.handle \in visited
        /\ \A m, n \in 1..Len(pending) : pending[m].path = pending[n].path => m = n
        /\ \A n \in 1..Len(pending) :
            \/ pending[n].path = <<>>
            \/ \E e \in entries : e.folder /\ e.path = pending[n].path /\ e.handle = pending[n].handle
        /\ \A e \in entries : \A n \in 1..Len(pending) : Front(e.path) # pending[n].path

LEMMA TreeGrows ==
    ASSUME PhoneInv, WalkInv, TreeInv, scan = "walk", pending # <<>>, scan' = "walk",
           Last(pending) \in PendingType, NEW listing, NEW new, Listed(listing, new)
    PROVE  TreeInv'
<1> DEFINE h == Last(pending).handle
           p == Last(pending).path
           listed == listing.listed
           L == Len(pending)
           child(i) == Child(p, listed[i])
<1>1. /\ listing \in Listings(h) /\ p \in Seq(Called)
      /\ entries' = entries \cup {child(i) : i \in Fresh(listed)}
      /\ visited' = visited \cup {Handle(listed[i]) : i \in Beneath(listed)}
      /\ new \in Seq(PendingType) /\ pending' = Front(pending) \o new
      /\ \A n \in 1..Len(new) : \E i \in Beneath(listed) : new[n] = ToList(p, listed[i])
      /\ \A m, n \in 1..Len(new) : new[m].path = new[n].path => m = n
    BY DEF Listed, PendingType
<1>2. pending \in Seq(PendingType) /\ entries \subseteq EntryType BY DEF WalkInv, FoundInv
<1>3. /\ Len(pending') \in Nat
      /\ \A n \in 1..(L - 1) : n \in 1..L /\ pending'[n] = pending[n]
      /\ \A m \in 1..Len(new) : pending'[L - 1 + m] = new[m]
      /\ \A n \in 1..Len(pending') : n \in 1..(L - 1) \/ \E m \in 1..Len(new) : n = L - 1 + m
    <2>1. PICK q : q = Front(pending) \o new OBVIOUS
    <2>2. InPlaceOfLast(pending, new, q) BY <1>1, <1>2, <2>1, Replaced
    <2> QED BY <1>1, <2>1, <2>2 DEF InPlaceOfLast
<1>4. L \in Nat /\ L >= 1 /\ L \in 1..L /\ pending[L] = Last(pending)
    BY <1>2 DEF Last
<1>5. ASSUME NEW i \in Fresh(listed)
      PROVE  /\ i \in NamedIn(listed) /\ listed[i] \in Objects /\ Name[listed[i]] \in Called
             /\ child(i).path = Append(p, Name[listed[i]]) /\ child(i).handle = Handle(listed[i])
             /\ child(i).folder = (listed[i] \in Folders)
             /\ Front(child(i).path) = p /\ Len(child(i).path) = Len(p) + 1
             /\ listed[i] \in Folders => Handle(listed[i]) \notin visited /\ i \in Beneath(listed)
    BY <1>1, FreshAre
<1>6. \A i \in Beneath(listed) : i \in Fresh(listed) /\ listed[i] \in Folders BY DEF Beneath
<1>7. \A e \in entries : Front(e.path) # p BY <1>4 DEF TreeInv
<1>8. \A e \in entries' : e \in entries \/ \E i \in Fresh(listed) : e = child(i) BY <1>1
<1>9. \A i, j \in Fresh(listed) : Name[listed[i]] = Name[listed[j]] => i = j
    BY <1>1, <1>5, NamesDiffer
<1> HIDE DEF h, p, listed, L
<1>n. ASSUME NEW m \in 1..Len(new)
      PROVE  \E i \in Fresh(listed) :
                /\ listed[i] \in Folders /\ new[m].path = child(i).path
                /\ new[m].handle = child(i).handle
                /\ new[m].path # <<>> /\ Front(new[m].path) = p /\ new[m].path # p
    <2>1. PICK i \in Beneath(listed) : new[m] = ToList(p, listed[i]) BY <1>1
    <2>2. i \in Fresh(listed) /\ listed[i] \in Folders BY <1>6
    <2>3. new[m].path = Append(p, Name[listed[i]]) /\ new[m].handle = Handle(listed[i])
        BY <2>1 DEF ToList
    <2>4. /\ Append(p, Name[listed[i]]) # <<>> /\ Front(Append(p, Name[listed[i]])) = p
          /\ Len(Append(p, Name[listed[i]])) = Len(p) + 1
        <3>1. p \in Seq(Called) /\ Name[listed[i]] \in Called BY <1>1, <1>5, <2>2
        <3> QED BY <3>1, AppendIs
    <2>5. Len(p) \in Nat BY <1>1
    <2>6. Append(p, Name[listed[i]]) # p BY <2>4, <2>5
    <2> QED BY <1>5, <2>2, <2>3, <2>4, <2>6
<1>11. ASSUME NEW e \in entries', NEW f \in entries', e.path = f.path PROVE e = f
    <2>1. CASE e \in entries /\ f \in entries BY <1>11, <2>1 DEF TreeInv, FindsATree
    <2>2. ASSUME NEW i \in Fresh(listed), NEW d \in entries PROVE child(i).path # d.path
        BY <1>5, <1>7
    <2>3. ASSUME NEW i \in Fresh(listed), NEW j \in Fresh(listed), child(i).path = child(j).path
          PROVE  child(i) = child(j)
        <3>1. Append(p, Name[listed[i]]) = Append(p, Name[listed[j]]) BY <1>5, <2>3
        <3>2. Name[listed[i]] = Name[listed[j]] BY <1>1, <1>5, <3>1, AppendIs
        <3> QED BY <1>9, <3>2
    <2> QED BY <1>8, <1>11, <2>1, <2>2, <2>3
<1>12. ASSUME NEW e \in entries', NEW f \in entries', e.folder, e.handle = f.handle PROVE e = f
    <2>1. CASE e \in entries /\ f \in entries BY <1>12, <2>1 DEF TreeInv, FindsATree
    <2>2. ASSUME NEW i \in Fresh(listed), NEW d \in entries, child(i).folder \/ d.folder
          PROVE  child(i).handle # d.handle
        <3> SUFFICES ASSUME child(i).handle = d.handle PROVE FALSE OBVIOUS
        <3>1. child(i).handle = Handle(listed[i]) /\ child(i).folder = (listed[i] \in Folders)
            BY <1>5
        <3>2. Handle(listed[i]).object = listed[i] BY <1>5, HandleTyped
        <3>3. IsFolder(child(i).handle) = (listed[i] \in Folders) BY <3>1, <3>2 DEF IsFolder
        <3>4. d.folder = IsFolder(d.handle) BY DEF WalkInv, FoundInv
        <3>5. listed[i] \in Folders /\ d.folder BY <2>2, <3>1, <3>3, <3>4
        <3>6. d.handle \in visited BY <3>5 DEF TreeInv
        <3> QED BY <1>5, <3>1, <3>5, <3>6
    <2>3. ASSUME NEW i \in Fresh(listed), NEW j \in Fresh(listed), child(i).handle = child(j).handle
          PROVE  child(i) = child(j)
        <3>1. listed[i] = listed[j] BY <1>5, <2>3, HandleTyped
        <3> QED BY <3>1
    <2> QED BY <1>8, <1>12, <2>1, <2>2, <2>3
<1>13. ASSUME NEW e \in entries', Len(e.path) > 1
       PROVE  \E f \in entries' : f.folder /\ f.path = Front(e.path)
    <2>1. CASE e \in entries BY <1>1, <1>13, <2>1 DEF TreeInv, FindsATree
    <2>2. ASSUME NEW i \in Fresh(listed), e = child(i) PROVE \E f \in entries : f.folder /\ f.path = p
        <3>1. Len(p) + 1 > 1 /\ Len(p) \in Nat BY <1>1, <1>5, <1>13, <2>2
        <3>2. p # <<>> BY <3>1
        <3>3. pending[L].path = p BY <1>4 DEF p
        <3>4. \A n \in 1..L : \/ pending[n].path = <<>>
                              \/ \E f \in entries : f.folder /\ f.path = pending[n].path
            BY DEF TreeInv, L
        <3> QED BY <1>4, <3>2, <3>3, <3>4
    <2> QED BY <1>1, <1>5, <1>8, <2>1, <2>2
<1>14. FindsATree' BY <1>11, <1>12, <1>13 DEF FindsATree
<1>15. \A e \in entries' : e.folder => e.handle \in visited'
    <2>1. \A i \in Fresh(listed) : child(i).folder => child(i).handle \in visited' BY <1>1, <1>5
    <2> QED BY <1>1, <1>8, <2>1 DEF TreeInv
<1>o. ASSUME NEW n \in 1..(L - 1)
      PROVE  /\ n \in 1..L /\ n # L /\ pending'[n] = pending[n] /\ pending[n].path # p
             /\ \/ pending[n].path = <<>>
                \/ \E e \in entries : e.folder /\ e.path = pending[n].path
                                        /\ e.handle = pending[n].handle
    <2>1. n \in 1..L /\ n # L /\ pending'[n] = pending[n] BY <1>3, <1>4
    <2>2. pending[n].path # p BY <1>4, <2>1 DEF TreeInv, p, L
    <2> QED BY <2>1, <2>2 DEF TreeInv, L
<1>16. ASSUME NEW m \in 1..(L - 1), NEW k \in 1..Len(new) PROVE pending[m].path # new[k].path
    <2>1. new[k].path # <<>> /\ Front(new[k].path) = p BY <1>n
    <2> QED BY <1>7, <1>o, <2>1
<1>17. ASSUME NEW m \in 1..Len(pending'), NEW n \in 1..Len(pending'),
              pending'[m].path = pending'[n].path
       PROVE  m = n
    <2>1. CASE m \in 1..(L - 1) /\ n \in 1..(L - 1)
        BY <1>17, <1>o, <2>1 DEF TreeInv, L
    <2>2. CASE m \in 1..(L - 1) /\ n \notin 1..(L - 1) BY <1>3, <1>16, <1>17, <2>2
    <2>3. CASE m \notin 1..(L - 1) /\ n \in 1..(L - 1) BY <1>3, <1>16, <1>17, <2>3
    <2>4. CASE m \notin 1..(L - 1) /\ n \notin 1..(L - 1)
        <3>1. PICK j \in 1..Len(new) : m = L - 1 + j BY <1>3, <2>4
        <3>2. PICK k \in 1..Len(new) : n = L - 1 + k BY <1>3, <2>4
        <3>3. new[j].path = new[k].path BY <1>3, <1>17, <3>1, <3>2
        <3> QED BY <1>1, <3>1, <3>2, <3>3
    <2> QED BY <2>1, <2>2, <2>3, <2>4
<1>18. ASSUME NEW n \in 1..Len(pending')
       PROVE  \/ pending'[n].path = <<>>
              \/ \E e \in entries' : e.folder /\ e.path = pending'[n].path
                                        /\ e.handle = pending'[n].handle
    <2>1. CASE n \in 1..(L - 1) BY <1>1, <1>o, <2>1
    <2>2. ASSUME NEW m \in 1..Len(new), n = L - 1 + m
          PROVE  \E e \in entries' : e.folder /\ e.path = pending'[n].path
                                        /\ e.handle = pending'[n].handle
        <3>1. pending'[n] = new[m] BY <1>3, <2>2
        <3>2. PICK i \in Fresh(listed) : /\ listed[i] \in Folders /\ new[m].path = child(i).path
                                         /\ new[m].handle = child(i).handle
            BY <1>n
        <3>3. child(i) \in entries' /\ child(i).folder BY <1>1, <1>5, <3>2
        <3> QED BY <3>1, <3>2, <3>3
    <2> QED BY <1>3, <2>1, <2>2
<1>19. ASSUME NEW e \in entries', NEW n \in 1..Len(pending') PROVE Front(e.path) # pending'[n].path
    <2>1. CASE e \in entries /\ n \in 1..(L - 1)
        <3>1. n \in 1..L /\ pending'[n] = pending[n] BY <1>o, <2>1
        <3>2. \A k \in 1..L : Front(e.path) # pending[k].path BY <2>1 DEF TreeInv, L
        <3> QED BY <3>1, <3>2
    <2>2. ASSUME e \in entries, NEW m \in 1..Len(new) PROVE Front(e.path) # new[m].path
        <3> SUFFICES ASSUME Front(e.path) = new[m].path PROVE FALSE OBVIOUS
        <3>1. new[m].path # <<>> /\ Front(new[m].path) = p BY <1>n
        <3>2. e.path \in Seq(Called) /\ e.path # <<>> BY <1>2, <2>2 DEF EntryType
        <3>3. Len(Front(e.path)) = Len(e.path) - 1 /\ Front(e.path) \in Seq(Called)
                /\ Len(e.path) \in Nat
            BY <3>2, FrontIs
        <3>4. Len(e.path) > 1 BY <3>1, <3>3, EmptySeq
        <3>5. \E f \in entries : f.path = Front(e.path) BY <2>2, <3>4 DEF TreeInv, FindsATree
        <3> QED BY <1>7, <3>1, <3>5
    <2>3. ASSUME NEW i \in Fresh(listed), e = child(i), n \in 1..(L - 1)
          PROVE  Front(e.path) # pending[n].path
        BY <1>5, <1>o, <2>3
    <2>4. ASSUME NEW i \in Fresh(listed), e = child(i), NEW m \in 1..Len(new)
          PROVE  Front(e.path) # new[m].path
        BY <1>5, <1>n, <2>4
    <2>5. CASE n \in 1..(L - 1) BY <1>8, <1>o, <2>1, <2>3, <2>5
    <2>6. CASE n \notin 1..(L - 1)
        <3>1. PICK m \in 1..Len(new) : n = L - 1 + m BY <1>3, <2>6
        <3>2. pending'[n] = new[m] BY <1>3, <3>1
        <3> QED BY <1>8, <2>2, <2>4, <3>2
    <2> QED BY <2>5, <2>6
<1> QED BY <1>14, <1>15, <1>17, <1>18, <1>19 DEF TreeInv

LEMMA WalkTree == ASSUME PhoneInv, WalkInv, TreeInv, WalkStep PROVE TreeInv'
<1>1. ASSUME entries' = entries, scan' # "walk" PROVE TreeInv'
    BY <1>1 DEF TreeInv, FindsATree
<1>2. ASSUME NEW c, entries' = {c}, Len(c.path) = 1, scan' # "walk" PROVE TreeInv'
    <2>a. ~(1 > 1) OBVIOUS
    <2>b. ~(Len(c.path) > 1) BY <1>2, <2>a, Zenon
    <2>1. \A d \in entries' : d = c /\ ~(Len(d.path) > 1) BY <1>2, <2>b, Zenon
    <2>2. FindsATree' BY <2>1 DEF FindsATree
    <2> QED BY <1>2, <2>2 DEF TreeInv
<1>3. CASE LocateSegment \/ Located
    <2>1. entries' = entries /\ scan' # "walk" BY <1>3 DEF LocateSegment, Located, FailScan, walked
    <2> QED BY <1>1, <2>1
<1>4. CASE BeginScan
    <2>1. pending' = <<[path |-> <<>>, handle |-> root]>> /\ entries' = {}
        BY <1>4 DEF BeginScan, WalkInv, ScanInv
    <2>2. Len(pending') = 1 /\ pending'[1].path = <<>> BY <2>1
    <2>3. FindsATree' BY <2>1 DEF FindsATree
    <2> QED BY <2>1, <2>2, <2>3 DEF TreeInv
<1>5. CASE WalkFolder
    <2>1. CASE scan' = "failed" /\ entries' = entries BY <1>1, <2>1
    <2>2. ASSUME scan' = "walk", NEW listing, NEW new, Listed(listing, new) PROVE TreeInv'
        BY <1>5, <2>2, FolderIs, TreeGrows
    <2> QED BY <1>5, <2>1, <2>2, FolderIs
<1>6. ASSUME NEW h, PickedAs(h) PROVE TreeInv'
    <2>1. entries' = {[path |-> <<Last(rootPath)>>, handle |-> h, folder |-> FALSE]}
            /\ scan' = "picked"
        BY <1>6 DEF PickedAs
    <2>2. Len([path |-> <<Last(rootPath)>>, handle |-> h, folder |-> FALSE].path) = 1 OBVIOUS
    <2> QED BY <1>2, <2>1, <2>2
<1>7. CASE Revalidate \/ FindFile
    <2>1. \/ entries' = entries /\ scan' # "walk"
          \/ \E h : PickedAs(h)
        BY <1>7 DEF Revalidate, FindFile, FailScan, walked
    <2> QED BY <1>1, <1>6, <2>1
<1> QED BY <1>3, <1>4, <1>5, <1>7 DEF WalkStep

LEMMA TreeStep == ASSUME TypedInv, TreeInv, [MtpNext]_endpoint PROVE TreeInv'
<1>1. CASE WalkStep BY <1>1, WalkTree DEF TypedInv
<1>2. CASE WalkDone BY <1>2 DEF WalkDone, TreeInv, FindsATree
<1>3. CASE UNCHANGED walkVars BY <1>3 DEF walkVars, walked, TreeInv, FindsATree
<1>4. ASSUME BeginRead \/ ReadStep PROVE UNCHANGED walkVars
    BY <1>4, Zenon
    DEF BeginRead, ReadStep, ReadFailed, Resolve, DescendCached, DescendListed, Operate, Probe,
        outside
<1> QED BY <1>1, <1>2, <1>3, <1>4, StepKinds

LEMMA TreeInit == MtpInit => TreeInv
<1> SUFFICES ASSUME MtpInit PROVE TreeInv OBVIOUS
<1>1. WalkInit BY DEF MtpInit
<1> QED BY <1>1 DEF WalkInit, TreeInv, FindsATree

\* Whatever the phone lists, repeats, lists in two folders or in itself, refuses
\* or changes meanwhile, the walk finds a tree: one object per path, no folder
\* twice, and what lies in a folder comes with that folder.
THEOREM WalkFindsATree == MtpSpec => []FindsATree
<1>1. TreeInv => FindsATree BY DEF TreeInv
<1> QED BY <1>1, TreeInit, TreeStep, AlwaysTyped, PTL DEF MtpSpec
-----------------------------------------------------------------------------
(* Nothing lost.  While the phone keeps still, the handles the walk has    *)
(* yet to list are good, and every folder it found is listed or pending.   *)

Branch(p, h) == [path |-> p, handle |-> h]
Branches == {Branch(<<>>, root)} \cup {Branch(e.path, e.handle) : e \in {d \in entries : d.folder}}
OnRecord(f, o) ==
    \/ [parent |-> f.path, object |-> o] \in skipped
    \/ [path |-> Append(f.path, Name[o]), handle |-> Handle(o), folder |-> o \in Folders]
            \in entries
Covered(f) == \A o \in Children(f.handle) : OnRecord(f, o)

CoverInv ==
    /\ Names(root)
    /\ scan = "walk" /\ since.changes = 0 =>
        /\ \A n \in 1..Len(pending) : Names(pending[n].handle)
        /\ \A f \in Branches : Covered(f) \/ \E n \in 1..Len(pending) : pending[n] = f

LEMMA NamesNew == ASSUME PhoneInv, NEW h, NEW o \in Children(h) PROVE Names(Handle(o))
<1> QED BY DEF Children, Names, Handle

\* Whatever a full listing holds is an entry or on record as skipped.
LEMMA ListingCovers ==
    ASSUME PhoneInv, WalkInv, phone' = phone, NEW listing, NEW new, Listed(listing, new),
           NEW f \in PendingType, f = Last(pending), Names(f.handle)
    PROVE  Covered(f)'
<1> DEFINE listed == listing.listed
<1>1. /\ listing \in Listings(f.handle) /\ f.path \in Seq(Called)
      /\ entries' = entries \cup {Child(f.path, listed[i]) : i \in Fresh(listed)}
      /\ skipped' = skipped \cup LeftOut(f.path, listing)
           \cup {[parent |-> f.path, object |-> listed[i]] : i \in Again(listed)}
    BY DEF Listed, PendingType
<1>2. ASSUME NEW o \in Children(f.handle) PROVE
        \/ [parent |-> f.path, object |-> o] \in skipped'
        \/ [path |-> Append(f.path, Name[o]), handle |-> Handle(o), folder |-> o \in Folders]
                \in entries'
    <2>1. CASE o \in listing.refused
        <3>1. [parent |-> f.path, object |-> o] \in LeftOut(f.path, listing)
            BY <2>1 DEF LeftOut
        <3> QED BY <1>1, <3>1
    <2>2. CASE o \notin listing.refused
        <3>1. PICK i \in DOMAIN listed : listed[i] = o
            BY <1>1, <2>2, ListingIs
        <3>2. CASE i \notin NamedIn(listed)
            <4>1. [parent |-> f.path, object |-> o] \in LeftOut(f.path, listing)
                BY <3>1, <3>2 DEF LeftOut
            <4> QED BY <1>1, <4>1
        <3>3. CASE i \in Again(listed) BY <1>1, <3>1, <3>3
        <3>4. CASE i \in Fresh(listed)
            <4>1. Child(f.path, o) \in entries' BY <1>1, <3>1, <3>4
            <4> QED BY <4>1 DEF Child
        <3> QED BY <3>2, <3>3, <3>4 DEF Fresh
    <2> QED BY <2>1, <2>2
<1>3. Children(f.handle)' = Children(f.handle) BY DEF Children, phone
<1>4. \A o \in Objects : Handle(o)' = Handle(o) BY DEF Handle, phone
<1>5. ASSUME NEW o \in Children(f.handle) PROVE OnRecord(f, o)'
    <2>1. o \in Objects BY DEF Children, PhoneInv
    <2> QED BY <1>2, <1>4, <2>1 DEF OnRecord
<1> QED BY <1>3, <1>5 DEF Covered

LEMMA StillCovered ==
    ASSUME PhoneInv, phone' = phone, skipped \subseteq skipped', entries \subseteq entries',
           NEW f, Covered(f)
    PROVE  Covered(f)'
<1>1. Children(f.handle)' = Children(f.handle) BY DEF Children, phone
<1>2. \A o \in Objects : Handle(o)' = Handle(o) BY DEF Handle, phone
<1>3. ASSUME NEW o \in Children(f.handle) PROVE OnRecord(f, o)'
    <2>1. o \in Objects BY DEF Children, PhoneInv
    <2>2. OnRecord(f, o) BY DEF Covered
    <2> QED BY <1>2, <2>1, <2>2 DEF OnRecord
<1> QED BY <1>1, <1>3 DEF Covered

LEMMA CoverGrows ==
    ASSUME PhoneInv, WalkInv, CoverInv, scan = "walk", pending # <<>>, scan' = "walk",
           phone' = phone, opened' = opened, since'.changes = since.changes, since.changes = 0,
           Last(pending) \in PendingType, NEW listing, NEW new, Listed(listing, new)
    PROVE  /\ \A n \in 1..Len(pending') : Names(pending[n].handle)'
           /\ \A f \in Branches' : Covered(f)' \/ \E n \in 1..Len(pending') : pending'[n] = f
<1> DEFINE p == Last(pending).path
           h == Last(pending).handle
           listed == listing.listed
           L == Len(pending)
<1>1. /\ listing \in Listings(h) /\ p \in Seq(Called)
      /\ entries' = entries \cup {Child(p, listed[i]) : i \in Fresh(listed)}
      /\ skipped' = skipped \cup LeftOut(p, listing)
           \cup {[parent |-> p, object |-> listed[i]] : i \in Again(listed)}
      /\ new \in Seq(PendingType) /\ pending' = Front(pending) \o new
      /\ \A n \in 1..Len(new) : \E i \in Beneath(listed) : new[n] = ToList(p, listed[i])
      /\ \A i \in Beneath(listed) : \E n \in 1..Len(new) : new[n] = ToList(p, listed[i])
    BY DEF Listed, PendingType
<1>2. pending \in Seq(PendingType) BY DEF WalkInv, FoundInv
<1>3. /\ Len(pending') \in Nat
      /\ \A n \in 1..(L - 1) : n \in 1..Len(pending') /\ n \in 1..L /\ pending'[n] = pending[n]
      /\ \A m \in 1..Len(new) : L - 1 + m \in 1..Len(pending') /\ pending'[L - 1 + m] = new[m]
      /\ \A n \in 1..Len(pending') : n \in 1..(L - 1) \/ \E m \in 1..Len(new) : n = L - 1 + m
    <2>1. PICK q : q = Front(pending) \o new OBVIOUS
    <2>2. InPlaceOfLast(pending, new, q) BY <1>1, <1>2, <2>1, Replaced
    <2> QED BY <1>1, <2>1, <2>2 DEF InPlaceOfLast
<1>4. L \in Nat /\ L >= 1 /\ L \in 1..L /\ pending[L] = Last(pending) BY <1>2 DEF Last
<1>5. Names(h) BY <1>4 DEF CoverInv
<1>6. \A n \in 1..Len(pending') : Names(pending'[n].handle) => Names(pending[n].handle)'
    BY DEF Names, phone
<1>7. \A i \in Fresh(listed) : /\ listed[i] \in Children(h)
                               /\ Child(p, listed[i]).path = Append(p, Name[listed[i]])
                               /\ Child(p, listed[i]).handle = Handle(listed[i])
                               /\ Child(p, listed[i]).folder = (listed[i] \in Folders)
                               /\ listed[i] \in Folders => i \in Beneath(listed)
    BY <1>1, FreshAre
<1>8. \A i \in Beneath(listed) : i \in Fresh(listed) BY DEF Beneath
<1>9. PICK last : last = Last(pending) OBVIOUS
<1>10. Covered(last)' BY <1>5, <1>9, ListingCovers
<1> HIDE DEF p, h, listed
<1>11. ASSUME NEW n \in 1..Len(pending') PROVE Names(pending[n].handle)'
    <2>1. CASE n \in 1..(L - 1)
        <3>1. pending'[n] = pending[n] /\ Names(pending[n].handle) BY <1>3, <2>1 DEF CoverInv
        <3> QED BY <1>6, <3>1
    <2>2. ASSUME NEW m \in 1..Len(new), n = L - 1 + m PROVE Names(pending[n].handle)'
        <3>1. PICK i \in Beneath(listed) : new[m] = ToList(p, listed[i]) BY <1>1
        <3>2. new[m].handle = Handle(listed[i]) BY <3>1 DEF ToList
        <3>3. Names(Handle(listed[i])) BY <1>7, <1>8, NamesNew
        <3>4. pending'[n] = new[m] BY <1>3, <2>2
        <3> QED BY <1>6, <3>2, <3>3, <3>4
    <2> QED BY <1>3, <2>1, <2>2
<1>12. ASSUME NEW f \in Branches
       PROVE  Covered(f)' \/ \E n \in 1..Len(pending') : pending'[n] = f
    <2>1. CASE Covered(f) BY <1>1, <2>1, StillCovered
    <2>2. ASSUME NEW n \in 1..L, pending[n] = f
          PROVE  Covered(f)' \/ \E k \in 1..Len(pending') : pending'[k] = f
        <3>1. CASE n = L BY <1>4, <1>9, <1>10, <2>2, <3>1
        <3>2. CASE n # L
            <4>1. n \in 1..(L - 1) BY <1>4, <3>2
            <4> QED BY <1>3, <2>2, <4>1
        <3> QED BY <3>1, <3>2
    <2> QED BY <2>1, <2>2 DEF CoverInv
<1>13. ASSUME NEW i \in Fresh(listed), Child(p, listed[i]).folder
       PROVE  \E n \in 1..Len(pending') :
                pending'[n] = Branch(Child(p, listed[i]).path, Child(p, listed[i]).handle)
    <2>1. i \in Beneath(listed) BY <1>7, <1>13
    <2>2. PICK m \in 1..Len(new) : new[m] = ToList(p, listed[i]) BY <1>1, <2>1
    <2>3. new[m] = Branch(Child(p, listed[i]).path, Child(p, listed[i]).handle)
        BY <1>7, <2>2 DEF ToList, Branch
    <2> QED BY <1>3, <2>3
<1>14. ASSUME NEW f \in Branches'
       PROVE  \/ f \in Branches
              \/ \E i \in Fresh(listed) :
                    /\ Child(p, listed[i]).folder
                    /\ f = Branch(Child(p, listed[i]).path, Child(p, listed[i]).handle)
    <2>1. root' = root BY DEF opened
    <2>2. CASE f = Branch(<<>>, root') BY <2>1, <2>2 DEF Branches
    <2>3. ASSUME NEW e \in entries', e.folder, f = Branch(e.path, e.handle)
          PROVE  \/ f \in Branches
                 \/ \E i \in Fresh(listed) :
                        /\ Child(p, listed[i]).folder
                        /\ f = Branch(Child(p, listed[i]).path, Child(p, listed[i]).handle)
        <3>1. CASE e \in entries BY <2>3, <3>1 DEF Branches
        <3>2. CASE e \notin entries BY <1>1, <2>3, <3>2
        <3> QED BY <3>1, <3>2
    <2>4. f = Branch(<<>>, root') \/ \E e \in entries' : e.folder /\ f = Branch(e.path, e.handle)
        BY DEF Branches, Branch
    <2> QED BY <2>2, <2>3, <2>4
<1> QED BY <1>11, <1>12, <1>13, <1>14

LEMMA LocateKeepsRoot ==
    ASSUME PhoneInv, Names(root), LocateSegment
    PROVE  Names(root)'
<1>1. phone' = phone BY DEF LocateSegment
<1>2. CASE root' = root BY <1>1, <1>2 DEF Names, phone
<1>3. ASSUME NEW listing \in Listings(root), NEW o \in FirstCalled(Head(left), listing.listed),
             root' = Handle(o)
      PROVE  Names(root)'
    <2>1. o \in Children(root) BY FirstCalledIs
    <2>2. Names(root') BY <1>3, <2>1, NamesNew
    <2> QED BY <1>1, <2>2 DEF Names, phone
<1>4. \/ root' = root
      \/ \E listing \in Listings(root) :
            \E o \in FirstCalled(Head(left), listing.listed) : root' = Handle(o)
    BY DEF LocateSegment, FailScan, opened
<1> QED BY <1>2, <1>3, <1>4

LEMMA WalkCovers == ASSUME PhoneInv, WalkInv, CoverInv, WalkStep PROVE CoverInv'
<1>1. ASSUME root' = root, phone' = phone PROVE Names(root)'
    BY <1>1 DEF CoverInv, Names, phone
<1>2. phone' = phone BY SinceTyped
<1>3. CASE LocateSegment
    <2>1. scan' # "walk" BY <1>3 DEF LocateSegment, FailScan
    <2>2. Names(root)' BY <1>3, LocateKeepsRoot DEF CoverInv
    <2> QED BY <2>1, <2>2 DEF CoverInv
<1>4. CASE Located \/ Revalidate \/ FindFile
    <2>1. scan' # "walk" /\ root' = root
        BY <1>4 DEF Located, Revalidate, FindFile, FailScan, PickedAs, opened
    <2>2. Names(root)' BY <1>1, <1>2, <2>1
    <2> QED BY <2>1, <2>2 DEF CoverInv
<1>5. CASE BeginScan
    <2>1. /\ pending' = <<Branch(<<>>, root)>> /\ entries' = {} /\ root' = root
        BY <1>5 DEF BeginScan, WalkInv, ScanInv, Branch, opened
    <2>2. Len(pending') = 1 /\ pending'[1] = Branch(<<>>, root) BY <2>1
    <2>3. \A f \in Branches' : f = Branch(<<>>, root) BY <2>1 DEF Branches, Branch
    <2>4. Names(root)' BY <1>1, <1>2, <2>1
    <2>5. pending'[1].handle = root' BY <2>1, <2>2 DEF Branch
    <2>6. \A n \in 1..Len(pending') : Names(pending[n].handle)'
        <3> SUFFICES ASSUME NEW n \in 1..Len(pending') PROVE Names(pending[n].handle)' OBVIOUS
        <3>1. pending'[n].handle = root' BY <2>2, <2>5
        <3> QED BY <2>4, <3>1 DEF Names
    <2>7. \A f \in Branches' : \E n \in 1..Len(pending') : pending'[n] = f
        BY <2>2, <2>3
    <2> QED BY <2>4, <2>6, <2>7 DEF CoverInv
<1>6. CASE WalkFolder
    <2>1. scan = "walk" /\ pending # <<>> /\ Last(pending) \in PendingType /\ opened' = opened
        BY <1>6, FolderIs
    <2>2. Names(root)' BY <1>1, <1>2, <2>1 DEF opened
    <2>3. CASE scan' = "failed" BY <2>2, <2>3 DEF CoverInv
    <2>4. ASSUME scan' = "walk", NEW listing, NEW new, Listed(listing, new) PROVE CoverInv'
        <3>1. CallMade BY <1>6, Zenon DEF WalkFolder, CallMade
        <3>2. since'.changes = since.changes BY <3>1, CallKeeps
        <3>3. CASE since.changes = 0
            <4>1. \A n \in 1..Len(pending') : Names(pending[n].handle)'
                BY <1>2, <2>1, <2>4, <3>2, <3>3, CoverGrows
            <4>2. \A f \in Branches' :
                    Covered(f)' \/ \E n \in 1..Len(pending') : pending'[n] = f
                BY <1>2, <2>1, <2>4, <3>2, <3>3, CoverGrows
            <4> QED BY <2>2, <4>1, <4>2 DEF CoverInv
        <3>4. CASE since.changes # 0 BY <2>2, <3>2, <3>4 DEF CoverInv
        <3> QED BY <3>3, <3>4
    <2> QED BY <1>6, <2>3, <2>4, FolderIs
<1> QED BY <1>3, <1>4, <1>5, <1>6 DEF WalkStep

LEMMA CoverStep ==
    ASSUME RootStays, TypedInv, CoverInv, [MtpNext]_endpoint
    PROVE  CoverInv'
<1>0. PhoneInv /\ WalkInv /\ ReadInv BY DEF TypedInv
<1>1. CASE WalkStep BY <1>0, <1>1, WalkCovers
<1>2. ASSUME root' = root, phone' = phone PROVE Names(root)'
    BY <1>2 DEF CoverInv, Names, phone
<1>3. CASE WalkDone
    <2>1. scan' # "walk" /\ root' = root /\ phone' = phone BY <1>3 DEF WalkDone, opened
    <2> QED BY <1>2, <2>1 DEF CoverInv
<1>4. ASSUME UNCHANGED walkVars, phone' = phone, scan # "walk" \/ UNCHANGED since
      PROVE  CoverInv'
    <2>1. /\ scan' = scan /\ root' = root /\ pending' = pending /\ entries' = entries
          /\ skipped' = skipped
        BY <1>4 DEF walkVars, walked, opened
    <2>2. Names(root)' BY <1>2, <1>4, <2>1
    <2>3. CASE scan # "walk" BY <2>1, <2>2, <2>3 DEF CoverInv
    <2>4. CASE UNCHANGED since
        <3>1. \A f : Covered(f) => Covered(f)' BY <1>0, <1>4, <2>1, StillCovered
        <3>2. Branches' = Branches BY <2>1 DEF Branches
        <3>3. \A n \in 1..Len(pending') : Names(pending[n].handle) => Names(pending[n].handle)'
            BY <1>4, <2>1 DEF Names, phone
        <3> QED BY <2>1, <2>2, <2>4, <3>1, <3>2, <3>3 DEF CoverInv
    <2> QED BY <1>4, <2>3, <2>4
<1>5. CASE BeginRead \/ ReadStep
    <2>1. UNCHANGED <<walkVars, phone>>
        BY <1>5, Zenon DEF BeginRead, ReadStep, ReadFailed, Resolve, DescendCached, DescendListed,
                           Operate, Probe, outside
    <2>2. scan = "walked"
        BY <1>0, <1>5 DEF BeginRead, ReadStep, ReadFailed, Resolve, DescendCached, DescendListed,
                          Operate, Probe, ReadInv
    <2> QED BY <1>4, <2>1, <2>2
<1>6. CASE reader = "opened" /\ Rest /\ UNCHANGED <<phone, walkVars>>
    <2>1. scan = "walked" BY <1>0, <1>6 DEF ReadInv
    <2> QED BY <1>4, <1>6, <2>1
<1>7. CASE PhoneChanges /\ UNCHANGED walkVars /\ (RootStays /\ Names(root) => Names(root)')
    <2>1. since'.changes = since.changes + 1 /\ since.changes \in Nat
        BY <1>0, <1>7, ChangeTyped DEF PhoneInv
    <2>2. since'.changes # 0 BY <2>1
    <2>3. Names(root)' BY <1>7 DEF CoverInv
    <2> QED BY <2>2, <2>3 DEF CoverInv
<1>8. CASE UNCHANGED <<phone, since, walkVars, readVars>> BY <1>4, <1>8
<1> QED BY <1>1, <1>3, <1>5, <1>6, <1>7, <1>8, StepKinds

LEMMA CoverInit == MtpInit => CoverInv
<1> SUFFICES ASSUME MtpInit PROVE CoverInv OBVIOUS
<1>1. scan = "locate" /\ root = RootHandle BY DEF MtpInit, WalkInit
<1> QED BY <1>1 DEF CoverInv, Names

LEMMA CoverTells == ASSUME TypedInv, CoverInv PROVE NothingLost
<1> SUFFICES ASSUME WalkIsOver, file = {}, since.changes = 0, NEW f \in Branches
             PROVE  Covered(f)
    BY DEF NothingLost, Branches, Branch, Covered, OnRecord
<1>1. scan = "walk" /\ pending = <<>> BY DEF WalkIsOver, TypedInv, WalkInv, ScanInv
<1>2. ~\E n \in 1..Len(pending) : pending[n] = f BY <1>1
<1> QED BY <1>1, <1>2 DEF CoverInv

\* A scan of a phone that keeps still leaves nothing out in silence: what each
\* folder lists is an entry, or on record as skipped there, provided the phone
\* keeps the handle of the folder asked for between opening it and the scan.
THEOREM WalkLosesNothing == ASSUME RootStays PROVE MtpSpec => []NothingLost
<1>1. CoverInv /\ TypedInv /\ [MtpNext]_endpoint => CoverInv' BY CoverStep
<1>2. CoverInv /\ TypedInv => NothingLost BY CoverTells
<1> QED BY <1>1, <1>2, CoverInit, AlwaysTyped, PTL DEF MtpSpec
-----------------------------------------------------------------------------
(* What is opened.  Every handle that is kept lies at the path it is kept  *)
(* under: a way there leads through the folders whose listings gave it.    *)

LEMMA NamesAreStrings ==
    ASSUME NEW p \in Seq(Called) PROVE p \in Seq(STRING)
<1> QED BY PhoneAssumption DEF Called

LEMMA OneDeeper ==
    ASSUME NEW q \in Seq(STRING), NEW x \in AtPath(q), NEW o \in Objects, x \in Under[o]
    PROVE  o \in AtPath(Append(q, Name[o]))
<1> DEFINE L == Len(q)
           deeper == Append(q, Name[o])
<1>1. L \in Nat /\ Name[o] \in STRING BY PhoneAssumption
<1>2. /\ deeper \in Seq(STRING) /\ Len(deeper) = L + 1 /\ deeper # <<>>
      /\ DOMAIN deeper = 1..(L + 1) /\ deeper[L + 1] = Name[o]
      /\ \A n \in 1..L : deeper[n] = q[n]
    BY <1>1
<1>3. ASSUME NEW way \in [1..(L + 1) -> Objects], LeadsDown(way, deeper), way[L + 1] = o
      PROVE  o \in AtPath(deeper)
    BY <1>2, <1>3 DEF AtPath, AtPathThrough
<1>4. CASE q = <<>>
    <2>1. x = Storage /\ L = 0 BY <1>4 DEF AtPath, AtPathThrough
    <2> DEFINE way == [n \in 1..(L + 1) |-> o]
    <2>2. way \in [1..(L + 1) -> Objects] /\ way[L + 1] = o BY <1>1
    <2>3. LeadsDown(way, deeper)
        <3> SUFFICES ASSUME NEW n \in 1..(L + 1)
                     PROVE  /\ Name[way[n]] = deeper[n]
                            /\ (IF n = 1 THEN Storage ELSE way[n - 1]) \in Under[way[n]]
            BY <1>2 DEF LeadsDown
        <3>1. n = 1 /\ n = L + 1 /\ way[n] = o BY <2>1
        <3> QED BY <1>2, <2>1, <3>1
    <2> QED BY <1>3, <2>2, <2>3
<1>5. CASE q # <<>>
    <2>1. PICK w \in [DOMAIN q -> Objects] : LeadsDown(w, q) /\ x = w[L]
        BY <1>5 DEF AtPath, AtPathThrough
    <2>2. DOMAIN q = 1..L /\ L >= 1 BY <1>1, <1>5
    <2> DEFINE way == [n \in 1..(L + 1) |-> IF n = L + 1 THEN o ELSE w[n]]
    <2>3. \A n \in 1..(L + 1) : n # L + 1 => n \in 1..L BY <1>1
    <2>4. way \in [1..(L + 1) -> Objects] BY <2>1, <2>2, <2>3
    <2>5. way[L + 1] = o BY <1>1
    <2>6. \A n \in 1..L : way[n] = w[n] BY <1>1
    <2> HIDE DEF way
    <2>7. ASSUME NEW n \in 1..(L + 1)
          PROVE  /\ Name[way[n]] = deeper[n]
                 /\ (IF n = 1 THEN Storage ELSE way[n - 1]) \in Under[way[n]]
        <3>1. CASE n = L + 1
            <4>1. n # 1 /\ n - 1 = L /\ L \in 1..L BY <1>1, <2>2, <3>1
            <4>2. way[n - 1] = x BY <2>1, <2>6, <4>1
            <4> QED BY <1>2, <2>5, <3>1, <4>1, <4>2
        <3>2. CASE n # L + 1
            <4>1. n \in 1..L /\ way[n] = w[n] /\ deeper[n] = q[n] BY <1>2, <2>3, <2>6, <3>2
            <4>2. /\ Name[w[n]] = q[n]
                  /\ (IF n = 1 THEN Storage ELSE w[n - 1]) \in Under[w[n]]
                BY <2>1, <2>2, <4>1 DEF LeadsDown
            <4>3. n # 1 => n - 1 \in 1..L BY <1>1, <4>1
            <4>4. n # 1 => way[n - 1] = w[n - 1] BY <2>6, <4>3
            <4> QED BY <4>1, <4>2, <4>4
        <3> QED BY <3>1, <3>2
    <2>8. LeadsDown(way, deeper) BY <1>2, <2>7 DEF LeadsDown
    <2> QED BY <1>3, <2>4, <2>5, <2>8
<1> QED BY <1>4, <1>5

LEMMA OneIsSeq == ASSUME NEW S, NEW n \in S PROVE <<n>> \in Seq(S)
<1> QED OBVIOUS

LEMMA Deeper ==
    ASSUME NEW base \in Seq(STRING), NEW p \in Seq(Called), NEW n \in Called
    PROVE  /\ base \o p \in Seq(STRING)
           /\ base \o Append(p, n) = Append(base \o p, n)
<1>1. p \in Seq(STRING) /\ n \in STRING BY NamesAreStrings, PhoneAssumption DEF Called
<1>c. base \o p \in Seq(STRING) BY <1>1, ConcatProperties
<1>2. base \o p \in Seq(STRING) /\ <<n>> \in Seq(STRING) BY <1>1, <1>c, OneIsSeq
<1>3. Append(p, n) = p \o <<n>> /\ Append(base \o p, n) = (base \o p) \o <<n>>
    BY <1>1, <1>2, AppendIsConcat
<1>4. (base \o p) \o <<n>> = base \o (p \o <<n>>) BY <1>1, <1>2, ConcatAssociative
<1> QED BY <1>2, <1>3, <1>4

\* A child listed in what lies at a path lies below that path.
LEMMA ChildLies ==
    ASSUME PhoneInv, NEW base \in Seq(STRING), NEW p \in Seq(Called), NEW h,
           h.object \in AtPath(base \o p), NEW o \in Children(h)
    PROVE  Child(p, o).handle.object \in AtPath(base \o Child(p, o).path)
<1>1. /\ o \in Objects /\ h.object \in Under[o] /\ Name[o] \in Called
      /\ Child(p, o).path = Append(p, Name[o]) /\ Child(p, o).handle.object = o
    BY ChildIs
<1>2. base \o p \in Seq(STRING) /\ base \o Append(p, Name[o]) = Append(base \o p, Name[o])
    BY <1>1, Deeper
<1> QED BY <1>1, <1>2, OneDeeper

Lies(h, p) == h.object \in AtPath(Base \o p)

RootLies ==
    IF file = {} THEN root.object \in AtPath(SubSeq(rootPath, 1, Len(rootPath) - Len(left)))
    ELSE root.object \in AtPath(Front(rootPath)) /\ \A h \in file : h.object \in AtPath(rootPath)

WalkLies ==
    /\ RootLies
    /\ \A e \in entries : Lies(e.handle, e.path)
    /\ scan = "walk" =>
        file = {} /\ \A n \in 1..Len(pending) : Lies(pending[n].handle, pending[n].path)

ReadLies ==
    /\ scan # "walked" => DOMAIN cache = {}
    /\ \A p \in DOMAIN cache : Lies(cache[p], p)
    /\ reader \in {"resolve", "descend"} => Lies(target, Prefix(level))
    /\ reader \in {"operate", "opened"} => Lies(target, path)

LEMMA BaseTyped == ASSUME WalkInv PROVE Base \in Seq(STRING)
<1>1. rootPath \in Seq(STRING) /\ (file # {} => rootPath # <<>>) BY DEF WalkInv, OpenedInv
<1> QED BY <1>1, FrontIs DEF Base

\* Once the path asked for is found, the root lies at the base of the transfer.
LEMMA RootAtBase == ASSUME WalkInv, WalkLies, left = <<>> PROVE root.object \in AtPath(Base)
<1>1. rootPath \in Seq(STRING) /\ Len(left) = 0 BY DEF WalkInv, OpenedInv
<1>2. Len(rootPath) - Len(left) = Len(rootPath) /\ SubSeq(rootPath, 1, Len(rootPath)) = rootPath
    BY <1>1, SubSeqFull
<1> QED BY <1>2 DEF WalkLies, RootLies, Base

LEMMA RootLiesThere == ASSUME WalkInv, WalkLies, left = <<>> PROVE Lies(root, <<>>)
<1>1. Base \o <<>> = Base BY BaseTyped, ConcatEmptySeq
<1> QED BY <1>1, RootAtBase DEF Lies

LEMMA LocateLies == ASSUME PhoneInv, WalkInv, WalkLies, LocateSegment PROVE WalkLies'
<1>0. scan = "locate" /\ left # <<>> /\ file = {} /\ entries = {} /\ entries' = entries
    BY DEF LocateSegment, WalkInv, OpenedInv, ScanInv, FailScan, walked
<1>1. CASE scan' = "failed" /\ opened' = opened
    BY <1>0, <1>1 DEF WalkLies, RootLies, opened
<1>2. ASSUME NEW listing \in Listings(root),
             NEW o \in FirstCalled(Head(left), listing.listed),
             o \in Folders \/ Len(left) = 1, left' = Tail(left),
             IF o \in Folders
             THEN root' = Handle(o) /\ UNCHANGED file
             ELSE file' = {Handle(o)} /\ UNCHANGED root,
             scan' = scan, rootPath' = rootPath
      PROVE  WalkLies'
    <2>1. o \in Children(root) /\ Name[o] = Head(left) BY FirstCalledIs
    <2>2. o \in Objects /\ root.object \in Under[o] BY <2>1 DEF Children, PhoneInv
    <2>3. Handle(o).object = o BY <2>2, HandleTyped
    <2>4. rootPath \in Seq(STRING) /\ left \in Seq(STRING) /\ EndOf(left, rootPath)
        BY DEF WalkInv, OpenedInv
    <2>5. /\ Len(left) \in Nat /\ Len(left) >= 1 /\ Len(Tail(left)) = Len(left) - 1
          /\ Head(left) = rootPath[Len(rootPath) - Len(left) + 1]
        BY <1>0, <2>4, TailEnds
    <2>6. Len(rootPath) \in Nat /\ Len(left) <= Len(rootPath) BY <2>4 DEF EndOf
    <2>7. PICK k : k = Len(rootPath) - Len(left) OBVIOUS
    <2>8. k \in 0..Len(rootPath) /\ k + 1 \in 0..Len(rootPath) /\ k + 1 \in 1..Len(rootPath)
        BY <2>5, <2>6, <2>7
    <2>9. SubSeq(rootPath, 1, k) \in Seq(STRING) BY <2>4, <2>8, UpTo
    <2>10. o \in AtPath(Append(SubSeq(rootPath, 1, k), Name[o]))
        BY <1>0, <2>2, <2>7, <2>9, OneDeeper DEF WalkLies, RootLies
    <2>11. SubSeq(rootPath, 1, k + 1) = Append(SubSeq(rootPath, 1, k), Name[o])
        <3>1. rootPath[k + 1] = Name[o] BY <2>1, <2>5, <2>7
        <3> QED BY <2>4, <2>8, <3>1
    <2>12. o \in AtPath(SubSeq(rootPath, 1, k + 1)) BY <2>10, <2>11
    <2>13. CASE o \in Folders
        <3>1. root' = Handle(o) /\ file' = {} BY <1>0, <1>2, <2>13
        <3>a. Len(rootPath') = Len(rootPath) /\ Len(left') = Len(left) - 1 BY <1>2, <2>5
        <3>2. Len(rootPath') - Len(left') = k + 1 BY <2>5, <2>6, <2>7, <3>a
        <3> QED BY <1>0, <1>2, <2>3, <2>12, <3>1, <3>2 DEF WalkLies, RootLies
    <2>14. CASE o \notin Folders
        <3>1. root' = root /\ file' = {Handle(o)} /\ Len(left) = 1 BY <1>2, <2>14
        <3>2. k = Len(rootPath) - 1 /\ k + 1 = Len(rootPath) BY <2>6, <2>7, <3>1
        <3>3. SubSeq(rootPath, 1, k + 1) = rootPath BY <2>4, <3>2, SubSeqFull
        <3>4. Front(rootPath) = SubSeq(rootPath, 1, k) BY <3>2 DEF Front
        <3>5. root.object \in AtPath(Front(rootPath))
            BY <1>0, <2>7, <3>4 DEF WalkLies, RootLies
        <3>6. RootLies' BY <1>2, <2>3, <2>12, <3>1, <3>3, <3>5 DEF RootLies
        <3> QED BY <1>0, <1>2, <3>6 DEF WalkLies
    <2> QED BY <2>13, <2>14
<1>3. \/ scan' = "failed" /\ opened' = opened
      \/ \E listing \in Listings(root) :
            \E o \in FirstCalled(Head(left), listing.listed) :
                /\ o \in Folders \/ Len(left) = 1
                /\ left' = Tail(left)
                /\ IF o \in Folders
                   THEN root' = Handle(o) /\ UNCHANGED file
                   ELSE file' = {Handle(o)} /\ UNCHANGED root
                /\ UNCHANGED <<scan, error, rootPath, walked>>
    BY DEF LocateSegment, FailScan
<1> QED BY <1>1, <1>2, <1>3

LEMMA ListedLies ==
    ASSUME PhoneInv, WalkInv, WalkLies, scan = "walk", pending # <<>>, opened' = opened,
           Last(pending) \in PendingType, NEW listing, NEW new, Listed(listing, new)
    PROVE  WalkLies'
<1> DEFINE p == Last(pending).path
           h == Last(pending).handle
           listed == listing.listed
           L == Len(pending)
<1>1. /\ listing \in Listings(h) /\ p \in Seq(Called)
      /\ entries' = entries \cup {Child(p, listed[i]) : i \in Fresh(listed)}
      /\ new \in Seq(PendingType) /\ pending' = Front(pending) \o new
      /\ \A n \in 1..Len(new) : \E i \in Beneath(listed) : new[n] = ToList(p, listed[i])
    BY DEF Listed, PendingType
<1>2. pending \in Seq(PendingType) BY DEF WalkInv, FoundInv
<1>3. /\ \A n \in 1..(L - 1) : n \in 1..L /\ pending'[n] = pending[n]
      /\ \A m \in 1..Len(new) : pending'[L - 1 + m] = new[m]
      /\ \A n \in 1..Len(pending') : n \in 1..(L - 1) \/ \E m \in 1..Len(new) : n = L - 1 + m
    <2>1. PICK q : q = Front(pending) \o new OBVIOUS
    <2>2. InPlaceOfLast(pending, new, q) BY <1>1, <1>2, <2>1, Replaced
    <2> QED BY <1>1, <2>1, <2>2 DEF InPlaceOfLast
<1>4. L \in 1..L /\ pending[L] = Last(pending) BY <1>2 DEF Last
<1>5. Base' = Base /\ rootPath' = rootPath /\ file' = file /\ root' = root /\ left' = left
    BY DEF Base, opened
<1>6. Lies(h, p) BY <1>4 DEF WalkLies
<1>7. ASSUME NEW i \in Fresh(listed)
      PROVE  /\ Lies(Child(p, listed[i]).handle, Child(p, listed[i]).path)
             /\ Child(p, listed[i]).path = Append(p, Name[listed[i]])
             /\ Child(p, listed[i]).handle = Handle(listed[i])
    <2>1. /\ listed[i] \in Children(h)
          /\ Child(p, listed[i]).path = Append(p, Name[listed[i]])
          /\ Child(p, listed[i]).handle = Handle(listed[i])
        BY <1>1, FreshAre
    <2>2. PICK base : base = Base OBVIOUS
    <2>3. base \in Seq(STRING) /\ h.object \in AtPath(base \o p) BY <1>6, <2>2, BaseTyped DEF Lies
    <2>4. Child(p, listed[i]).handle.object \in AtPath(base \o Child(p, listed[i]).path)
        BY <1>1, <2>1, <2>3, ChildLies
    <2> QED BY <2>1, <2>2, <2>4 DEF Lies
<1> HIDE DEF p, h, listed
<1>8. \A e \in entries' : Lies(e.handle, e.path)
    BY <1>1, <1>7 DEF WalkLies
<1>9. ASSUME NEW n \in 1..Len(pending') PROVE Lies(pending'[n].handle, pending'[n].path)
    <2>1. CASE n \in 1..(L - 1) BY <1>3, <2>1 DEF WalkLies
    <2>2. ASSUME NEW m \in 1..Len(new), n = L - 1 + m
          PROVE  Lies(pending'[n].handle, pending'[n].path)
        <3>1. PICK i \in Beneath(listed) : new[m] = ToList(p, listed[i]) BY <1>1
        <3>2. i \in Fresh(listed) BY DEF Beneath
        <3>3. pending'[n] = new[m] BY <1>3, <2>2
        <3>4. new[m].path = Append(p, Name[listed[i]]) /\ new[m].handle = Handle(listed[i])
            BY <3>1 DEF ToList
        <3> QED BY <1>7, <3>2, <3>3, <3>4
    <2> QED BY <1>3, <2>1, <2>2
<1> QED BY <1>5, <1>8, <1>9 DEF WalkLies, RootLies, Lies

LEMMA PickLies ==
    ASSUME WalkInv, WalkLies, file # {}, NEW h, h.object \in AtPath(rootPath), PickedAs(h)
    PROVE  WalkLies'
<1>1. /\ scan' = "picked" /\ opened' = opened
      /\ entries' = {[path |-> <<Last(rootPath)>>, handle |-> h, folder |-> FALSE]}
    BY DEF PickedAs
<1>2. rootPath \in Seq(STRING) /\ rootPath # <<>> BY DEF WalkInv, OpenedInv
<1>3. /\ Front(rootPath) \in Seq(STRING) /\ Last(rootPath) \in STRING
      /\ rootPath = Append(Front(rootPath), Last(rootPath))
    BY <1>2, FrontIs
<1>4. Append(Front(rootPath), Last(rootPath)) = Front(rootPath) \o <<Last(rootPath)>>
    BY <1>3, AppendIsConcat
<1>5. Base' = Front(rootPath) BY <1>1 DEF Base, opened
<1>6. \A e \in entries' : e.path = <<Last(rootPath)>> /\ e.handle = h BY <1>1
<1>7. \A e \in entries' : e.handle.object \in AtPath(Base' \o e.path)
    BY <1>3, <1>4, <1>5, <1>6
<1>8. RootLies' BY <1>1 DEF WalkLies, RootLies, opened
<1> QED BY <1>1, <1>7, <1>8 DEF WalkLies, Lies

LEMMA WalkStaysThere == ASSUME PhoneInv, WalkInv, WalkLies, WalkStep PROVE WalkLies'
<1>1. ASSUME opened' = opened, entries' = entries, scan' # "walk" PROVE WalkLies'
    BY <1>1 DEF WalkLies, RootLies, Lies, Base, opened
<1>2. CASE LocateSegment BY <1>2, LocateLies
<1>3. CASE Located
    <2>1. opened' = opened /\ entries' = entries /\ scan' # "walk" BY <1>3 DEF Located, walked
    <2> QED BY <1>1, <2>1
<1>4. CASE BeginScan
    <2>1. /\ opened' = opened /\ entries' = {} /\ left = <<>>
          /\ scan' = IF file = {} THEN "walk" ELSE "pick"
          /\ pending' = <<[path |-> <<>>, handle |-> root]>>
        BY <1>4 DEF BeginScan, WalkInv, ScanInv
    <2>2. Lies(root, <<>>) BY <2>1, RootLiesThere
    <2>3. Len(pending') = 1 /\ pending'[1].handle = root /\ pending'[1].path = <<>> BY <2>1
    <2>4. Base' = Base BY <2>1 DEF Base, opened
    <2>5. \A n \in 1..Len(pending') : pending'[n].handle.object \in AtPath(Base' \o pending'[n].path)
        <3> SUFFICES ASSUME NEW n \in 1..Len(pending')
                     PROVE  pending'[n].handle.object \in AtPath(Base' \o pending'[n].path)
            OBVIOUS
        <3>1. n = 1 BY <2>3
        <3>2. pending'[n].handle = root /\ pending'[n].path = <<>> BY <2>3, <3>1
        <3> QED BY <2>2, <2>4, <3>2 DEF Lies
    <2>6. RootLies' BY <2>1 DEF WalkLies, RootLies, opened
    <2> QED BY <2>1, <2>5, <2>6 DEF WalkLies, Lies, opened
<1>5. CASE WalkFolder
    <2>1. /\ scan = "walk" /\ pending # <<>> /\ Last(pending) \in PendingType
          /\ opened' = opened
        BY <1>5, FolderIs
    <2>2. CASE scan' = "failed" /\ entries' = entries BY <1>1, <2>1, <2>2
    <2>3. ASSUME NEW listing, NEW new, Listed(listing, new) PROVE WalkLies'
        BY <2>1, <2>3, ListedLies
    <2> QED BY <1>5, <2>2, <2>3, FolderIs
<1>6. CASE Revalidate
    <2>1. scan = "pick" /\ file # {} BY <1>6 DEF Revalidate, WalkInv, ScanInv
    <2>2. \/ opened' = opened /\ entries' = entries /\ scan' # "walk"
          \/ \E h \in file : PickedAs(h)
        BY <1>6 DEF Revalidate, FailScan, walked
    <2>3. ASSUME NEW h \in file, PickedAs(h) PROVE WalkLies'
        <3>1. h.object \in AtPath(rootPath) BY <2>1 DEF WalkLies, RootLies
        <3> QED BY <2>1, <2>3, <3>1, PickLies
    <2> QED BY <1>1, <2>2, <2>3
<1>7. CASE FindFile
    <2>1. scan = "find" /\ file # {} BY <1>7 DEF FindFile, WalkInv, ScanInv
    <2>2. \/ opened' = opened /\ entries' = entries /\ scan' # "walk"
          \/ \E listing \in Listings(root) : \E c \in ChildrenOf(<<>>, listing) :
                c.path = <<Last(rootPath)>> /\ PickedAs(c.handle)
        BY <1>7 DEF FindFile, FailScan, walked
    <2>3. ASSUME NEW listing \in Listings(root), NEW c \in ChildrenOf(<<>>, listing),
                 c.path = <<Last(rootPath)>>, PickedAs(c.handle)
          PROVE  WalkLies'
        <3>1. PICK i \in DOMAIN listing.listed : c = Child(<<>>, listing.listed[i])
            BY DEF ChildrenOf, NamedIn
        <3>2. PICK o \in Children(root) : o = listing.listed[i] BY ListingIs
        <3>3. <<>> \in Seq(Called) BY EmptySeq
        <3>4. /\ o \in Objects /\ root.object \in Under[o] /\ c.handle.object = o
              /\ c.path = Append(<<>>, Name[o])
            BY <3>1, <3>2, <3>3, ChildIs
        <3>5. Name[o] = Last(rootPath)
            <4>1. Append(<<>>, Name[o])[1] = Name[o] /\ <<Last(rootPath)>>[1] = Last(rootPath)
                OBVIOUS
            <4> QED BY <2>3, <3>4, <4>1
        <3>6. rootPath \in Seq(STRING) /\ rootPath # <<>> /\ root.object \in AtPath(Front(rootPath))
            BY <2>1 DEF WalkInv, OpenedInv, WalkLies, RootLies
        <3>7. Front(rootPath) \in Seq(STRING) /\ rootPath = Append(Front(rootPath), Last(rootPath))
            BY <3>6, FrontIs
        <3>8. o \in AtPath(rootPath) BY <3>4, <3>5, <3>6, <3>7, OneDeeper
        <3>9. c.handle.object \in AtPath(rootPath) BY <3>4, <3>8
        <3> QED BY <2>1, <2>3, <3>9, PickLies
    <2> QED BY <1>1, <2>2, <2>3
<1> QED BY <1>2, <1>3, <1>4, <1>5, <1>6, <1>7 DEF WalkStep

\* The cache remembers what lay at its paths, and a read goes by what it says.
LEMMA ReadLiesAgain ==
    ASSUME WalkInv, WalkLies, left = <<>>, NEW kept, \A p \in DOMAIN kept : Lies(kept[p], p),
           NEW n, TryAgain(n, kept), opened' = opened, scan' = "walked"
    PROVE  ReadLies'
<1>1. /\ cache' = kept /\ reader' = "resolve" /\ level' = 0 /\ target' = root /\ path' = path
    BY DEF TryAgain
<1>2. Base' = Base BY DEF Base, opened
<1>3. Prefix(level)' = <<>> BY <1>1 DEF Prefix
<1>4. Lies(root, <<>>) BY RootLiesThere
<1>5. target'.object \in AtPath(Base' \o Prefix(level)') BY <1>1, <1>2, <1>3, <1>4 DEF Lies
<1> QED BY <1>1, <1>2, <1>5 DEF ReadLies, Lies

LEMMA OutcomeLies ==
    ASSUME WalkInv, WalkLies, left = <<>>, NEW kept, \A p \in DOMAIN kept : Lies(kept[p], p),
           NEW e, Outcome(e, kept), opened' = opened, scan' = "walked"
    PROVE  ReadLies'
<1> DEFINE rest == Forgotten(kept, path)
<1>1. DOMAIN rest = DOMAIN kept \ {path} /\ \A q \in DOMAIN kept \ {path} : rest[q] = kept[q]
    BY ForgottenIs
<1> HIDE DEF rest
<1>2. CASE TryAgain(2, rest)
    <2>1. PICK c : c = rest OBVIOUS
    <2>2. TryAgain(2, c) /\ \A p \in DOMAIN c : Lies(c[p], p) BY <1>1, <1>2, <2>1
    <2> QED BY <2>2, ReadLiesAgain
<1>3. CASE TryAgain(3, <<>>)
    <2>1. \A p \in DOMAIN <<>> : Lies(<<>>[p], p) OBVIOUS
    <2> QED BY <1>3, <2>1, ReadLiesAgain
<1>4. CASE reader' \in {"probe", "failed"} /\ cache' = kept
    <2>1. Base' = Base BY DEF Base, opened
    <2> QED BY <1>4, <2>1 DEF ReadLies, Lies
<1>5. Answer(e, kept) => reader' = "failed" /\ cache' = kept BY DEF Answer
<1> QED BY <1>2, <1>3, <1>4, <1>5, OutcomeIs DEF rest

LEMMA TaughtLies ==
    ASSUME PhoneInv, WalkInv, ReadInv, ReadLies, reader = "descend",
           NEW listing \in Listings(target), NEW now,
           now = Primed(ChildrenOf(Prefix(level), listing))
    PROVE  \A p \in DOMAIN now : Lies(now[p], p)
<1>1. level \in 0..Len(path) BY DEF ReadInv
<1>2. Prefix(level) \in Seq(Called) BY <1>1, PrefixIs
<1>3. PICK base : base = Base OBVIOUS
<1>4. base \in Seq(STRING) /\ target.object \in AtPath(base \o Prefix(level))
    BY <1>3, BaseTyped DEF ReadLies, Lies
<1>5. PICK some : some = ChildrenOf(Prefix(level), listing) OBVIOUS
<1>6. ASSUME NEW c \in some PROVE Lies(c.handle, c.path)
    <2>1. PICK i \in DOMAIN listing.listed : c = Child(Prefix(level), listing.listed[i])
        BY <1>5 DEF ChildrenOf, NamedIn
    <2>2. listing.listed[i] \in Children(target) BY ListingIs
    <2>3. c.handle.object \in AtPath(base \o c.path) BY <1>2, <1>4, <2>1, <2>2, ChildLies
    <2> QED BY <1>3, <2>3 DEF Lies
<1>7. now = Primed(some) BY <1>5
<1>8. DOMAIN Primed(some) = {e.path : e \in some} \cup DOMAIN cache BY PrimedIs
<1>9. ASSUME NEW p \in DOMAIN now PROVE Lies(now[p], p)
    <2>1. CASE p \in {e.path : e \in some}
        <3>1. PICK e \in some : e.path = p /\ Primed(some)[p] = e.handle BY <2>1, PrimedIs
        <3> QED BY <1>6, <1>7, <3>1
    <2>2. CASE p \notin {e.path : e \in some}
        <3>1. p \in DOMAIN cache \ {e.path : e \in some} BY <1>7, <1>8, <2>2
        <3>2. Primed(some)[p] = cache[p] BY <3>1, PrimedIs
        <3> QED BY <1>7, <3>1, <3>2 DEF ReadLies
    <2> QED BY <2>1, <2>2
<1> QED BY <1>9

LEMMA ReadStaysThere ==
    ASSUME PhoneInv, WalkInv, ReadInv, WalkLies, ReadLies, ReadStep
    PROVE  ReadLies'
<1>0. UNCHANGED walkVars
    BY Zenon DEF ReadStep, ReadFailed, Resolve, DescendCached, DescendListed, Operate, Probe, outside
<1>1. reader # "idle"
    BY DEF ReadStep, ReadFailed, Resolve, DescendCached, DescendListed, Operate, Probe
<1>2. scan = "walked" /\ scan' = "walked" /\ opened' = opened /\ Base' = Base
    BY <1>0, <1>1 DEF ReadInv, walkVars, opened, Base
<1>3. left = <<>> BY <1>2 DEF WalkInv, ScanInv
<1>4. \A p \in DOMAIN cache : Lies(cache[p], p) BY DEF ReadLies
<1>5. ASSUME NEW e, Outcome(e, cache) PROVE ReadLies'
    <2>1. PICK c : c = cache OBVIOUS
    <2>2. Outcome(e, c) /\ \A p \in DOMAIN c : Lies(c[p], p) BY <1>4, <1>5, <2>1
    <2> QED BY <1>2, <1>3, <2>2, OutcomeLies
<1>6. CASE ReadFailed
    <2>1. cache' = cache /\ reader' = "idle" BY <1>6 DEF ReadFailed, Rest
    <2> QED BY <1>2, <1>4, <2>1 DEF ReadLies, Lies
<1>7. CASE Resolve
    <2>1. /\ reader = "resolve" /\ cache' = cache /\ path' = path
          /\ \/ path \in DOMAIN cache /\ reader' = "operate" /\ target' = cache[path]
             \/ reader' = "descend" /\ UNCHANGED <<level, target>>
        BY <1>7 DEF Resolve
    <2>2. CASE path \in DOMAIN cache /\ reader' = "operate" /\ target' = cache[path]
        BY <1>2, <1>4, <2>1, <2>2 DEF ReadLies, Lies
    <2>3. CASE reader' = "descend" /\ UNCHANGED <<level, target>>
        BY <1>2, <1>4, <2>1, <2>3 DEF ReadLies, Lies, Prefix
    <2> QED BY <2>1, <2>2, <2>3
<1>8. CASE DescendCached
    <2>1. /\ reader = "descend" /\ Prefix(level + 1) \in DOMAIN cache /\ path' = path
          /\ target' = cache[Prefix(level + 1)] /\ level' = level + 1 /\ cache' = cache
          /\ reader' = IF level + 1 = Len(path) THEN "operate" ELSE "descend"
        BY <1>8 DEF DescendCached
    <2>2. Lies(cache[Prefix(level + 1)], Prefix(level + 1)) BY <1>4, <2>1
    <2>3. level + 1 = Len(path) => Prefix(level + 1) = path
        BY SubSeqFull DEF ReadInv, Prefix
    <2>4. Prefix(level)' = Prefix(level + 1) BY <2>1 DEF Prefix
    <2>5. CASE level + 1 = Len(path) BY <1>2, <1>4, <2>1, <2>2, <2>3, <2>5 DEF ReadLies, Lies
    <2>6. CASE level + 1 # Len(path) BY <1>2, <1>4, <2>1, <2>2, <2>4, <2>6 DEF ReadLies, Lies
    <2> QED BY <2>5, <2>6
<1>9. CASE DescendListed
    <2>1. reader = "descend" BY <1>9 DEF DescendListed
    <2>2. ASSUME NEW listing \in Listings(target), NEW now,
                 now = Primed(ChildrenOf(Prefix(level), listing)),
                 \/ cache' = now /\ UNCHANGED <<reader, position, failure>>
                 \/ Outcome("vanished", now)
          PROVE  ReadLies'
        <3>1. \A p \in DOMAIN now : Lies(now[p], p) BY <2>1, <2>2, TaughtLies
        <3>2. CASE cache' = now /\ UNCHANGED <<reader, position, failure>>
            BY <1>2, <2>1, <3>1, <3>2 DEF ReadLies, Lies, Prefix, position
        <3>3. CASE Outcome("vanished", now) BY <1>2, <1>3, <3>1, <3>3, OutcomeLies
        <3> QED BY <2>2, <3>2, <3>3
    <2> QED BY <1>5, <1>9, <2>2 DEF DescendListed
<1>10. CASE Operate
    <2>1. CASE reader' = "opened" /\ UNCHANGED <<since, cache, position, failure>>
        BY <1>2, <1>4, <1>10, <2>1 DEF Operate, ReadLies, Lies, position
    <2> QED BY <1>5, <1>10, <2>1 DEF Operate
<1>11. CASE Probe
    <2>1. CASE TryAgain(3, <<>>)
        <3>1. \A p \in DOMAIN <<>> : Lies(<<>>[p], p) OBVIOUS
        <3> QED BY <1>2, <1>3, <2>1, <3>1, ReadLiesAgain
    <2>2. CASE Answer("vanished", cache)
        <3>1. reader' = "failed" /\ cache' = cache BY <2>2 DEF Answer
        <3> QED BY <1>2, <1>4, <3>1 DEF ReadLies, Lies
    <2> QED BY <1>11, <2>1, <2>2 DEF Probe
<1> QED BY <1>6, <1>7, <1>8, <1>9, <1>10, <1>11 DEF ReadStep

LiesInv == WalkLies /\ ReadLies

LEMMA LiesStep == ASSUME TypedInv, LiesInv, [MtpNext]_endpoint PROVE LiesInv'
<1>0. PhoneInv /\ WalkInv /\ ReadInv /\ WalkLies /\ ReadLies BY DEF TypedInv, LiesInv
<1>1. ASSUME UNCHANGED walkVars PROVE WalkLies' /\ Base' = Base /\ scan' = scan
    BY <1>0, <1>1 DEF WalkLies, RootLies, Lies, Base, walkVars, walked, opened
<1>2. CASE WalkStep /\ UNCHANGED readVars
    <2>1. WalkLies' BY <1>0, <1>2, WalkStaysThere
    <2>2. reader = "idle" /\ scan # "walked" BY <1>0, <1>2, WalksAlone
    <2>3. DOMAIN cache = {} BY <1>0, <2>2 DEF ReadLies
    <2>4. cache' = cache /\ reader' = "idle" BY <1>2, <2>2 DEF readVars
    <2> QED BY <2>1, <2>3, <2>4 DEF LiesInv, ReadLies
<1>3. CASE WalkDone /\ Prime
    <2>1. /\ scan' = "walked" /\ opened' = opened /\ entries' = {} /\ scan # "walked"
          /\ cache' = Primed(entries) /\ reader' = reader
        BY <1>3 DEF WalkDone, Prime, WalkIsOver
    <2>2. WalkLies' BY <1>0, <2>1 DEF WalkLies, RootLies, Lies, Base, opened
    <2>3. DOMAIN cache = {} /\ reader = "idle" BY <1>0, <2>1 DEF ReadLies, ReadInv
    <2>4. DOMAIN Primed(entries) = {e.path : e \in entries} \cup DOMAIN cache BY PrimedIs
    <2>5. ASSUME NEW p \in DOMAIN Primed(entries) PROVE Lies(Primed(entries)[p], p)
        <3>1. p \in {e.path : e \in entries} BY <2>3, <2>4
        <3>2. PICK e \in entries : e.path = p /\ Primed(entries)[p] = e.handle BY <3>1, PrimedIs
        <3> QED BY <1>0, <3>2 DEF WalkLies
    <2>6. Base' = Base BY <2>1 DEF Base, opened
    <2>7. ReadLies' BY <2>1, <2>3, <2>5, <2>6 DEF ReadLies, Lies
    <2> QED BY <2>2, <2>7 DEF LiesInv
<1>4. CASE BeginRead
    <2>1. /\ UNCHANGED walkVars /\ scan = "walked" /\ cache' = cache /\ reader' = "resolve"
          /\ level' = 0 /\ target' = root
        BY <1>4 DEF BeginRead, outside
    <2>2. left = <<>> BY <1>0, <2>1 DEF WalkInv, ScanInv
    <2>3. Lies(root, <<>>) BY <1>0, <2>2, RootLiesThere
    <2>4. Prefix(level)' = <<>> BY <2>1 DEF Prefix
    <2>5. ReadLies' BY <1>0, <1>1, <2>1, <2>3, <2>4 DEF ReadLies, Lies
    <2> QED BY <1>1, <2>1, <2>5 DEF LiesInv
<1>5. CASE ReadStep
    <2>1. UNCHANGED walkVars
        BY <1>5, Zenon DEF ReadStep, ReadFailed, Resolve, DescendCached, DescendListed, Operate,
                           Probe, outside
    <2> QED BY <1>0, <1>1, <1>5, <2>1, ReadStaysThere DEF LiesInv
<1>6. CASE reader = "opened" /\ Rest /\ UNCHANGED <<phone, walkVars>>
    <2>1. cache' = cache /\ reader' = "idle" BY <1>6 DEF Rest
    <2> QED BY <1>0, <1>1, <1>6, <2>1 DEF LiesInv, ReadLies, Lies
<1>7. CASE UNCHANGED <<walkVars, readVars>>
    BY <1>0, <1>1, <1>7 DEF LiesInv, ReadLies, Lies, Prefix, readVars, position
<1> QED BY <1>2, <1>3, <1>4, <1>5, <1>6, <1>7, StepKinds

LEMMA LiesInit == MtpInit => LiesInv
<1> SUFFICES ASSUME MtpInit PROVE LiesInv OBVIOUS
<1>1. WalkInit /\ ResolverInit BY DEF MtpInit
<1>2. rootPath \in Seq(STRING) /\ left = rootPath BY <1>1, DeviceWalkAssumption DEF WalkInit
<1>3. Len(rootPath) - Len(left) = 0 BY <1>2
<1>4. SubSeq(rootPath, 1, 0) = <<>> OBVIOUS
<1>5. RootLies
    BY <1>1, <1>3, <1>4 DEF WalkInit, RootLies, RootHandle, AtPath, AtPathThrough
<1> QED BY <1>1, <1>5 DEF WalkInit, ResolverInit, LiesInv, WalkLies, ReadLies

\* Whatever was re-keyed, lost, replaced or listed twice, a read opens an object
\* that lies at its path, never one of another path whose handle the cache once
\* learned.
THEOREM ReadsWhatWasAsked == MtpSpec => []OpensWhatWasAsked
<1>1. LiesInv => OpensWhatWasAsked BY DEF LiesInv, ReadLies, Lies, OpensWhatWasAsked
<1> QED BY <1>1, LiesInit, LiesStep, AlwaysTyped, PTL DEF MtpSpec
-----------------------------------------------------------------------------
(* What the cache loses.  A file whose handle was good when a read began   *)
(* goes stale only if the phone changes, and a handle learned anew once    *)
(* more only if it changes again.                                          *)

Trying == reader \in {"resolve", "descend", "operate", "probe"}

TargetInv ==
    /\ reader = "resolve" => target = root
    /\ reader = "descend" =>
        \/ level = 0 /\ target = root
        \/ Prefix(level) \in DOMAIN cache /\ target = cache[Prefix(level)]
    /\ reader = "operate" => path \in DOMAIN cache /\ target = cache[path]

KnownInv ==
    Trying /\ known = "handle" =>
        /\ attempt = 1 => /\ reader \in {"resolve", "operate"} /\ path \in DOMAIN cache
                          /\ Names(cache[path]) \/ since.changes >= 1
        /\ attempt # 1 => since.changes >= 1
        /\ attempt = 2 /\ path \in DOMAIN cache => Names(cache[path]) \/ since.changes >= 2

\* Where an error leads, by what is left of the cache and of the read.
LEMMA OutcomeLeaves ==
    ASSUME ReadInv, NEW e, NEW kept, Outcome(e, kept)
    PROVE  /\ known' = known /\ path' = path
           /\ \/ /\ e = "stale" /\ attempt = 1 /\ attempt' = 2 /\ reader' = "resolve"
                 /\ target' = root /\ cache' = Forgotten(kept, path)
              \/ /\ e = "stale" /\ attempt = 2 /\ attempt' = 3 /\ reader' = "resolve"
                 /\ target' = root /\ cache' = <<>>
              \/ /\ e = "vanished" /\ attempt = 2 /\ attempt' = 2 /\ reader' = "probe"
                 /\ cache' = kept
              \/ reader' = "failed" /\ cache' = kept
<1>1. CASE e = "stale" /\ attempt = 1 /\ TryAgain(2, Forgotten(kept, path))
    BY <1>1 DEF TryAgain
<1>2. CASE e = "stale" /\ attempt = 2 /\ TryAgain(3, <<>>) BY <1>2 DEF TryAgain
<1>3. CASE /\ e = "vanished" /\ attempt = 2 /\ reader' = "probe" /\ cache' = kept
           /\ UNCHANGED <<position, failure>>
    BY <1>3 DEF position
<1>4. CASE Answer(e, kept) BY <1>4 DEF Answer, position
<1> QED BY <1>1, <1>2, <1>3, <1>4, OutcomeIs

\* A listing teaches the cache good handles, and takes none of it away; what it
\* teaches lies one below the folder listed.
LEMMA TaughtIs ==
    ASSUME PhoneInv, ReadInv, NEW listing \in Listings(target), NEW now,
           now = Primed(ChildrenOf(Prefix(level), listing))
    PROVE  /\ DOMAIN cache \subseteq DOMAIN now
           /\ \A p \in DOMAIN now : Names(now[p]) \/ (p \in DOMAIN cache /\ now[p] = cache[p])
           /\ Prefix(level) \in DOMAIN cache => now[Prefix(level)] = cache[Prefix(level)]
<1>1. level \in 0..Len(path) BY DEF ReadInv
<1>2. Prefix(level) \in Seq(Called) BY <1>1, PrefixIs
<1>3. PICK some : some = ChildrenOf(Prefix(level), listing) OBVIOUS
<1>4. now = Primed(some) BY <1>3
<1>5. ASSUME NEW c \in some PROVE Names(c.handle) /\ c.path # Prefix(level)
    <2>1. PICK i \in DOMAIN listing.listed : c = Child(Prefix(level), listing.listed[i])
        BY <1>3 DEF ChildrenOf, NamedIn
    <2>2. PICK o \in Children(target) : o = listing.listed[i] BY ListingIs
    <2>3. c.path = Append(Prefix(level), Name[o]) /\ c.handle = Handle(o) /\ Name[o] \in Called
        BY <1>2, <2>1, <2>2, ChildIs
    <2>4. Len(c.path) = Len(Prefix(level)) + 1 /\ Len(Prefix(level)) \in Nat
        BY <1>2, <2>3, AppendIs
    <2>5. c.path # Prefix(level) BY <2>4
    <2> QED BY <2>2, <2>3, <2>5, NamesNew
<1>6. DOMAIN Primed(some) = {d.path : d \in some} \cup DOMAIN cache BY PrimedIs
<1>7. ASSUME NEW p \in DOMAIN now
      PROVE  Names(now[p]) \/ (p \in DOMAIN cache /\ now[p] = cache[p])
    <2>1. CASE p \in {d.path : d \in some}
        <3>1. PICK d \in some : d.path = p /\ Primed(some)[p] = d.handle BY <2>1, PrimedIs
        <3> QED BY <1>4, <1>5, <3>1
    <2>2. CASE p \notin {d.path : d \in some}
        <3>1. p \in DOMAIN cache \ {d.path : d \in some} BY <1>4, <1>6, <2>2
        <3>2. Primed(some)[p] = cache[p] BY <3>1, PrimedIs
        <3> QED BY <1>4, <3>1, <3>2
    <2> QED BY <2>1, <2>2
<1>8. ASSUME Prefix(level) \in DOMAIN cache
      PROVE  now[Prefix(level)] = cache[Prefix(level)]
    <2>1. PICK q \in DOMAIN cache \ {d.path : d \in some} : q = Prefix(level) BY <1>5, <1>8
    <2>2. Primed(some)[q] = cache[q] BY <2>1, PrimedIs
    <2> QED BY <1>4, <2>1, <2>2
<1> QED BY <1>4, <1>6, <1>7, <1>8

LEMMA TargetStep == ASSUME PhoneInv, ReadInv, TargetInv, ReadStep PROVE TargetInv'
<1>0. UNCHANGED walkVars
    BY Zenon DEF ReadStep, ReadFailed, Resolve, DescendCached, DescendListed, Operate, Probe, outside
<1>1. root' = root BY <1>0 DEF walkVars, opened
<1>2. ASSUME NEW e, NEW kept, Outcome(e, kept) PROVE TargetInv'
    <2>1. (reader' = "resolve" /\ target' = root) \/ reader' \in {"probe", "failed"}
        BY <1>2, OutcomeLeaves
    <2> QED BY <1>1, <2>1 DEF TargetInv
<1>3. ASSUME NEW kept, TryAgain(3, kept) PROVE TargetInv'
    BY <1>1, <1>3 DEF TryAgain, TargetInv
<1>4. ASSUME NEW e, NEW kept, Answer(e, kept) PROVE TargetInv'
    BY <1>4 DEF Answer, TargetInv
<1>5. CASE ReadFailed BY <1>5 DEF ReadFailed, Rest, TargetInv
<1>6. CASE Resolve
    BY <1>1, <1>6 DEF Resolve, TargetInv, ReadInv, Prefix
<1>7. CASE DescendCached
    <2>1. /\ reader = "descend" /\ Prefix(level + 1) \in DOMAIN cache /\ path' = path
          /\ target' = cache[Prefix(level + 1)] /\ level' = level + 1 /\ cache' = cache
          /\ reader' = IF level + 1 = Len(path) THEN "operate" ELSE "descend"
        BY <1>7 DEF DescendCached
    <2>2. level + 1 = Len(path) => Prefix(level + 1) = path
        BY SubSeqFull DEF ReadInv, Prefix
    <2>3. Prefix(level)' = Prefix(level + 1) BY <2>1 DEF Prefix
    <2>4. CASE level + 1 = Len(path) BY <2>1, <2>2, <2>4 DEF TargetInv
    <2>5. CASE level + 1 # Len(path) BY <2>1, <2>3, <2>5 DEF TargetInv
    <2> QED BY <2>4, <2>5
<1>8. CASE DescendListed
    <2>1. ASSUME NEW listing \in Listings(target), NEW now,
                 now = Primed(ChildrenOf(Prefix(level), listing)),
                 cache' = now, UNCHANGED <<reader, position, failure>>
          PROVE  TargetInv'
        <3>1. reader = "descend" BY <1>8 DEF DescendListed
        <3>2. Prefix(level)' = Prefix(level) BY <2>1 DEF Prefix, position
        <3>3. DOMAIN cache \subseteq DOMAIN now
            BY <2>1, TaughtIs
        <3>4. Prefix(level) \in DOMAIN cache => now[Prefix(level)] = cache[Prefix(level)]
            BY <2>1, TaughtIs
        <3> QED BY <1>1, <2>1, <3>1, <3>2, <3>3, <3>4 DEF TargetInv, position
    <2> QED BY <1>2, <1>8, <2>1 DEF DescendListed
<1>9. CASE Operate
    <2>1. CASE reader' = "opened" BY <2>1 DEF TargetInv
    <2> QED BY <1>2, <1>9, <2>1 DEF Operate
<1>10. CASE Probe BY <1>3, <1>4, <1>10 DEF Probe
<1> QED BY <1>5, <1>6, <1>7, <1>8, <1>9, <1>10 DEF ReadStep

LEMMA KnownStep ==
    ASSUME PhoneInv, ReadInv, TargetInv, KnownInv, ReadStep
    PROVE  KnownInv'
<1>0. UNCHANGED walkVars /\ phone' = phone
    BY Zenon DEF ReadStep, ReadFailed, Resolve, DescendCached, DescendListed, Operate, Probe, outside
<1>1. CASE ReadFailed BY <1>1 DEF ReadFailed, Rest, KnownInv, Trying
<1>2. CASE ~ReadFailed
    <2>1. CallMade /\ since.changes \in Nat /\ since'.changes = since.changes
        <3>1. CallMade \/ ReadFailed
            BY DEF ReadStep, Resolve, DescendCached, DescendListed, Operate, Probe, CallMade
        <3> QED BY <1>2, <3>1, CallKeeps DEF PhoneInv
    <2>2. Trying
        BY <1>2 DEF ReadStep, Resolve, DescendCached, DescendListed, Operate, Probe, Trying
    <2>3. \A h : Names(h) = Names(h)' BY <1>0 DEF Names, phone
    <2>4. CASE Resolve
        <3>1. /\ UNCHANGED <<cache, path, attempt, known>>
              /\ reader' = IF path \in DOMAIN cache THEN "operate" ELSE "descend"
            BY <2>4 DEF Resolve
        <3> QED BY <1>0, <2>1, <2>2, <3>1 DEF KnownInv, Trying, Names, phone
    <2>5. CASE DescendCached
        <3>1. UNCHANGED <<cache, path, attempt, known>> /\ reader = "descend"
            BY <2>5 DEF DescendCached
        <3> QED BY <1>0, <2>1, <2>2, <3>1 DEF KnownInv, Trying, Names, phone
    <2>6. ASSUME NEW e, NEW kept, Outcome(e, kept),
                 path \in DOMAIN kept =>
                    Names(kept[path]) \/ (path \in DOMAIN cache /\ kept[path] = cache[path]),
                 e = "stale" /\ attempt = 1 /\ known = "handle" => since.changes >= 1
          PROVE  KnownInv'
        <3> SUFFICES ASSUME Trying', known' = "handle" PROVE KnownInv' BY DEF KnownInv
        <3>1. known' = known /\ path' = path BY <2>6, OutcomeLeaves
        <3>2. CASE /\ e = "stale" /\ attempt = 1 /\ attempt' = 2 /\ cache' = Forgotten(kept, path)
            <4>1. path \notin DOMAIN cache' BY <3>2, ForgottenIs
            <4>2. since'.changes >= 1 BY <2>1, <2>6, <3>1, <3>2
            <4> QED BY <3>1, <3>2, <4>1, <4>2 DEF KnownInv
        <3>3. CASE e = "stale" /\ attempt = 2 /\ attempt' = 3
            <4>1. since'.changes >= 1 BY <2>1, <2>2, <3>1, <3>3 DEF KnownInv
            <4> QED BY <3>3, <4>1 DEF KnownInv
        <3>4. CASE attempt = 2 /\ attempt' = 2 /\ cache' = kept
            <4>1. since'.changes >= 1 BY <2>1, <2>2, <3>1, <3>4 DEF KnownInv
            <4>2. path \in DOMAIN kept => Names(kept[path]) \/ since.changes >= 2
                BY <2>2, <2>6, <3>1, <3>4 DEF KnownInv
            <4>3. path \in DOMAIN kept => Names(kept[path])' \/ since'.changes >= 2
                BY <1>0, <2>1, <3>1, <4>2 DEF Names, phone
            <4> QED BY <3>1, <3>4, <4>1, <4>3 DEF KnownInv, Names
        <3>5. CASE reader' = "failed" BY <3>5 DEF Trying
        <3> QED BY <2>6, <3>2, <3>3, <3>4, <3>5, OutcomeLeaves
    <2>7. CASE DescendListed
        <3>1. reader = "descend" BY <2>7 DEF DescendListed
        <3>2. known = "handle" => attempt # 1 BY <2>2, <3>1 DEF KnownInv
        <3>3. ASSUME NEW listing \in Listings(target), NEW now,
                     now = Primed(ChildrenOf(Prefix(level), listing)),
                     \/ cache' = now /\ UNCHANGED <<reader, position, failure>>
                     \/ Outcome("vanished", now)
              PROVE  KnownInv'
            <4>1. path \in DOMAIN now =>
                    Names(now[path]) \/ (path \in DOMAIN cache /\ now[path] = cache[path])
                BY <3>3, TaughtIs
            <4>2. CASE Outcome("vanished", now) BY <2>6, <4>1, <4>2
            <4>3. CASE cache' = now /\ UNCHANGED <<reader, position, failure>>
                <5> SUFFICES ASSUME known = "handle" PROVE KnownInv'
                    BY <4>3 DEF KnownInv, position
                <5>1. since'.changes >= 1 /\ attempt' # 1 /\ path' = path /\ attempt' = attempt
                    BY <2>1, <2>2, <3>2, <4>3 DEF KnownInv, position
                <5>2. attempt = 2 /\ path \in DOMAIN now => Names(now[path]) \/ since.changes >= 2
                    BY <2>2, <4>1 DEF KnownInv
                <5>3. attempt = 2 /\ path \in DOMAIN now =>
                        Names(now[path])' \/ since'.changes >= 2
                    BY <1>0, <2>1, <5>1, <5>2 DEF Names, phone
                <5> QED BY <4>3, <5>1, <5>3 DEF KnownInv, Names
            <4> QED BY <3>3, <4>2, <4>3
        <3>4. ASSUME NEW e, Outcome(e, cache) PROVE KnownInv'
            <4>1. PICK c : c = cache OBVIOUS
            <4>2. Outcome(e, c) BY <3>4, <4>1
            <4> QED BY <2>6, <3>2, <4>1, <4>2
        <3> QED BY <2>7, <3>3, <3>4 DEF DescendListed
    <2>8. CASE Operate
        <3>1. reader = "operate" /\ path \in DOMAIN cache /\ target = cache[path]
            BY <2>8 DEF Operate, TargetInv
        <3>2. ~Names(target) /\ attempt = 1 /\ known = "handle" => since.changes >= 1
            BY <2>2, <3>1 DEF KnownInv
        <3>3. ASSUME NEW e, Outcome(e, cache), e = "stale" => ~Names(target) PROVE KnownInv'
            <4>1. PICK c : c = cache OBVIOUS
            <4>2. Outcome(e, c) BY <3>3, <4>1
            <4> QED BY <2>6, <3>2, <3>3, <4>1, <4>2
        <3>4. CASE reader' = "opened" BY <3>4 DEF KnownInv, Trying
        <3>5. \/ reader' = "opened"
              \/ ~Names(target) /\ Outcome("stale", cache)
              \/ Outcome("device", cache)
            BY <2>8 DEF Operate
        <3> QED BY <3>3, <3>4, <3>5
    <2>9. CASE Probe
        <3>1. reader = "probe" BY <2>9 DEF Probe
        <3>2. CASE TryAgain(3, <<>>)
            <4>1. attempt' = 3 /\ known' = known BY <3>2 DEF TryAgain
            <4>2. known = "handle" => since.changes >= 1 BY <2>2, <3>1 DEF KnownInv
            <4> QED BY <2>1, <4>1, <4>2 DEF KnownInv
        <3>3. CASE Answer("vanished", cache) BY <3>3 DEF Answer, KnownInv, Trying
        <3> QED BY <2>9, <3>2, <3>3 DEF Probe
    <2> QED BY <1>2, <2>4, <2>5, <2>7, <2>8, <2>9 DEF ReadStep
<1> QED BY <1>1, <1>2

\* The steps that take more from the cache than the path that is read.
LosesOthers == \E p \in DOMAIN cache \ {path} : p \notin DOMAIN cache'
AboveIsStale ==
    \/ ~Names(root)
    \/ \E n \in 1..(Len(path) - 1) : Prefix(n) \in DOMAIN cache /\ ~Names(cache[Prefix(n)])

LEMMA OutcomeKeeps ==
    ASSUME ReadInv, NEW e, NEW kept, Outcome(e, kept), DOMAIN cache \subseteq DOMAIN kept,
           LosesOthers
    PROVE  e = "stale" /\ attempt = 2
<1>1. ASSUME cache' = Forgotten(kept, path) PROVE FALSE
    <2>1. PICK rest : rest = Forgotten(kept, path) OBVIOUS
    <2>2. DOMAIN rest = DOMAIN kept \ {path} BY <2>1, ForgottenIs
    <2> QED BY <1>1, <2>1, <2>2 DEF LosesOthers
<1>2. CASE cache' = kept BY <1>2 DEF LosesOthers
<1> QED BY <1>1, <1>2, OutcomeLeaves

LEMMA OneLoss ==
    ASSUME PhoneInv, WalkInv, ReadInv, TargetInv, KnownInv, ReadStep, LosesOthers,
           since.changes <= 1, known = "handle"
    PROVE  AboveIsStale
<1>0. since.changes \in Nat BY DEF PhoneInv
<1>1. CASE ReadFailed \/ Resolve \/ DescendCached
    <2>1. cache' = cache BY <1>1 DEF ReadFailed, Rest, Resolve, DescendCached
    <2> QED BY <2>1 DEF LosesOthers
<1>2. CASE DescendListed
    <2>1. reader = "descend" BY <1>2 DEF DescendListed
    <2>2. CASE ~Names(target)
        <3>1. CASE level = 0 /\ target = root BY <2>2, <3>1 DEF AboveIsStale
        <3>2. CASE Prefix(level) \in DOMAIN cache /\ target = cache[Prefix(level)]
            <4>1. path \in Seq(Called) /\ level \in 0..Len(path) /\ level < Len(path)
                BY <2>1 DEF ReadInv
            <4>2. Prefix(level) # <<>> BY <3>2 DEF ReadInv, IsCache
            <4>3. level # 0
                <5>1. level = 0 => Prefix(level) = <<>> BY DEF Prefix
                <5> QED BY <4>2, <5>1
            <4>4. level \in 1..(Len(path) - 1) BY <4>1, <4>3
            <4> QED BY <2>2, <3>2, <4>4 DEF AboveIsStale
        <3> QED BY <2>1, <3>1, <3>2 DEF TargetInv
    <2>3. ASSUME NEW e, ListingFails(target, e), Outcome(e, cache) PROVE ~Names(target)
        <3>1. PICK c : c = cache OBVIOUS
        <3>2. Outcome(e, c) /\ DOMAIN cache \subseteq DOMAIN c BY <2>3, <3>1
        <3>3. e = "stale" BY <3>2, OutcomeKeeps
        <3> QED BY <2>3, <3>3 DEF ListingFails
    <2>4. ASSUME NEW listing \in Listings(target), NEW now,
                 now = Primed(ChildrenOf(Prefix(level), listing)),
                 \/ cache' = now \/ Outcome("vanished", now)
          PROVE  FALSE
        <3>1. DOMAIN cache \subseteq DOMAIN now BY <2>4, TaughtIs
        <3>2. CASE cache' = now BY <3>1, <3>2 DEF LosesOthers
        <3>3. CASE Outcome("vanished", now) BY <3>1, <3>3, OutcomeKeeps
        <3> QED BY <2>4, <3>2, <3>3
    <2> QED BY <1>2, <2>2, <2>3, <2>4 DEF DescendListed
<1>3. CASE Operate
    <2>1. reader = "operate" /\ path \in DOMAIN cache /\ target = cache[path]
        BY <1>3 DEF Operate, TargetInv
    <2>2. ASSUME NEW e, Outcome(e, cache), e = "stale" => ~Names(target) PROVE FALSE
        <3>1. PICK c : c = cache OBVIOUS
        <3>2. Outcome(e, c) /\ DOMAIN cache \subseteq DOMAIN c BY <2>2, <3>1
        <3>3. e = "stale" /\ attempt = 2 BY <3>2, OutcomeKeeps
        <3>4. since.changes >= 2 BY <2>1, <2>2, <3>3 DEF KnownInv, Trying
        <3> QED BY <1>0, <3>4
    <2>3. CASE cache' = cache BY <2>3 DEF LosesOthers
    <2> QED BY <1>3, <2>2, <2>3 DEF Operate
<1>4. CASE Probe
    <2>1. reader = "probe" BY <1>4 DEF Probe
    <2>2. CASE ParentIsStale
        <3>1. Front(path) \in DOMAIN cache /\ ~Names(cache[Front(path)]) BY <2>2 DEF ParentIsStale
        <3>2. path \in Seq(Called) /\ path # <<>> BY <2>1 DEF ReadInv
        <3>3. Len(path) \in Nat /\ Len(path) >= 1 /\ Len(Front(path)) = Len(path) - 1
            BY <3>2, FrontIs
        <3>4. Front(path) = Prefix(Len(path) - 1) BY DEF Front, Prefix
        <3>5. Front(path) \in Seq(Called) /\ Front(path) # <<>> BY <3>1 DEF ReadInv, IsCache
        <3>6. Len(Front(path)) # 0 BY <3>5, EmptySeq
        <3>7. Len(path) - 1 \in 1..(Len(path) - 1) BY <3>3, <3>6
        <3> QED BY <3>1, <3>4, <3>7 DEF AboveIsStale
    <2>3. CASE Answer("vanished", cache) BY <2>3 DEF Answer, LosesOthers
    <2> QED BY <1>4, <2>2, <2>3 DEF Probe
<1> QED BY <1>1, <1>2, <1>3, <1>4 DEF ReadStep

CacheInv == TargetInv /\ KnownInv

LEMMA CacheInit == MtpInit => CacheInv
<1> QED BY DEF MtpInit, ResolverInit, CacheInv, TargetInv, KnownInv, Trying

LEMMA CacheStep == ASSUME TypedInv, CacheInv, [MtpNext]_endpoint PROVE CacheInv'
<1>0. PhoneInv /\ WalkInv /\ ReadInv /\ TargetInv /\ KnownInv BY DEF TypedInv, CacheInv
<1>1. ASSUME reader' \in {"idle", "failed"} PROVE CacheInv'
    BY <1>1 DEF CacheInv, TargetInv, KnownInv, Trying
<1>2. CASE WalkStep /\ UNCHANGED readVars
    <2>1. reader = "idle" BY <1>0, <1>2, WalksAlone
    <2> QED BY <1>1, <1>2, <2>1 DEF readVars
<1>3. CASE WalkDone /\ Prime
    <2>1. scan # "walked" /\ reader' = reader BY <1>3 DEF WalkDone, WalkIsOver, Prime
    <2>2. reader = "idle" BY <1>0, <2>1 DEF ReadInv
    <2> QED BY <1>1, <2>1, <2>2
<1>4. CASE BeginRead
    <2>1. /\ reader' = "resolve" /\ attempt' = 1 /\ target' = root /\ root' = root
          /\ cache' = cache /\ phone' = phone
          /\ known' = IF path' \notin DOMAIN cache THEN "nothing"
                      ELSE IF Names(cache[path']) THEN "handle" ELSE "stale"
        BY <1>4 DEF BeginRead, outside, walkVars, opened
    <2>2. TargetInv' BY <2>1 DEF TargetInv
    <2>3. known' = "handle" => path' \in DOMAIN cache /\ Names(cache[path']) BY <2>1
    <2>4. KnownInv' BY <2>1, <2>3 DEF KnownInv, Names, phone
    <2> QED BY <2>2, <2>4 DEF CacheInv
<1>5. CASE ReadStep BY <1>0, <1>5, TargetStep, KnownStep DEF CacheInv
<1>6. CASE Rest BY <1>1, <1>6 DEF Rest
<1>7. CASE PhoneChanges /\ UNCHANGED <<walkVars, readVars>>
    <2>1. since'.changes = since.changes + 1 /\ since.changes \in Nat
        BY <1>0, <1>7, ChangeTyped DEF PhoneInv
    <2>2. TargetInv' BY <1>0, <1>7 DEF TargetInv, Prefix, walkVars, opened, readVars, position
    <2>3. KnownInv'
        <3>1. UNCHANGED <<cache, reader, path, attempt, known>> BY <1>7 DEF readVars, position
        <3>2. since'.changes >= 1 /\ (since.changes >= 1 => since'.changes >= 2) BY <2>1
        <3>3. attempt \in 1..3 BY <1>0 DEF ReadInv
        <3> QED BY <1>0, <3>1, <3>2, <3>3 DEF KnownInv, Trying
    <2> QED BY <2>2, <2>3 DEF CacheInv
<1>8. CASE UNCHANGED <<phone, since, walkVars, readVars>>
    <2>1. TargetInv' BY <1>0, <1>8 DEF TargetInv, Prefix, walkVars, opened, readVars, position
    <2>2. KnownInv' BY <1>0, <1>8 DEF KnownInv, Trying, Names, phone, readVars, position
    <2> QED BY <2>1, <2>2 DEF CacheInv
<1> QED BY <1>2, <1>3, <1>4, <1>5, <1>6, <1>7, <1>8, StepKinds

\* Whatever a step takes from the cache besides the path that is read, a folder
\* above that path is stale: every other step keeps the rest.
LEMMA CacheLoses ==
    ASSUME TypedInv, CacheInv, [MtpNext]_endpoint, LosesOthers,
           since.changes <= 1, known = "handle"
    PROVE  AboveIsStale
<1>0. PhoneInv /\ WalkInv /\ ReadInv /\ TargetInv /\ KnownInv BY DEF TypedInv, CacheInv
<1>1. CASE cache' = cache BY <1>1 DEF LosesOthers
<1>2. CASE WalkDone /\ Prime
    <2>1. cache' = Primed(entries) BY <1>2 DEF Prime
    <2>2. DOMAIN Primed(entries) = {e.path : e \in entries} \cup DOMAIN cache BY PrimedIs
    <2> QED BY <2>1, <2>2 DEF LosesOthers
<1>3. CASE ReadStep BY <1>0, <1>3, OneLoss
<1>4. CASE BeginRead BY <1>1, <1>4 DEF BeginRead
<1>5. CASE Rest BY <1>1, <1>5 DEF Rest
<1>6. CASE UNCHANGED readVars BY <1>1, <1>6 DEF readVars
<1> QED BY <1>2, <1>3, <1>4, <1>5, <1>6, StepKinds

\* One object that goes does not cost the whole cache: while the phone changed
\* once at most since a read began that knew its file, the handles of other paths
\* are thrown away only if a folder above the file is stale as well.
THEOREM LossIsContained == MtpSpec => OneLossKeepsCache
<1>1. TypedInv /\ CacheInv /\ [MtpNext]_endpoint =>
        [/\ since.changes <= 1 /\ known = "handle"
            /\ (\E p \in DOMAIN cache \ {path} : p \notin DOMAIN cache')
         => \/ ~Names(root)
            \/ \E n \in 1..(Len(path) - 1) :
                Prefix(n) \in DOMAIN cache /\ ~Names(cache[Prefix(n)])]_<<cache, reader, phone>>
    BY CacheLoses DEF LosesOthers, AboveIsStale
<1> QED BY <1>1, CacheInit, CacheStep, AlwaysTyped, PTL DEF MtpSpec, OneLossKeepsCache
-----------------------------------------------------------------------------
(* What there is at a path, and what a listing shows of it.                *)

LEMMA LeastOf ==
    ASSUME NEW S \in SUBSET Nat, S # {}
    PROVE  \E n \in S : \A m \in S : n <= m
<1>1. PICK n \in S : \A m \in S : <<m, n>> \notin OpToRel(<, Nat)
    BY NatLessThanWellFounded, WFMin
<1>2. \A m \in S : ~(m < n)
    BY <1>1 DEF OpToRel
<1> QED BY <1>2

\* Two ways along the same names are one way, as far as one of them goes on: a
\* folder stands out among what lies beside it.
LEMMA OneWay ==
    ASSUME FoldersStandOut, NEW p \in Seq(STRING), NEW q \in Seq(STRING), Len(q) < Len(p),
           \A i \in 1..Len(q) : q[i] = p[i],
           NEW v \in [DOMAIN q -> Objects], LeadsDown(v, q),
           NEW w \in [DOMAIN p -> Objects], LeadsDown(w, p)
    PROVE  \A i \in 1..Len(q) : v[i] = w[i]
<1> DEFINE S == {i \in 1..Len(q) : v[i] # w[i]}
<1> SUFFICES ASSUME S # {} PROVE FALSE OBVIOUS
<1>0. /\ Len(p) \in Nat /\ Len(q) \in Nat
      /\ DOMAIN p = 1..Len(p) /\ DOMAIN q = 1..Len(q)
    OBVIOUS
<1>1. PICK i \in S : \A m \in S : i <= m
    <2>1. S \in SUBSET Nat OBVIOUS
    <2> HIDE DEF S
    <2> QED BY <2>1, LeastOf
<1>2. /\ i \in 1..Len(q) /\ v[i] # w[i] /\ i \in 1..Len(p) /\ i + 1 \in 1..Len(p) /\ i + 1 # 1
      /\ v[i] \in Objects /\ w[i] \in Objects
    BY <1>0
<1> DEFINE above(way) == IF i = 1 THEN Storage ELSE way[i - 1]
<1>3. above(v) = above(w)
    <2>1. CASE i = 1 BY <2>1
    <2>2. CASE i # 1
        <3>1. i - 1 \in 1..Len(q) /\ ~(i <= i - 1) BY <1>0, <1>2, <2>2
        <3>2. i - 1 \notin S BY <1>1, <3>1
        <3>3. v[i - 1] = w[i - 1] BY <3>1, <3>2
        <3> QED BY <2>2, <3>3
    <2> QED BY <2>1, <2>2
<1>4. Name[v[i]] = q[i] /\ above(v) \in Under[v[i]] BY <1>0, <1>2 DEF LeadsDown
<1>5. Name[w[i]] = p[i] /\ above(w) \in Under[w[i]] BY <1>0, <1>2 DEF LeadsDown
<1>6. w[i] \in Folders
    <2>1. PICK n : n = i + 1 OBVIOUS
    <2>2. n \in DOMAIN p /\ n # 1 /\ n - 1 = i BY <1>0, <1>2, <2>1
    <2>3. w[n - 1] \in Under[w[n]] BY <2>2 DEF LeadsDown
    <2>4. w[i] \in Under[w[n]] /\ w[n] \in Objects BY <2>2, <2>3
    <2>5. Under[w[n]] \subseteq Folders \cup {Storage} /\ Storage \notin Objects
        BY <2>4, PhoneAssumption
    <2> QED BY <1>2, <2>4, <2>5
<1>7. Name[w[i]] = Name[v[i]] BY <1>2, <1>4, <1>5
<1> HIDE DEF above
<1>8. Under[w[i]] \cap Under[v[i]] = {} BY <1>2, <1>6, <1>7 DEF FoldersStandOut
<1> QED BY <1>3, <1>4, <1>5, <1>8

\* What lies at the beginning of a path that names something holds the next step
\* of a way down it.
LEMMA NextIsThere ==
    ASSUME FoldersStandOut, PhoneInv, NEW p \in Seq(STRING), NEW q \in Seq(STRING),
           Len(q) < Len(p), \A i \in 1..Len(q) : q[i] = p[i],
           NEW x \in AtPath(q), Present(p)
    PROVE  \E o \in alive : x \in Under[o] /\ Name[o] = p[Len(q) + 1]
<1>0. Len(p) \in Nat /\ Len(q) \in Nat /\ DOMAIN p = 1..Len(p) /\ DOMAIN q = 1..Len(q) OBVIOUS
<1>1. p # <<>> BY <1>0
<1>2. PICK w \in [DOMAIN p -> alive] : LeadsDown(w, p)
    BY <1>1 DEF Present, AtPathThrough
<1>3. w \in [DOMAIN p -> Objects] BY <1>2 DEF PhoneInv
<1>4. PICK n : n = Len(q) + 1 OBVIOUS
<1>5. n \in DOMAIN p /\ n \in Nat BY <1>0, <1>4
<1>6. /\ Name[w[n]] = p[n] /\ w[n] \in alive
      /\ (IF n = 1 THEN Storage ELSE w[n - 1]) \in Under[w[n]]
    BY <1>2, <1>5 DEF LeadsDown
<1>7. x \in Under[w[n]]
    <2>1. CASE q = <<>>
        <3>1. x = Storage BY <2>1 DEF AtPath, AtPathThrough
        <3>2. n = 1 BY <1>4, <2>1
        <3> QED BY <1>6, <3>1, <3>2
    <2>2. CASE q # <<>>
        <3>1. PICK v \in [DOMAIN q -> Objects] : LeadsDown(v, q) /\ x = v[Len(q)]
            BY <2>2 DEF AtPath, AtPathThrough
        <3>2. Len(q) \in 1..Len(q) BY <1>0, <2>2
        <3>3. \A i \in 1..Len(q) : v[i] = w[i] BY <1>2, <1>3, <3>1, OneWay
        <3>4. n # 1 /\ n - 1 = Len(q) BY <1>0, <1>4, <3>2
        <3>5. x = w[n - 1] BY <3>1, <3>2, <3>3, <3>4
        <3> QED BY <1>6, <3>4, <3>5
    <2> QED BY <2>1, <2>2
<1> QED BY <1>4, <1>6, <1>7

\* A folder that is listed in full has a child of every name there is in it, but
\* for those that are reserved.
LEMMA NameIsListed ==
    ASSUME PhoneInv, NEW h, Names(h), NEW listing \in Listings(h), listing.refused = {},
           NEW o \in Children(h), Name[o] \notin Reserved
    PROVE  \E i \in NamedIn(listing.listed) : Name[listing.listed[i]] = Name[o]
<1> DEFINE listed == listing.listed
           D == {i \in DOMAIN listed : Name[listed[i]] = Name[o]}
<1>1. /\ DOMAIN listed = 1..Len(listed) /\ Len(listed) \in Nat
      /\ \E i \in DOMAIN listed : listed[i] = o
    <2>1. o \in Children(h) \ listing.refused OBVIOUS
    <2> QED BY <2>1, ListingIs
<1>2. D \in SUBSET Nat /\ D # {} BY <1>1
<1>3. PICK i \in D : \A m \in D : i <= m
    <2> HIDE DEF D
    <2> QED BY <1>2, LeastOf
<1>4. i \in DOMAIN listed /\ Name[listed[i]] = Name[o] OBVIOUS
<1>5. ~IsRepeated(listed, i)
    <2> SUFFICES ASSUME NEW j \in 1..(i - 1), Name[listed[j]] = Name[listed[i]] PROVE FALSE
        BY DEF IsRepeated
    <2>1. j \in DOMAIN listed /\ ~(i <= j) BY <1>1, <1>4
    <2> QED BY <1>3, <1>4, <2>1
<1> QED BY <1>4, <1>5 DEF NamedIn, NamesChild

\* What a full listing of a good folder does not teach is not there.
LEMMA Missing ==
    ASSUME FoldersStandOut, PhoneInv, WalkInv, ReadInv, level < Len(path),
           Lies(target, Prefix(level)), Names(target), path[level + 1] \notin Reserved,
           NEW listing \in Listings(target), listing.refused = {},
           Prefix(level + 1) \notin DOMAIN Primed(ChildrenOf(Prefix(level), listing))
    PROVE  ~Present(Base \o path)
<1> SUFFICES ASSUME Present(Base \o path) PROVE FALSE OBVIOUS
<1>1. PICK base \in Seq(STRING) : base = Base BY BaseTyped
<1>2. /\ path \in Seq(Called) /\ level \in 0..Len(path) /\ level + 1 \in 0..Len(path)
      /\ level \in Nat /\ Len(path) \in Nat /\ level + 1 \in 1..Len(path)
    BY DEF ReadInv
<1>3. PICK front \in Seq(Called) :
        front = Prefix(level) /\ Len(front) = level /\ \A i \in 1..level : front[i] = path[i]
    BY <1>2, PrefixIs
<1>4. path \in Seq(STRING) /\ front \in Seq(STRING) BY <1>2, <1>3, NamesAreStrings
<1>5. PICK p \in Seq(STRING) : p = base \o path BY <1>4, ConcatProperties
<1>6. PICK q \in Seq(STRING) : q = base \o front BY <1>4, ConcatProperties
<1>7. /\ Len(base) \in Nat /\ Len(p) = Len(base) + Len(path) /\ Len(q) = Len(base) + level
      /\ \A i \in 1..Len(q) : q[i] = p[i]
      /\ p[Len(q) + 1] = path[level + 1]
    <2>1. Len(base) \in Nat /\ Len(p) = Len(base) + Len(path) /\ Len(q) = Len(base) + level
        BY <1>3, <1>4, <1>5, <1>6, ConcatProperties
    <2>2. \A i \in 1..(Len(base) + Len(path)) :
            p[i] = IF i <= Len(base) THEN base[i] ELSE path[i - Len(base)]
        BY <1>4, <1>5, ConcatProperties
    <2>3. \A i \in 1..(Len(base) + level) :
            q[i] = IF i <= Len(base) THEN base[i] ELSE front[i - Len(base)]
        BY <1>3, <1>4, <1>6, ConcatProperties
    <2>4. ASSUME NEW i \in 1..Len(q) PROVE q[i] = p[i]
        <3>1. i \in 1..(Len(base) + level) /\ i \in 1..(Len(base) + Len(path)) BY <1>2, <2>1
        <3>2. CASE i <= Len(base) BY <2>2, <2>3, <3>1, <3>2
        <3>3. CASE ~(i <= Len(base))
            <4>1. i - Len(base) \in 1..level BY <1>2, <2>1, <3>1, <3>3
            <4> QED BY <1>3, <2>2, <2>3, <3>1, <3>3, <4>1
        <3> QED BY <3>2, <3>3
    <2>5. p[Len(q) + 1] = path[level + 1]
        <3>1. PICK n : n = Len(q) + 1 OBVIOUS
        <3>2. n \in 1..(Len(base) + Len(path)) /\ ~(n <= Len(base)) /\ n - Len(base) = level + 1
            BY <1>2, <2>1, <3>1
        <3>3. p[n] = path[n - Len(base)] BY <2>2, <3>2
        <3> QED BY <3>1, <3>2, <3>3
    <2> QED BY <2>1, <2>4, <2>5
<1>8. Len(q) < Len(p) BY <1>2, <1>7
<1>9. target.object \in AtPath(q) /\ Present(p) BY <1>1, <1>3, <1>5, <1>6 DEF Lies
<1>10. PICK o \in alive : target.object \in Under[o] /\ Name[o] = path[level + 1]
    <2>1. \E o \in alive : target.object \in Under[o] /\ Name[o] = p[Len(q) + 1]
        BY <1>7, <1>8, <1>9, NextIsThere
    <2> QED BY <1>7, <2>1
<1>11. o \in Children(target) BY <1>10 DEF Children
<1>12. PICK i \in NamedIn(listing.listed) : Name[listing.listed[i]] = path[level + 1]
    BY <1>10, <1>11, NameIsListed
<1>13. Child(front, listing.listed[i]).path = Append(front, path[level + 1])
    BY <1>12 DEF Child
<1>14. Append(front, path[level + 1]) = Prefix(level + 1)
    <2>1. Prefix(level + 1) \in Seq(Called) /\ Len(Prefix(level + 1)) = level + 1
            /\ \A k \in 1..(level + 1) : Prefix(level + 1)[k] = path[k]
        BY <1>2, PrefixIs
    <2>2. path[level + 1] \in Called BY <1>2
    <2> DEFINE a == Append(front, path[level + 1])
    <2>3. a \in Seq(Called) /\ Len(a) = level + 1 BY <1>3, <2>2, AppendIs
    <2>4. \A k \in 1..(level + 1) : a[k] = path[k] BY <1>2, <1>3, <2>2
    <2> HIDE DEF a
    <2>5. \A k \in 1..Len(a) : a[k] = Prefix(level + 1)[k] BY <2>1, <2>3, <2>4
    <2>6. a = Prefix(level + 1) BY <2>1, <2>3, <2>5, SeqEqual
    <2> QED BY <2>6 DEF a
<1>15. PICK some : some = ChildrenOf(Prefix(level), listing) OBVIOUS
<1>16. Child(front, listing.listed[i]) \in some BY <1>3, <1>15 DEF ChildrenOf
<1>17. Prefix(level + 1) \in {e.path : e \in some} BY <1>13, <1>14, <1>16
<1>18. DOMAIN Primed(some) = {e.path : e \in some} \cup DOMAIN cache BY PrimedIs
<1> QED BY <1>15, <1>17, <1>18
-----------------------------------------------------------------------------
(* No path that the walk finds has the name of a transfer in progress.     *)

Plain(p) == \A i \in 1..Len(p) : p[i] \notin Reserved

PlainInv ==
    /\ rootPath \in RootPaths
    /\ \A e \in entries : Plain(e.path)
    /\ scan = "walk" => \A n \in 1..Len(pending) : Plain(pending[n].path)
    /\ \A p \in snapshot : Plain(p)

LEMMA PlainChild ==
    ASSUME NEW p \in Seq(Called), Plain(p), NEW n \in Called, n \notin Reserved
    PROVE  Plain(Append(p, n))
<1> SUFFICES ASSUME NEW i \in 1..Len(Append(p, n)) PROVE Append(p, n)[i] \notin Reserved
    BY DEF Plain
<1>1. Len(p) \in Nat /\ Len(Append(p, n)) = Len(p) + 1 OBVIOUS
<1>2. CASE i = Len(p) + 1 BY <1>1, <1>2
<1>3. CASE i # Len(p) + 1
    <2>1. i \in 1..Len(p) /\ Append(p, n)[i] = p[i] BY <1>1, <1>3
    <2> QED BY <2>1 DEF Plain
<1> QED BY <1>2, <1>3

LEMMA PlainListed ==
    ASSUME PhoneInv, WalkInv, PlainInv, scan = "walk", pending # <<>>, opened' = opened,
           snapshot' = snapshot, Last(pending) \in PendingType,
           NEW listing, NEW new, Listed(listing, new)
    PROVE  PlainInv'
<1> DEFINE h == Last(pending).handle
           p == Last(pending).path
           listed == listing.listed
           L == Len(pending)
<1>1. /\ listing \in Listings(h) /\ p \in Seq(Called)
      /\ entries' = entries \cup {Child(p, listed[i]) : i \in Fresh(listed)}
      /\ new \in Seq(PendingType) /\ pending' = Front(pending) \o new
      /\ \A n \in 1..Len(new) : \E i \in Beneath(listed) : new[n] = ToList(p, listed[i])
    BY DEF Listed, PendingType
<1>2. pending \in Seq(PendingType) BY DEF WalkInv, FoundInv
<1>3. /\ \A n \in 1..(L - 1) : n \in 1..L /\ pending'[n] = pending[n]
      /\ \A m \in 1..Len(new) : pending'[L - 1 + m] = new[m]
      /\ \A n \in 1..Len(pending') : n \in 1..(L - 1) \/ \E m \in 1..Len(new) : n = L - 1 + m
    <2>1. PICK q : q = Front(pending) \o new OBVIOUS
    <2>2. InPlaceOfLast(pending, new, q) BY <1>1, <1>2, <2>1, Replaced
    <2> QED BY <1>1, <2>1, <2>2 DEF InPlaceOfLast
<1>4. L \in 1..L /\ pending[L] = Last(pending) BY <1>2 DEF Last
<1>5. Plain(p) BY <1>4 DEF PlainInv
<1>6. ASSUME NEW i \in Fresh(listed)
      PROVE  Child(p, listed[i]).path = Append(p, Name[listed[i]]) /\ Plain(Append(p, Name[listed[i]]))
    <2>1. /\ i \in NamedIn(listed) /\ Name[listed[i]] \in Called
          /\ Child(p, listed[i]).path = Append(p, Name[listed[i]])
        BY <1>1, FreshAre
    <2>2. Name[listed[i]] \notin Reserved BY <2>1 DEF NamedIn, NamesChild
    <2> QED BY <1>1, <1>5, <2>1, <2>2, PlainChild
<1> HIDE DEF p, h, listed
<1>7. \A e \in entries' : Plain(e.path) BY <1>1, <1>6 DEF PlainInv
<1>8. ASSUME NEW n \in 1..Len(pending') PROVE Plain(pending'[n].path)
    <2>1. CASE n \in 1..(L - 1) BY <1>3, <2>1 DEF PlainInv
    <2>2. ASSUME NEW m \in 1..Len(new), n = L - 1 + m PROVE Plain(pending'[n].path)
        <3>1. PICK i \in Beneath(listed) : new[m] = ToList(p, listed[i]) BY <1>1
        <3>2. i \in Fresh(listed) BY DEF Beneath
        <3>3. pending'[n] = new[m] BY <1>3, <2>2
        <3>4. new[m].path = Append(p, Name[listed[i]]) BY <3>1 DEF ToList
        <3> QED BY <1>6, <3>2, <3>3, <3>4
    <2> QED BY <1>3, <2>1, <2>2
<1> QED BY <1>7, <1>8 DEF PlainInv, opened

LEMMA PlainPick ==
    ASSUME PlainRoots, WalkInv, PlainInv, file # {}, NEW h, PickedAs(h)
    PROVE  PlainInv'
<1>1. /\ scan' = "picked" /\ opened' = opened /\ snapshot' = snapshot
      /\ entries' = {[path |-> <<Last(rootPath)>>, handle |-> h, folder |-> FALSE]}
    BY DEF PickedAs
<1>2. Last(rootPath) \notin Reserved
    BY DEF PlainRoots, PlainInv, WalkInv, OpenedInv
<1>3. Plain(<<Last(rootPath)>>)
    <2>1. PICK name : name = Last(rootPath) OBVIOUS
    <2>2. \A i \in 1..Len(<<name>>) : <<name>>[i] = name OBVIOUS
    <2> QED BY <1>2, <2>1, <2>2 DEF Plain
<1>4. \A e \in entries' : e.path = <<Last(rootPath)>> BY <1>1
<1> QED BY <1>1, <1>3, <1>4 DEF PlainInv, opened

LEMMA PlainWalk == ASSUME PlainRoots, PhoneInv, WalkInv, PlainInv, WalkStep PROVE PlainInv'
<1>1. ASSUME UNCHANGED <<rootPath, entries, snapshot>>, scan' # "walk" PROVE PlainInv'
    BY <1>1 DEF PlainInv
<1>2. CASE LocateSegment \/ Located
    <2>1. UNCHANGED <<rootPath, entries, snapshot>> /\ scan' # "walk"
        BY <1>2 DEF LocateSegment, Located, FailScan, opened, walked
    <2> QED BY <1>1, <2>1
<1>3. CASE BeginScan
    <2>1. /\ UNCHANGED <<rootPath, entries, snapshot>>
          /\ pending' = <<[path |-> <<>>, handle |-> root]>>
        BY <1>3 DEF BeginScan, opened
    <2>2. Len(pending') = 1 /\ pending'[1].path = <<>> BY <2>1
    <2>3. \A n \in 1..Len(pending') : n = 1 BY <2>2
    <2>4. Plain(<<>>) BY DEF Plain
    <2> QED BY <2>1, <2>2, <2>3, <2>4 DEF PlainInv
<1>4. CASE WalkFolder
    <2>1. /\ scan = "walk" /\ pending # <<>> /\ Last(pending) \in PendingType
          /\ opened' = opened
        BY <1>4, FolderIs, Zenon
    <2>2. snapshot' = snapshot BY <1>4, Zenon DEF WalkFolder, FailScan, walked, Record
    <2>3. CASE scan' = "failed" /\ entries' = entries BY <1>1, <2>1, <2>2, <2>3 DEF opened
    <2>4. ASSUME NEW listing, NEW new, Listed(listing, new) PROVE PlainInv'
        BY <2>1, <2>2, <2>4, PlainListed
    <2> QED BY <1>4, <2>3, <2>4, FolderIs
<1>5. CASE Revalidate \/ FindFile
    <2>1. scan \in {"pick", "find"} /\ file # {}
        BY <1>5 DEF Revalidate, FindFile, WalkInv, ScanInv
    <2>2. \/ UNCHANGED <<rootPath, entries, snapshot>> /\ scan' # "walk"
          \/ \E h : PickedAs(h)
        BY <1>5 DEF Revalidate, FindFile, FailScan, walked, opened
    <2> QED BY <1>1, <2>1, <2>2, PlainPick
<1> QED BY <1>2, <1>3, <1>4, <1>5 DEF WalkStep

LEMMA PlainStep == ASSUME PlainRoots, TypedInv, PlainInv, [MtpNext]_endpoint PROVE PlainInv'
<1>1. CASE WalkStep BY <1>1, PlainWalk DEF TypedInv
<1>2. CASE WalkDone
    <2>1. /\ rootPath' = rootPath /\ entries' = {} /\ scan' = "walked"
          /\ snapshot' = {e.path : e \in {d \in entries : ~d.folder}}
        BY <1>2 DEF WalkDone, opened
    <2>2. \A p \in snapshot' : Plain(p) BY <2>1 DEF PlainInv
    <2> QED BY <2>1, <2>2 DEF PlainInv
<1>3. CASE UNCHANGED walkVars BY <1>3 DEF walkVars, walked, opened, PlainInv
<1>4. ASSUME BeginRead \/ ReadStep PROVE UNCHANGED walkVars
    BY <1>4, Zenon
    DEF BeginRead, ReadStep, ReadFailed, Resolve, DescendCached, DescendListed, Operate, Probe,
        outside
<1> QED BY <1>1, <1>2, <1>3, <1>4, StepKinds
-----------------------------------------------------------------------------
(* What lies above a file.  No file lies beneath another, and while one is *)
(* cached, so are the folders it lies in.                                  *)

AboveInv ==
    /\ reader # "idle" => path \in snapshot
    /\ \A p \in snapshot : \A n \in 1..(Len(p) - 1) : SubSeq(p, 1, n) \notin snapshot
    /\ \A p \in snapshot \cap DOMAIN cache :
        \A n \in 1..(Len(p) - 1) : SubSeq(p, 1, n) \in DOMAIN cache
    /\ reader = "descend" => \A n \in 1..level : Prefix(n) \in DOMAIN cache

LEMMA Shorter ==
    ASSUME NEW S, NEW p \in Seq(S), NEW m \in Nat, m + 1 \in 0..Len(p)
    PROVE  SubSeq(SubSeq(p, 1, m + 1), 1, m) = SubSeq(p, 1, m)
<1>1. PICK q \in Seq(S) : /\ q = SubSeq(p, 1, m + 1) /\ Len(q) = m + 1
                         /\ \A k \in 1..(m + 1) : q[k] = p[k]
    BY UpTo
<1>2. m \in 0..Len(q) /\ m \in 0..Len(p) BY <1>1
<1>3. /\ SubSeq(q, 1, m) \in Seq(S) /\ Len(SubSeq(q, 1, m)) = m
      /\ \A k \in 1..m : SubSeq(q, 1, m)[k] = q[k]
    BY <1>1, <1>2, UpTo
<1>4. /\ SubSeq(p, 1, m) \in Seq(S) /\ Len(SubSeq(p, 1, m)) = m
      /\ \A k \in 1..m : SubSeq(p, 1, m)[k] = p[k]
    BY <1>2, UpTo
<1>5. \A k \in 1..m : SubSeq(q, 1, m)[k] = SubSeq(p, 1, m)[k] BY <1>1, <1>3, <1>4
<1>6. SubSeq(q, 1, m) = SubSeq(p, 1, m) BY <1>3, <1>4, <1>5, SeqEqual
<1> QED BY <1>1, <1>6

\* Whatever lies deeper comes with every folder above it.
LEMMA FoldersAbove ==
    ASSUME WalkInv, FindsATree, NEW e \in entries, NEW n \in 1..(Len(e.path) - 1)
    PROVE  \E f \in entries : f.folder /\ f.path = SubSeq(e.path, 1, n)
<1>1. PICK p \in Seq(Called) \ {<<>>} : p = e.path BY DEF WalkInv, FoundInv, EntryType
<1> DEFINE There(k) == \E f \in entries : f.folder /\ f.path = SubSeq(p, 1, Len(p) - k)
           S == {k \in 1..(Len(p) - 1) : ~There(k)}
<1>2. Len(p) \in Nat /\ n \in 1..(Len(p) - 1) BY <1>1
<1>3. S = {}
    <2> SUFFICES ASSUME S # {} PROVE FALSE OBVIOUS
    <2>1. PICK k \in S : \A m \in S : k <= m
        <3>1. S \in SUBSET Nat BY <1>2
        <3> HIDE DEF S
        <3> QED BY <3>1, LeastOf
    <2>2. k \in 1..(Len(p) - 1) /\ ~There(k) OBVIOUS
    <2> HIDE DEF There
    <2>3. CASE k = 1
        <3>1. Len(e.path) > 1 BY <1>1, <1>2
        <3>2. PICK f \in entries : f.folder /\ f.path = Front(e.path) BY <3>1 DEF FindsATree
        <3>3. f.path = SubSeq(p, 1, Len(p) - k) BY <1>1, <2>3, <3>2 DEF Front
        <3> QED BY <2>2, <3>2, <3>3 DEF There
    <2>4. CASE k # 1
        <3>1. k - 1 \in 1..(Len(p) - 1) /\ ~(k <= k - 1) BY <1>2, <2>2, <2>4
        <3>2. There(k - 1) BY <2>1, <3>1
        <3>3. PICK f \in entries : f.folder /\ f.path = SubSeq(p, 1, Len(p) - (k - 1))
            BY <3>2 DEF There
        <3>4. PICK m : m = Len(p) - k OBVIOUS
        <3>5. m \in Nat /\ m >= 1 /\ m + 1 \in 0..Len(p) /\ Len(p) - (k - 1) = m + 1
            BY <1>2, <2>2, <2>4, <3>4
        <3>6. Len(f.path) = m + 1 /\ f.path = SubSeq(p, 1, m + 1) BY <3>3, <3>5, UpTo
        <3>7. Len(f.path) > 1 BY <3>5, <3>6
        <3>8. PICK g \in entries : g.folder /\ g.path = Front(f.path) BY <3>7 DEF FindsATree
        <3>9. Front(f.path) = SubSeq(SubSeq(p, 1, m + 1), 1, m) BY <3>5, <3>6 DEF Front
        <3>10. SubSeq(SubSeq(p, 1, m + 1), 1, m) = SubSeq(p, 1, m) BY <3>5, Shorter
        <3>11. g.path = SubSeq(p, 1, Len(p) - k) BY <3>4, <3>8, <3>9, <3>10
        <3> QED BY <2>2, <3>8, <3>11 DEF There
    <2> QED BY <2>3, <2>4
<1>4. Len(p) - n \in 1..(Len(p) - 1) /\ Len(p) - (Len(p) - n) = n BY <1>2
<1>5. There(Len(p) - n) BY <1>3, <1>4
<1> QED BY <1>1, <1>4, <1>5

\* What the walk hands over: the files lie beside each other, and the folders
\* above them are entries.
LEMMA FilesAreLeaves ==
    ASSUME WalkInv, FindsATree, NEW e \in entries, NEW n \in 1..(Len(e.path) - 1)
    PROVE  /\ SubSeq(e.path, 1, n) \in {f.path : f \in entries}
           /\ SubSeq(e.path, 1, n) \notin {f.path : f \in {d \in entries : ~d.folder}}
<1>1. PICK f \in entries : f.folder /\ f.path = SubSeq(e.path, 1, n) BY FoldersAbove
<1>2. ASSUME NEW d \in entries, ~d.folder, d.path = SubSeq(e.path, 1, n) PROVE FALSE
    <2>1. d = f BY <1>1, <1>2 DEF FindsATree
    <2> QED BY <1>1, <1>2, <2>1
<1> QED BY <1>1, <1>2

\* A sibling that a listing teaches lies in the same folders.
LEMMA TaughtAbove ==
    ASSUME PhoneInv, ReadInv, AboveInv, reader = "descend", NEW listing \in Listings(target),
           NEW now, now = Primed(ChildrenOf(Prefix(level), listing)),
           NEW p \in snapshot \cap DOMAIN now, NEW n \in 1..(Len(p) - 1)
    PROVE  SubSeq(p, 1, n) \in DOMAIN now
<1>1. PICK some : some = ChildrenOf(Prefix(level), listing) OBVIOUS
<1>2. now = Primed(some) /\ DOMAIN now = {e.path : e \in some} \cup DOMAIN cache
    BY <1>1, PrimedIs
<1>3. CASE p \in DOMAIN cache BY <1>2, <1>3 DEF AboveInv
<1>4. CASE p \in {e.path : e \in some}
    <2>1. PICK i \in NamedIn(listing.listed) : p = Child(Prefix(level), listing.listed[i]).path
        BY <1>1, <1>4 DEF ChildrenOf
    <2>2. level \in 0..Len(path) /\ level \in Nat /\ Len(path) \in Nat BY DEF ReadInv
    <2>3. PICK front \in Seq(Called) :
            front = Prefix(level) /\ Len(front) = level /\ \A j \in 1..level : front[j] = path[j]
        BY <2>2, PrefixIs
    <2>4. PICK o \in Children(target) : o = listing.listed[i] BY ListingIs DEF NamedIn
    <2>5. p = Append(front, Name[o]) /\ Name[o] \in Called
        BY <2>1, <2>3, <2>4, ChildIs
    <2>6. Len(p) = level + 1 BY <2>3, <2>5, AppendIs
    <2>7. n \in 1..level BY <2>2, <2>6
    <2>8. SubSeq(p, 1, n) = Prefix(n)
        <3>1. p \in Seq(Called) /\ n \in 0..Len(p) BY <2>5, <2>6, <2>7
        <3>2. /\ SubSeq(p, 1, n) \in Seq(Called) /\ Len(SubSeq(p, 1, n)) = n
              /\ \A k \in 1..n : SubSeq(p, 1, n)[k] = p[k]
            BY <3>1, UpTo
        <3>3. Prefix(n) \in Seq(Called) /\ Len(Prefix(n)) = n /\ \A k \in 1..n : Prefix(n)[k] = path[k]
            BY <2>2, <2>7, PrefixIs
        <3>4. ASSUME NEW k \in 1..n PROVE p[k] = path[k]
            <4>1. k \in 1..level BY <2>2, <2>7
            <4>2. p[k] = front[k] BY <2>3, <2>5, <4>1
            <4> QED BY <2>3, <4>1, <4>2
        <3>5. \A k \in 1..Len(SubSeq(p, 1, n)) : SubSeq(p, 1, n)[k] = Prefix(n)[k]
            BY <3>2, <3>3, <3>4
        <3>6. Len(SubSeq(p, 1, n)) = Len(Prefix(n)) BY <3>2, <3>3
        <3> QED BY <3>2, <3>3, <3>5, <3>6, SeqEqual
    <2>9. Prefix(n) \in DOMAIN cache BY <2>7 DEF AboveInv
    <2> QED BY <1>2, <2>8, <2>9
<1> QED BY <1>2, <1>3, <1>4

\* What is kept of each file's folders is kept of all of them.
Rooted(kept) ==
    \A p \in snapshot \cap DOMAIN kept :
        \A n \in 1..(Len(p) - 1) : SubSeq(p, 1, n) \in DOMAIN kept

LEMMA OutcomeAbove ==
    ASSUME ReadInv, AboveInv, reader # "idle", snapshot' = snapshot, NEW kept, Rooted(kept),
           NEW e, Outcome(e, kept)
    PROVE  AboveInv'
<1>1. path' = path /\ reader' \notin {"idle", "descend"} BY OutcomeLeaves
<1>2. ASSUME Rooted(cache') PROVE AboveInv'
    BY <1>1, <1>2 DEF AboveInv, Rooted
<1>3. CASE cache' = Forgotten(kept, path)
    <2>1. PICK rest : rest = Forgotten(kept, path) OBVIOUS
    <2>2. DOMAIN rest = DOMAIN kept \ {path} BY <2>1, ForgottenIs
    <2>3. ASSUME NEW p \in snapshot \cap DOMAIN rest, NEW n \in 1..(Len(p) - 1)
          PROVE  SubSeq(p, 1, n) \in DOMAIN rest
        <3>1. SubSeq(p, 1, n) \in DOMAIN kept BY <2>2 DEF Rooted
        <3>2. SubSeq(p, 1, n) \notin snapshot /\ path \in snapshot BY DEF AboveInv
        <3> QED BY <2>2, <3>1, <3>2
    <2>4. Rooted(rest) BY <2>3 DEF Rooted
    <2> QED BY <1>2, <1>3, <2>1, <2>4
<1>4. CASE cache' = <<>>
    <2>1. DOMAIN <<>> = {} OBVIOUS
    <2>2. Rooted(<<>>) BY <2>1 DEF Rooted
    <2> QED BY <1>2, <1>4, <2>2
<1>5. CASE cache' = kept BY <1>2, <1>5
<1> QED BY <1>3, <1>4, <1>5, OutcomeLeaves

LEMMA ReadAbove == ASSUME PhoneInv, ReadInv, AboveInv, ReadStep PROVE AboveInv'
<1>0. UNCHANGED walkVars
    BY Zenon DEF ReadStep, ReadFailed, Resolve, DescendCached, DescendListed, Operate, Probe, outside
<1>1. snapshot' = snapshot BY <1>0 DEF walkVars, walked
<1>2. Rooted(cache) BY DEF AboveInv, Rooted
<1>3. ASSUME NEW e, Outcome(e, cache), reader # "idle" PROVE AboveInv'
    <2>1. PICK c : c = cache OBVIOUS
    <2>2. Outcome(e, c) /\ Rooted(c) BY <1>2, <1>3, <2>1
    <2> QED BY <1>1, <1>3, <2>2, OutcomeAbove
<1>4. ASSUME cache' = cache, path' = path, reader # "idle", reader' # "descend" PROVE AboveInv'
    BY <1>1, <1>4 DEF AboveInv
<1>5. CASE ReadFailed
    <2>1. cache' = cache /\ reader' = "idle" BY <1>5 DEF ReadFailed, Rest
    <2> QED BY <1>1, <2>1 DEF AboveInv
<1>6. CASE Resolve
    <2>1. /\ reader = "resolve" /\ cache' = cache /\ path' = path
          /\ \/ reader' = "operate"
             \/ reader' = "descend" /\ level' = level
        BY <1>6 DEF Resolve
    <2>2. level = 0 BY <2>1 DEF ReadInv
    <2>3. ASSUME reader' = "descend", level' = level PROVE AboveInv'
        <3>1. \A n \in 1..level' : FALSE BY <2>2, <2>3
        <3> QED BY <1>1, <2>1, <3>1 DEF AboveInv
    <2> QED BY <1>4, <2>1, <2>3
<1>7. CASE DescendCached
    <2>1. /\ reader = "descend" /\ Prefix(level + 1) \in DOMAIN cache /\ path' = path
          /\ level' = level + 1 /\ cache' = cache /\ reader' # "idle"
        BY <1>7 DEF DescendCached
    <2>2. level \in Nat BY DEF ReadInv
    <2>3. ASSUME NEW n \in 1..level' PROVE Prefix(n)' \in DOMAIN cache
        <3>1. Prefix(n)' = Prefix(n) BY <2>1 DEF Prefix
        <3>2. n \in 1..level \/ n = level + 1 BY <2>1, <2>2
        <3> QED BY <2>1, <3>1, <3>2 DEF AboveInv
    <2> QED BY <1>1, <2>1, <2>3 DEF AboveInv
<1>8. CASE DescendListed
    <2>1. reader = "descend" BY <1>8 DEF DescendListed
    <2>2. ASSUME NEW listing \in Listings(target), NEW now,
                 now = Primed(ChildrenOf(Prefix(level), listing)),
                 \/ cache' = now /\ UNCHANGED <<reader, position, failure>>
                 \/ Outcome("vanished", now)
          PROVE  AboveInv'
        <3>1. Rooted(now) BY <2>1, <2>2, TaughtAbove DEF Rooted
        <3>2. DOMAIN cache \subseteq DOMAIN now BY <2>2, TaughtIs
        <3>3. CASE cache' = now /\ UNCHANGED <<reader, position, failure>>
            <4>1. path' = path /\ level' = level /\ reader' = reader BY <3>3 DEF position
            <4>2. \A n : Prefix(n)' = Prefix(n) BY <4>1 DEF Prefix
            <4>3. \A n \in 1..level' : Prefix(n)' \in DOMAIN cache'
                BY <2>1, <3>2, <3>3, <4>1, <4>2 DEF AboveInv
            <4> QED BY <1>1, <2>1, <3>1, <3>3, <4>1, <4>3 DEF AboveInv, Rooted
        <3>4. CASE Outcome("vanished", now) BY <1>1, <2>1, <3>1, <3>4, OutcomeAbove
        <3> QED BY <2>2, <3>3, <3>4
    <2> QED BY <1>3, <1>8, <2>1, <2>2 DEF DescendListed
<1>9. CASE Operate
    <2>1. CASE reader' = "opened" /\ UNCHANGED <<since, cache, position, failure>>
        BY <1>4, <1>9, <2>1 DEF Operate, position
    <2> QED BY <1>3, <1>9, <2>1 DEF Operate
<1>10. CASE Probe
    <2>1. reader = "probe" /\ path \in snapshot BY <1>10 DEF Probe, AboveInv
    <2>2. CASE TryAgain(3, <<>>)
        <3>1. cache' = <<>> /\ path' = path /\ reader' = "resolve" BY <2>2 DEF TryAgain
        <3>2. DOMAIN <<>> = {} OBVIOUS
        <3> QED BY <1>1, <2>1, <3>1, <3>2 DEF AboveInv
    <2>3. CASE Answer("vanished", cache)
        BY <1>4, <2>1, <2>3 DEF Answer, position
    <2> QED BY <1>10, <2>2, <2>3 DEF Probe
<1> QED BY <1>5, <1>6, <1>7, <1>8, <1>9, <1>10 DEF ReadStep

LEMMA AboveStep ==
    ASSUME TypedInv, TreeInv, AboveInv, [MtpNext]_endpoint
    PROVE  AboveInv'
<1>0. PhoneInv /\ WalkInv /\ ReadInv BY DEF TypedInv
<1>1. CASE WalkStep /\ UNCHANGED readVars
    <2>1. reader = "idle" /\ scan # "walked" BY <1>0, <1>1, WalksAlone
    <2>2. snapshot' = snapshot
        BY <1>1, Zenon DEF WalkStep, LocateSegment, Located, BeginScan, WalkFolder, Revalidate,
                    FindFile, FailScan, PickedAs, Record, walked
    <2> QED BY <1>1, <2>1, <2>2 DEF AboveInv, readVars
<1>2. CASE WalkDone /\ Prime
    <2>1. /\ snapshot' = {e.path : e \in {d \in entries : ~d.folder}}
          /\ cache' = Primed(entries) /\ reader' = reader /\ scan # "walked"
        BY <1>2 DEF WalkDone, Prime, WalkIsOver
    <2>2. reader = "idle" BY <1>0, <2>1 DEF ReadInv
    <2>3. DOMAIN Primed(entries) = {e.path : e \in entries} \cup DOMAIN cache BY PrimedIs
    <2>4. ASSUME NEW p \in snapshot', NEW n \in 1..(Len(p) - 1)
          PROVE  SubSeq(p, 1, n) \notin snapshot' /\ SubSeq(p, 1, n) \in DOMAIN Primed(entries)
        <3>1. PICK e \in entries : p = e.path BY <2>1
        <3>2. /\ SubSeq(e.path, 1, n) \in {f.path : f \in entries}
              /\ SubSeq(e.path, 1, n) \notin {f.path : f \in {d \in entries : ~d.folder}}
            BY <1>0, <3>1, FilesAreLeaves DEF TreeInv
        <3> QED BY <2>1, <2>3, <3>1, <3>2
    <2> QED BY <2>1, <2>2, <2>4 DEF AboveInv
<1>3. CASE BeginRead
    <2>1. path' \in snapshot /\ UNCHANGED <<snapshot, cache>> /\ reader' = "resolve"
        BY <1>3 DEF BeginRead, outside, walkVars, walked
    <2> QED BY <2>1 DEF AboveInv
<1>4. CASE ReadStep BY <1>0, <1>4, ReadAbove
<1>5. CASE Rest /\ UNCHANGED walkVars
    <2>1. cache' = cache /\ reader' = "idle" /\ snapshot' = snapshot
        BY <1>5 DEF Rest, walkVars, walked
    <2> QED BY <2>1 DEF AboveInv
<1>6. CASE UNCHANGED <<walkVars, readVars>>
    BY <1>6 DEF AboveInv, Prefix, walkVars, walked, readVars, position
<1> QED BY <1>1, <1>2, <1>3, <1>4, <1>5, <1>6, StepKinds
-----------------------------------------------------------------------------
(* What a read recovers from.  While nothing happens but that the phone    *)
(* re-keys, and that once at most, every further attempt goes by handles   *)
(* that are learned anew, and an answer that the file is gone is true.     *)

OnlyRekeyed ==
    /\ known # "nothing" /\ ~cancelled /\ since.faults = 0
    /\ since.changes = since.rekeys
    /\ since.rekeys <= IF known = "handle" THEN 1 ELSE 0

\* The second attempt forgot the file alone, the third one everything.
Recovers ==
    /\ Trying /\ attempt = 1 => path \in DOMAIN cache /\ reader \in {"resolve", "operate"}
    /\ Trying /\ attempt = 2 =>
        /\ path \in DOMAIN cache => Names(cache[path])
        /\ \A n \in 1..(Len(path) - 1) : Prefix(n) \in DOMAIN cache
    /\ reader = "probe" => ParentIsStale \/ ~Present(Base \o path)
    /\ Trying /\ attempt = 3 => \A p \in DOMAIN cache : Names(cache[p])
    /\ reader = "failed" => ~Present(Base \o path)

RecoverInv ==
    /\ since.rekeys <= since.changes
    /\ reader = "probe" => attempt = 2
    /\ OnlyRekeyed => Recovers

\* What is known of an endpoint besides.
EndpointInv == TypedInv /\ TreeInv /\ LiesInv /\ CacheInv /\ PlainInv /\ AboveInv /\ Names(root)

LEMMA NoFault ==
    ASSUME PhoneInv, since'.faults = 0
    PROVE  /\ CallMade => since.faults = 0
           /\ ~Refuses(1)
           /\ \A h : \A listing \in Listings(h) :
                ListingAnswers(h, listing) => listing.refused = {}
<1>0. since.faults \in Nat /\ since \in [changes : Nat, rekeys : Nat, faults : Nat]
    BY DEF PhoneInv
<1>1. ASSUME NEW n \in Nat, Refuses(n) PROVE n = 0 /\ since.faults = 0
    <2>1. since'.faults = since.faults + n BY <1>0, <1>1 DEF Refuses
    <2> QED BY <1>0, <2>1
<1>2. ~Refuses(1) BY <1>1
<1>3. ASSUME NEW h, NEW listing \in Listings(h), ListingAnswers(h, listing)
      PROVE  listing.refused = {} /\ since.faults = 0
    <2>1. Cardinality(listing.refused) \in Nat /\ listing.refused \subseteq Children(h)
        BY ListingIs
    <2>2. Refuses(Cardinality(listing.refused)) BY <1>3 DEF ListingAnswers
    <2>3. Cardinality(listing.refused) = 0 /\ since.faults = 0 BY <1>1, <2>1, <2>2
    <2>4. IsFiniteSet(listing.refused) BY <2>1, ChildrenAre, FS_Subset
    <2> QED BY <2>3, <2>4, FS_EmptySet
<1>4. ASSUME NEW h, NEW e, ListingFails(h, e) PROVE UNCHANGED since
    BY <1>2, <1>4 DEF ListingFails
<1>5. CallMade => since.faults = 0 BY <1>2, <1>3, <1>4 DEF CallMade
<1> QED BY <1>2, <1>3, <1>5

LEMMA StillPresent ==
    ASSUME alive' = alive, opened' = opened, path' = path
    PROVE  (~Present(Base \o path))' = ~Present(Base \o path)
<1> QED BY DEF Present, AtPathThrough, LeadsDown, Base, opened

\* Which way an attempt ends, by its number.
LEMMA OutcomeOf ==
    ASSUME NEW kept
    PROVE  /\ attempt = 1 /\ Outcome("stale", kept) => TryAgain(2, Forgotten(kept, path))
           /\ attempt = 2 /\ Outcome("stale", kept) => TryAgain(3, <<>>)
           /\ attempt = 2 /\ Outcome("vanished", kept) =>
                reader' = "probe" /\ cache' = kept /\ UNCHANGED <<position, failure>>
           /\ attempt = 3 /\ Outcome("vanished", kept) => Answer("vanished", kept)
<1>1. attempt = 1 /\ Outcome("stale", kept) => TryAgain(2, Forgotten(kept, path))
    BY DEF Outcome
<1>2. attempt = 2 /\ Outcome("stale", kept) => TryAgain(3, <<>>) BY DEF Outcome
<1>3. attempt = 2 /\ Outcome("vanished", kept) =>
        reader' = "probe" /\ cache' = kept /\ UNCHANGED <<position, failure>>
    BY DEF Outcome
<1>4. attempt = 3 /\ Outcome("vanished", kept) => Answer("vanished", kept) BY DEF Outcome
<1> QED BY <1>1, <1>2, <1>3, <1>4

\* With everything forgotten there is nothing to go stale.
LEMMA Afresh == ASSUME TryAgain(3, <<>>) PROVE Recovers'
<1>1. reader' = "resolve" /\ attempt' = 3 /\ cache' = <<>> BY DEF TryAgain
<1>2. DOMAIN <<>> = {} OBVIOUS
<1>3. \A p \in DOMAIN cache' : FALSE BY <1>1, <1>2
<1> QED BY <1>1, <1>3 DEF Recovers

LEMMA GoneRecovers ==
    ASSUME ~Present(Base \o path), alive' = alive, opened' = opened, path' = path,
           reader' = "failed"
    PROVE  Recovers'
<1>1. (~Present(Base \o path))' BY StillPresent
<1> QED BY <1>1 DEF Recovers, Trying

\* The first attempt goes by the handle that is cached: stale, it is forgotten,
\* and the folders above the file are not.
LEMMA OperateRecovers ==
    ASSUME EndpointInv, Recovers, Operate, since'.faults = 0
    PROVE  Recovers'
<1>0. PhoneInv /\ ReadInv /\ TargetInv /\ AboveInv BY DEF EndpointInv, TypedInv, CacheInv
<1>1. reader = "operate" /\ path \in DOMAIN cache /\ target = cache[path]
    BY <1>0 DEF Operate, TargetInv
<1>2. reader' = "opened" \/ (~Names(target) /\ Outcome("stale", cache))
    BY <1>0, NoFault DEF Operate
<1>3. CASE reader' = "opened" BY <1>3 DEF Recovers, Trying
<1>4. CASE ~Names(target) /\ Outcome("stale", cache)
    <2>1. attempt = 1 BY <1>0, <1>1, <1>4 DEF Recovers, Trying, ReadInv
    <2>2. PICK c : c = cache OBVIOUS
    <2>3. TryAgain(2, Forgotten(c, path)) BY <1>4, <2>1, <2>2, OutcomeOf
    <2>4. PICK rest : rest = Forgotten(c, path) OBVIOUS
    <2>5. DOMAIN rest = DOMAIN cache \ {path} BY <2>2, <2>4, ForgottenIs
    <2>6. cache' = rest /\ reader' = "resolve" /\ attempt' = 2 /\ path' = path
        BY <2>3, <2>4 DEF TryAgain
    <2>7. ASSUME NEW n \in 1..(Len(path) - 1) PROVE Prefix(n)' \in DOMAIN rest
        <3>1. Prefix(n)' = Prefix(n) /\ Prefix(n) = SubSeq(path, 1, n) BY <2>6 DEF Prefix
        <3>2. path \in snapshot BY <1>0, <1>1 DEF AboveInv
        <3>3. SubSeq(path, 1, n) \in DOMAIN cache /\ SubSeq(path, 1, n) \notin snapshot
            BY <1>0, <1>1, <3>2 DEF AboveInv
        <3> QED BY <2>5, <3>1, <3>2, <3>3
    <2> QED BY <2>5, <2>6, <2>7 DEF Recovers
<1> QED BY <1>2, <1>3, <1>4

\* A descent lists only what it does not know: the file alone on the second
\* attempt, and on the third one it holds nothing but good handles.
LEMMA DescentIs ==
    ASSUME EndpointInv, Recovers, reader = "descend"
    PROVE  /\ level \in Nat /\ level < Len(path) /\ Len(path) \in Nat
           /\ Lies(target, Prefix(level)) /\ path[level + 1] \notin Reserved
           /\ attempt \in {2, 3}
           /\ attempt = 3 => Names(target)
           /\ attempt = 2 /\ Prefix(level + 1) \notin DOMAIN cache =>
                /\ level + 1 = Len(path) /\ Front(path) = Prefix(level)
                /\ Names(target) \/ (Prefix(level) \in DOMAIN cache /\ target = cache[Prefix(level)])
<1>0. PhoneInv /\ ReadInv /\ TargetInv /\ AboveInv /\ PlainInv /\ ReadLies
    BY DEF EndpointInv, TypedInv, CacheInv, LiesInv
<1>1. level \in Nat /\ level < Len(path) /\ Len(path) \in Nat BY <1>0 DEF ReadInv
<1>2. Lies(target, Prefix(level)) BY <1>0 DEF ReadLies
<1>3. path[level + 1] \notin Reserved
    <2>1. path \in snapshot /\ level + 1 \in 1..Len(path) BY <1>0, <1>1 DEF AboveInv
    <2> QED BY <1>0, <2>1 DEF PlainInv, Plain
<1>4. Trying /\ attempt \in {2, 3} BY <1>0 DEF Recovers, Trying, ReadInv
<1>5. Names(root) BY DEF EndpointInv
<1>6. Names(target) \/ (Prefix(level) \in DOMAIN cache /\ target = cache[Prefix(level)])
    BY <1>0, <1>5 DEF TargetInv
<1>7. attempt = 3 => Names(target) BY <1>4, <1>6 DEF Recovers
<1>8. ASSUME attempt = 2, Prefix(level + 1) \notin DOMAIN cache
      PROVE  level + 1 = Len(path) /\ Front(path) = Prefix(level)
    <2>1. level + 1 \notin 1..(Len(path) - 1) BY <1>4, <1>8 DEF Recovers
    <2>2. level + 1 = Len(path) BY <1>1, <2>1
    <2>3. Len(path) - 1 = level BY <1>1, <2>2
    <2> QED BY <2>2, <2>3 DEF Front, Prefix
<1> QED BY <1>1, <1>2, <1>3, <1>4, <1>6, <1>7, <1>8

LEMMA TaughtRecovers ==
    ASSUME FoldersStandOut, EndpointInv, Recovers, reader = "descend", opened' = opened,
           phone' = phone, Prefix(level + 1) \notin DOMAIN cache,
           NEW listing \in Listings(target), listing.refused = {},
           NEW now, now = Primed(ChildrenOf(Prefix(level), listing)),
           \/ /\ Prefix(level + 1) \in DOMAIN now
              /\ cache' = now /\ UNCHANGED <<reader, position, failure>>
           \/ Prefix(level + 1) \notin DOMAIN now /\ Outcome("vanished", now)
    PROVE  Recovers'
<1>0. PhoneInv /\ WalkInv /\ ReadInv BY DEF EndpointInv, TypedInv
<1>1. /\ level < Len(path)
      /\ Lies(target, Prefix(level)) /\ path[level + 1] \notin Reserved
      /\ attempt \in {2, 3}
      /\ attempt = 3 => Names(target)
      /\ attempt = 2 =>
            /\ Front(path) = Prefix(level)
            /\ Names(target) \/ (Prefix(level) \in DOMAIN cache /\ target = cache[Prefix(level)])
    BY DescentIs
<1>2. /\ DOMAIN cache \subseteq DOMAIN now
      /\ \A p \in DOMAIN now : Names(now[p]) \/ (p \in DOMAIN cache /\ now[p] = cache[p])
      /\ Prefix(level) \in DOMAIN cache => now[Prefix(level)] = cache[Prefix(level)]
    BY <1>0, TaughtIs
<1>3. Trying BY DEF Trying
<1>4. attempt = 2 /\ path \in DOMAIN now => Names(now[path])
    BY <1>2, <1>3 DEF Recovers
<1>5. attempt = 3 => \A p \in DOMAIN now : Names(now[p]) BY <1>2, <1>3 DEF Recovers
<1>6. attempt = 2 => \A n \in 1..(Len(path) - 1) : Prefix(n) \in DOMAIN now
    BY <1>2, <1>3 DEF Recovers
<1>8. ASSUME path' = path, level' = level, attempt' = attempt, cache' = now,
             reader' \in {"descend", "probe"},
             reader' = "probe" => (ParentIsStale \/ ~Present(Base \o path))',
             attempt = 3 => reader' = "descend"
      PROVE  Recovers'
    <2>1. \A n : Prefix(n)' = Prefix(n) BY <1>8 DEF Prefix
    <2>2. attempt = 2 => (path' \in DOMAIN cache' => Names(cache[path])')
        BY <1>4, <1>8 DEF Names, phone
    <2>3. attempt = 2 => \A n \in 1..(Len(path') - 1) : Prefix(n)' \in DOMAIN cache'
        BY <1>6, <1>8, <2>1
    <2>4. attempt = 3 => (\A p \in DOMAIN cache : Names(cache[p]))'
        BY <1>5, <1>8 DEF Names, phone
    <2> QED BY <1>1, <1>8, <2>2, <2>3, <2>4 DEF Recovers
<1>9. CASE Prefix(level + 1) \in DOMAIN now /\ cache' = now
           /\ UNCHANGED <<reader, position, failure>>
    BY <1>8, <1>9 DEF position
<1>10. CASE Prefix(level + 1) \notin DOMAIN now /\ Outcome("vanished", now)
    <2>1. Names(target) => ~Present(Base \o path)
        BY <1>0, <1>1, <1>10, Missing
    <2>2. CASE attempt = 3
        <3>1. reader' = "failed" /\ path' = path
            BY <1>10, <2>2, OutcomeOf DEF Answer, position
        <3> QED BY <1>1, <2>1, <2>2, <3>1, GoneRecovers DEF phone
    <2>3. CASE attempt = 2
        <3>1. reader' = "probe" /\ cache' = now /\ UNCHANGED <<position, failure>>
            BY <1>10, <2>3, OutcomeOf
        <3>2. path' = path /\ level' = level /\ attempt' = attempt BY <3>1 DEF position
        <3>3. CASE Names(target)
            <4>1. (~Present(Base \o path))' BY <2>1, <3>2, <3>3, StillPresent DEF phone
            <4> QED BY <1>8, <2>3, <3>1, <3>2, <4>1
        <3>4. CASE ~Names(target)
            <4>1. PICK p : p = Front(path) OBVIOUS
            <4>2. p = Prefix(level) /\ p \in DOMAIN cache /\ target = cache[p]
                BY <1>1, <2>3, <3>4, <4>1
            <4>3. p \in DOMAIN now /\ now[p] = target BY <1>2, <4>2
            <4>4. Front(path') = p /\ cache'[p] = target /\ p \in DOMAIN cache'
                BY <3>1, <3>2, <4>1, <4>3
            <4>5. ParentIsStale' BY <3>4, <4>4 DEF ParentIsStale, Names, phone
            <4> QED BY <1>8, <2>3, <3>1, <3>2, <4>5
        <3> QED BY <3>3, <3>4
    <2> QED BY <1>1, <2>2, <2>3
<1> QED BY <1>9, <1>10

LEMMA ListedRecovers ==
    ASSUME FoldersStandOut, EndpointInv, Recovers, ~cancelled, DescendListed, since'.faults = 0
    PROVE  Recovers'
<1>0. PhoneInv /\ reader = "descend" /\ Prefix(level + 1) \notin DOMAIN cache
    BY DEF EndpointInv, TypedInv, DescendListed
<1>1. opened' = opened /\ phone' = phone BY Zenon DEF DescendListed, outside, walkVars
<1>2. ASSUME NEW e \in {"cancelled", "device", "stale"}, ListingFails(target, e), Outcome(e, cache)
      PROVE  Recovers'
    <2>1. e = "stale" /\ ~Names(target) BY <1>0, <1>2, NoFault DEF ListingFails
    <2>2. attempt = 2 BY <1>0, <2>1, DescentIs
    <2>3. PICK c : c = cache OBVIOUS
    <2>4. TryAgain(3, <<>>) BY <1>2, <2>1, <2>2, <2>3, OutcomeOf
    <2> QED BY <2>4, Afresh
<1>3. ASSUME NEW listing \in Listings(target), ListingAnswers(target, listing), NEW now,
             now = Primed(ChildrenOf(Prefix(level), listing)),
             \/ /\ Prefix(level + 1) \in DOMAIN now
                /\ cache' = now /\ UNCHANGED <<reader, position, failure>>
             \/ Prefix(level + 1) \notin DOMAIN now /\ Outcome("vanished", now)
      PROVE  Recovers'
    <2>1. listing.refused = {} BY <1>0, <1>3, NoFault
    <2> QED BY <1>0, <1>1, <1>3, <2>1, TaughtRecovers
<1> QED BY <1>2, <1>3 DEF DescendListed

LEMMA CachedRecovers ==
    ASSUME EndpointInv, Recovers, Resolve \/ DescendCached
    PROVE  Recovers'
<1>1. /\ UNCHANGED <<cache, path, attempt>> /\ phone' = phone
      /\ reader \in {"resolve", "descend"} /\ reader' \in {"operate", "descend"}
      /\ reader = "resolve" => reader' = IF path \in DOMAIN cache THEN "operate" ELSE "descend"
    BY DEF Resolve, DescendCached, outside
<1>2. Trying /\ Trying' BY <1>1 DEF Trying
<1>3. \A n : Prefix(n)' = Prefix(n) BY <1>1 DEF Prefix
<1>5. attempt = 1 => path \in DOMAIN cache /\ reader' = "operate"
    BY <1>1, <1>2 DEF Recovers
<1>6. attempt = 2 => /\ path' \in DOMAIN cache' => Names(cache[path])'
                     /\ \A n \in 1..(Len(path') - 1) : Prefix(n)' \in DOMAIN cache'
    BY <1>1, <1>2, <1>3 DEF Recovers, Names, phone
<1>7. attempt = 3 => (\A p \in DOMAIN cache : Names(cache[p]))'
    BY <1>1, <1>2 DEF Recovers, Names, phone
<1> QED BY <1>1, <1>5, <1>6, <1>7 DEF Recovers

LEMMA ProbeRecovers ==
    ASSUME EndpointInv, Recovers, Probe, since'.faults = 0
    PROVE  Recovers'
<1>1. reader = "probe" /\ opened' = opened /\ phone' = phone /\ PhoneInv
    BY Zenon DEF Probe, outside, walkVars, EndpointInv, TypedInv
<1>2. CASE TryAgain(3, <<>>) BY <1>2, Afresh
<1>3. CASE ~ParentIsStale /\ Answer("vanished", cache)
    <2>1. reader' = "failed" /\ path' = path BY <1>3 DEF Answer, position
    <2>2. ~Present(Base \o path) BY <1>1, <1>3 DEF Recovers
    <2> QED BY <1>1, <2>1, <2>2, GoneRecovers DEF phone
<1> QED BY <1>1, <1>2, <1>3, NoFault DEF Probe

LEMMA ReadRecovers ==
    ASSUME FoldersStandOut, EndpointInv, RecoverInv, ReadStep
    PROVE  RecoverInv'
<1>0. PhoneInv /\ ReadInv BY DEF EndpointInv, TypedInv
<1>1. since.changes \in Nat /\ since.rekeys \in Nat BY <1>0 DEF PhoneInv
<1>2. CASE ReadFailed
    <2>1. reader' = "idle" /\ since' = Undisturbed BY <1>2 DEF ReadFailed, Rest
    <2>2. since'.rekeys = 0 /\ since'.changes = 0 BY <2>1 DEF Undisturbed
    <2> QED BY <2>1, <2>2 DEF RecoverInv, Recovers, Trying
<1>3. CASE ~ReadFailed
    <2>1. CallMade
        <3>1. CallMade \/ ReadFailed
            BY DEF ReadStep, Resolve, DescendCached, DescendListed, Operate, Probe, CallMade
        <3> QED BY <1>3, <3>1
    <2>2. since'.changes = since.changes /\ since'.rekeys = since.rekeys BY <1>0, <2>1, CallKeeps
    <2>3. cancelled' = cancelled
        BY <1>3, Zenon DEF ReadStep, Resolve, DescendCached, DescendListed, Operate, Probe, outside
    <2>4. ASSUME NEW e, NEW kept, Outcome(e, kept)
          PROVE  known' = known /\ (reader' = "probe" => attempt' = 2)
        BY <1>0, <2>4, OutcomeLeaves
    <2>5. ASSUME NEW e, Outcome(e, cache)
          PROVE  known' = known /\ (reader' = "probe" => attempt' = 2)
        <3>1. PICK c : c = cache OBVIOUS
        <3>2. Outcome(e, c) BY <2>5, <3>1
        <3> QED BY <2>4, <3>2
    <2>6. known' = known /\ (reader' = "probe" => attempt' = 2)
        <3>1. CASE Resolve BY <3>1 DEF Resolve
        <3>2. CASE DescendCached BY <3>2 DEF DescendCached
        <3>3. CASE DescendListed
            <4>1. reader = "descend" BY <3>3 DEF DescendListed
            <4>2. \/ \E e : Outcome(e, cache)
                  \/ UNCHANGED <<reader, position, failure>>
                  \/ \E kept : Outcome("vanished", kept)
                BY <3>3 DEF DescendListed
            <4> QED BY <2>4, <2>5, <4>1, <4>2 DEF position
        <3>4. CASE Operate BY <2>5, <3>4 DEF Operate, position
        <3>5. CASE Probe BY <3>5 DEF Probe, TryAgain, Answer, position
        <3> QED BY <1>3, <3>1, <3>2, <3>3, <3>4, <3>5 DEF ReadStep
    <2>7. ASSUME OnlyRekeyed' PROVE Recovers'
        <3>1. since'.faults = 0 /\ since.faults = 0 BY <1>0, <2>1, <2>7, NoFault DEF OnlyRekeyed
        <3>2. OnlyRekeyed BY <2>2, <2>3, <2>6, <2>7, <3>1 DEF OnlyRekeyed
        <3>3. Recovers /\ ~cancelled BY <3>2 DEF RecoverInv, OnlyRekeyed
        <3> QED BY <1>3, <3>1, <3>3, CachedRecovers, ListedRecovers, OperateRecovers, ProbeRecovers
            DEF ReadStep
    <2> QED BY <2>2, <2>6, <2>7 DEF RecoverInv
<1> QED BY <1>2, <1>3

\* The one new set of handles that a read which knew its file puts up with.
LEMMA ChangeRecovers ==
    ASSUME EndpointInv, RecoverInv, PhoneChanges, UNCHANGED <<walkVars, readVars>>,
           cancelled => cancelled'
    PROVE  RecoverInv'
<1>0. PhoneInv /\ ReadInv /\ KnownInv BY DEF EndpointInv, TypedInv, CacheInv
<1>1. /\ since.changes \in Nat /\ since.rekeys \in Nat
      /\ since'.changes = since.changes + 1
      /\ since'.rekeys \in {since.rekeys, since.rekeys + 1}
    BY <1>0, ChangeTyped DEF PhoneInv
<1>2. since'.rekeys <= since'.changes BY <1>1 DEF RecoverInv
<1>3. UNCHANGED <<reader, path, attempt, known, cache, opened>>
    BY DEF walkVars, readVars, position
<1>4. ASSUME OnlyRekeyed' PROVE Recovers'
    <2>1. /\ since'.rekeys = since.rekeys + 1 /\ since.changes = since.rekeys
          /\ since'.rekeys <= IF known = "handle" THEN 1 ELSE 0
        BY <1>1, <1>3, <1>4 DEF RecoverInv, OnlyRekeyed
    <2>2. known = "handle" /\ since.rekeys = 0 /\ since.changes = 0 BY <1>1, <2>1
    <2>3. Rekey
        <3>1. ASSUME Change(0) PROVE FALSE
            <4>1. since'.rekeys = since.rekeys + 0 BY <1>0, <3>1 DEF Change, PhoneInv
            <4> QED BY <1>1, <2>1, <4>1
        <3> QED BY <3>1 DEF PhoneChanges, Lose, Appear
    <2>4. alive' = alive BY <2>3 DEF Rekey
    <2>5. since.faults = 0
        <3>1. since'.faults = since.faults BY <1>0, <2>3 DEF Rekey, Change, PhoneInv
        <3> QED BY <1>4, <3>1 DEF OnlyRekeyed
    <2>6. OnlyRekeyed BY <1>3, <1>4, <2>2, <2>5 DEF OnlyRekeyed
    <2>7. Recovers BY <2>6 DEF RecoverInv
    <2>8. Trying => attempt = 1 BY <1>0, <2>2 DEF KnownInv
    <2>9. reader # "probe" BY <2>8 DEF RecoverInv, Trying
    <2>10. (~Present(Base \o path))' = ~Present(Base \o path) BY <1>3, <2>4, StillPresent
    <2> QED BY <1>3, <2>7, <2>8, <2>9, <2>10 DEF Recovers, Trying
<1> QED BY <1>2, <1>3, <1>4 DEF RecoverInv

\* A cancel is not taken back.
LEMMA CancelStays == ASSUME [MtpNext]_endpoint, cancelled PROVE cancelled'
<1>1. CASE Scan
    BY <1>1, Zenon DEF Scan, WalkStep, WalkDone, LocateSegment, Located, BeginScan, WalkFolder,
                       Revalidate, FindFile
<1>2. CASE Read
    BY <1>2, Zenon DEF Read, BeginRead, ReadStep, ReadFailed, Resolve, DescendCached,
                       DescendListed, Operate, Probe, outside
<1>3. CASE Open BY <1>3, Zenon DEF Open, OpenStream
<1>4. CASE Stream
    BY <1>4, Zenon DEF Stream, PumpStep, PumpTasks, PumpConsumer, FetchCancelled, FetchWindow,
                       FetchNothing, FetchPanics, SendItem, SendRefused, Join, SendReport, Pull,
                       PullEnd, DropStream, CloseStream
<1>5. CASE WorldChanges BY <1>5, Zenon DEF WorldChanges
<1>6. CASE Stopped BY <1>6, Zenon DEF Stopped, Interrupt
<1>7. CASE UNCHANGED endpoint BY <1>7, Zenon DEF endpoint
<1> QED BY <1>1, <1>2, <1>3, <1>4, <1>5, <1>6, <1>7 DEF MtpNext

LEMMA RecoverStep ==
    ASSUME FoldersStandOut, EndpointInv, RecoverInv, [MtpNext]_endpoint
    PROVE  RecoverInv'
<1>0. PhoneInv /\ WalkInv /\ ReadInv BY DEF EndpointInv, TypedInv
<1>1. cancelled => cancelled' BY CancelStays
<1>2. ASSUME reader' = "idle", since'.rekeys <= since'.changes PROVE RecoverInv'
    BY <1>2 DEF RecoverInv, Recovers, Trying
<1>3. since' = Undisturbed => since'.rekeys = 0 /\ since'.changes = 0 BY DEF Undisturbed
<1>4. CASE WalkStep /\ UNCHANGED readVars
    <2>1. reader' = "idle" BY <1>0, <1>4, WalksAlone DEF readVars
    <2>2. CallMade \/ since' = Undisturbed BY <1>0, <1>4, SinceTyped
    <2>3. since'.rekeys <= since'.changes BY <1>0, <1>3, <2>2, CallKeeps DEF RecoverInv
    <2> QED BY <1>2, <2>1, <2>3
<1>5. CASE WalkDone /\ Prime
    <2>1. scan # "walked" /\ since' = since /\ reader' = reader
        BY <1>5 DEF WalkDone, WalkIsOver, Prime
    <2>2. reader' = "idle" BY <1>0, <2>1 DEF ReadInv
    <2> QED BY <1>2, <2>1, <2>2 DEF RecoverInv
<1>6. CASE BeginRead
    <2>1. /\ reader' = "resolve" /\ attempt' = 1 /\ since' = Undisturbed /\ cache' = cache
          /\ known' = IF path' \notin DOMAIN cache THEN "nothing"
                      ELSE IF Names(cache[path']) THEN "handle" ELSE "stale"
        BY <1>6 DEF BeginRead
    <2>2. known' # "nothing" => path' \in DOMAIN cache' BY <2>1
    <2>3. OnlyRekeyed' => Recovers' BY <2>1, <2>2 DEF OnlyRekeyed, Recovers
    <2> QED BY <1>3, <2>1, <2>3 DEF RecoverInv
<1>7. CASE ReadStep BY <1>7, ReadRecovers
<1>8. CASE Rest
    <2>1. reader' = "idle" /\ since' = Undisturbed BY <1>8 DEF Rest
    <2> QED BY <1>2, <1>3, <2>1
<1>9. CASE PhoneChanges /\ UNCHANGED <<walkVars, readVars>> BY <1>1, <1>9, ChangeRecovers
<1>10. CASE UNCHANGED <<phone, since, walkVars, readVars>>
    <2>1. UNCHANGED <<since, reader, path, attempt, known, cache, opened, phone>>
        BY <1>10 DEF walkVars, readVars, position
    <2>2. OnlyRekeyed' => OnlyRekeyed BY <1>1, <2>1 DEF OnlyRekeyed
    <2>3. (~Present(Base \o path))' = ~Present(Base \o path) BY <2>1, StillPresent DEF phone
    <2>4. ParentIsStale' = ParentIsStale BY <2>1 DEF ParentIsStale, Names, phone
    <2>5. \A n : Prefix(n)' = Prefix(n) BY <2>1 DEF Prefix
    <2>6. (\A p \in DOMAIN cache : Names(cache[p]))' = \A p \in DOMAIN cache : Names(cache[p])
        BY <2>1 DEF Names, phone
    <2>7. Names(cache[path])' = Names(cache[path]) BY <2>1 DEF Names, phone
    <2>8. Recovers => Recovers'
        BY <2>1, <2>3, <2>4, <2>5, <2>6, <2>7 DEF Recovers, Trying
    <2> QED BY <2>1, <2>2, <2>8 DEF RecoverInv
<1> QED BY <1>4, <1>5, <1>6, <1>7, <1>8, <1>9, <1>10, StepKinds

\* A file that is there, and of which a handle was learned, is read although the
\* phone re-keyed whatever it likes since, or does so once more while a good
\* handle is used: provided it keeps the handle of the folder asked for, no
\* folder shares its name with anything beside it, and nobody asks for a file by
\* the name of one of a transfer in progress.
THEOREM ReadsRecover ==
    ASSUME RootStays, FoldersStandOut, PlainRoots
    PROVE  MtpSpec => []RecoversFromRekey
<1>1. MtpInit => PlainInv
    <2> SUFFICES ASSUME MtpInit PROVE PlainInv OBVIOUS
    <2>1. WalkInit BY DEF MtpInit
    <2> QED BY <2>1 DEF WalkInit, PlainInv
<1>2. MtpInit => AboveInv
    <2> SUFFICES ASSUME MtpInit PROVE AboveInv OBVIOUS
    <2>1. snapshot = {} /\ reader = "idle" BY DEF MtpInit, WalkInit, ResolverInit
    <2> QED BY <2>1 DEF AboveInv
<1>3. MtpInit => RecoverInv
    <2> SUFFICES ASSUME MtpInit PROVE RecoverInv OBVIOUS
    <2>1. since = Undisturbed /\ reader = "idle" /\ known = "nothing"
        BY DEF MtpInit, PhoneInit, ResolverInit
    <2>2. since.rekeys = 0 /\ since.changes = 0 BY <2>1 DEF Undisturbed
    <2> QED BY <2>1, <2>2 DEF RecoverInv, OnlyRekeyed
<1>4. CoverInv => Names(root) BY DEF CoverInv
<1>5. PlainInv /\ TypedInv /\ [MtpNext]_endpoint => PlainInv' BY PlainStep
<1>6. CoverInv /\ TypedInv /\ [MtpNext]_endpoint => CoverInv' BY CoverStep
<1>7. /\ TypedInv /\ TreeInv /\ LiesInv /\ CacheInv /\ PlainInv /\ AboveInv /\ CoverInv
      /\ RecoverInv /\ [MtpNext]_endpoint
      => RecoverInv'
    BY <1>4, RecoverStep DEF EndpointInv
<1>8. RecoverInv => RecoversFromRekey
    BY DEF RecoverInv, Recovers, OnlyRekeyed, RecoversFromRekey
<1> QED
    BY <1>1, <1>2, <1>3, <1>5, <1>6, <1>7, <1>8, TreeInit, LiesInit, CacheInit, CoverInit,
       TreeStep, LiesStep, CacheStep, AboveStep, AlwaysTyped, PTL
    DEF MtpSpec
===============================================================================
