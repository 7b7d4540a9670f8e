---------------------------- MODULE ListWalkProofs ----------------------------
(***************************************************************************)
(* Theorems about listAll, for collections, page sizes and page limits of  *)
(* any size.                                                               *)
(***************************************************************************)
EXTENDS ListWalk, PagingProofs, FiniteSetTheorems

\* The page that listAll is served, whether or not the server honours $skip.
LEMMA ServedProperties ==
  ASSUME TypeOK
  PROVE  Served \in Seq(Items) /\ Len(Served) \in 0..PageSize
<1>1. page * PageSize \in Nat
  BY PageSizeAssumption, MaxPagesAssumption DEF TypeOK
<1> QED
  BY <1>1, PageProperties, PageSizeAssumption DEF Served, TypeOK

\* What a creation and a deletion do to the places of the other entities, and
\* what the history says of them.
LEMMA Created ==
  ASSUME TypeOK, Create
  PROVE  \E x \in Fresh, i \in 1..(Len(coll) + 1) :
            /\ coll' \in Seq(Items) /\ Len(coll') = Len(coll) + 1
            /\ \A k \in 1..(i - 1) : coll'[k] = coll[k]
            /\ coll'[i] = x
            /\ \A k \in i..Len(coll) : coll'[k + 1] = coll[k]
            /\ movedDown' = IF i <= Len(all) THEN movedDown + 1 ELSE movedDown
            /\ movedUp' = movedUp /\ gone' = gone
<1> PICK x \in Fresh, i \in 1..(Len(coll) + 1) :
           /\ coll' = WithAt(coll, i, x)
           /\ movedDown' = IF i <= Len(all) THEN movedDown + 1 ELSE movedDown
           /\ movedUp' = movedUp /\ gone' = gone
  BY DEF Create
<1>1. coll \in Seq(Items) /\ x \in Items
  BY DEF TypeOK, Fresh
<1>2. /\ coll' \in Seq(Items) /\ Len(coll') = Len(coll) + 1
      /\ \A k \in 1..(i - 1) : coll'[k] = coll[k]
      /\ coll'[i] = x
      /\ \A k \in i..Len(coll) : coll'[k + 1] = coll[k]
  <2> DEFINE new == WithAt(coll, i, x)
  <2>1. /\ new \in Seq(Items) /\ Len(new) = Len(coll) + 1
        /\ \A k \in 1..(i - 1) : new[k] = coll[k]
        /\ new[i] = x
        /\ \A k \in i..Len(coll) : new[k + 1] = coll[k]
    BY <1>1, WithAtProperties
  <2>2. coll' = new
    OBVIOUS
  <2> HIDE DEF new
  <2> QED
    BY <2>1, <2>2
<1> QED
  BY <1>2

LEMMA Deleted ==
  ASSUME TypeOK, Delete
  PROVE  \E i \in 1..Len(coll) :
            /\ coll' \in Seq(Items) /\ Len(coll') = Len(coll) - 1
            /\ \A k \in 1..(i - 1) : coll'[k] = coll[k]
            /\ \A k \in i..(Len(coll) - 1) : coll'[k] = coll[k + 1]
            /\ movedUp' = IF i <= Len(all) THEN movedUp + 1 ELSE movedUp
            /\ movedDown' = movedDown
            /\ gone' = gone \union {coll[i]} /\ coll[i] \in Items
<1> PICK i \in 1..Len(coll) :
           /\ coll' = Without(coll, i)
           /\ movedUp' = IF i <= Len(all) THEN movedUp + 1 ELSE movedUp
           /\ movedDown' = movedDown
           /\ gone' = gone \union {coll[i]}
  BY DEF Delete
<1>1. coll \in Seq(Items) /\ coll[i] \in Items
  BY ElementOfSeq DEF TypeOK
<1>2. /\ coll' \in Seq(Items) /\ Len(coll') = Len(coll) - 1
      /\ \A k \in 1..(i - 1) : coll'[k] = coll[k]
      /\ \A k \in i..(Len(coll) - 1) : coll'[k] = coll[k + 1]
  BY <1>1, WithoutProperties
<1> QED
  BY <1>1, <1>2

(***************************************************************************)
(* Types, and the page limit: a walk that goes on has read full pages only.*)
(***************************************************************************)
FullPagesSoFar ==
    /\ pc \in {"check", "fetch"} => page < MaxPages /\ Len(all) = page * PageSize
    /\ pc = "limit" => page = MaxPages /\ Len(all) = page * PageSize
    /\ pc = "done" => page < MaxPages /\ Len(all) < (page + 1) * PageSize

WalkInv == TypeOK /\ FullPagesSoFar

LEMMA WalkInit == Init => WalkInv
<1> SUFFICES ASSUME Init
             PROVE  WalkInv
  OBVIOUS
<1>1. TypeOK
  <2>1. 0 \in 0..MaxPages
    BY MaxPagesAssumption
  <2>2. <<>> \in Seq(Items)
    BY EmptySeq
  <2> QED
    BY <2>1, <2>2, CollectionsAssumption DEF Init, TypeOK, Ended
<1>2. 0 < MaxPages /\ 0 * PageSize = 0
  BY PageSizeAssumption, MaxPagesAssumption
<1> QED
  BY <1>1, <1>2, EmptySeq DEF Init, WalkInv, FullPagesSoFar

LEMMA WalkStep ==
  ASSUME WalkInv, [Next]_vars
  PROVE  WalkInv'
<1> USE PageSizeAssumption, MaxPagesAssumption DEF WalkInv, TypeOK, FullPagesSoFar, Ended, serverVars
<1>1. CASE CheckContext
  BY <1>1 DEF CheckContext
<1>2. Served \in Seq(Items) /\ Len(Served) \in 0..PageSize
  BY ServedProperties
<1>3. /\ all \o Served \in Seq(Items)
      /\ Len(all \o Served) = Len(all) + Len(Served)
  BY <1>2, ConcatProperties
<1>4. (page + 1) * PageSize = page * PageSize + PageSize
  OBVIOUS
<1>5. CASE FetchLast
  BY <1>2, <1>3, <1>4, <1>5 DEF FetchLast
<1>6. CASE FetchFull
  <2>1. /\ page < MaxPages /\ page \in Nat /\ MaxPages \in Nat
        /\ page' = page + 1 /\ page' \in Nat /\ page' <= MaxPages
    BY <1>6 DEF FetchFull
  <2>2. Len(all') = page' * PageSize
    BY <1>3, <1>4, <1>6 DEF FetchFull
  <2>3. TypeOK'
    BY <1>3, <1>6, <2>1 DEF FetchFull
  <2> QED
    BY <1>6, <2>1, <2>2, <2>3 DEF FetchFull
<1>7. CASE FetchFails
  BY <1>7 DEF FetchFails
<1>8. CASE Change
  <2>1. coll' \in Seq(Items) /\ gone' \subseteq Items /\ movedUp' \in Nat /\ movedDown' \in Nat
    <3>1. CASE Create
      BY <3>1, Created
    <3>2. CASE Delete
      BY <3>2, Deleted
    <3> QED
      BY <1>8, <3>1, <3>2 DEF Change
  <2> QED
    BY <1>8, <2>1 DEF Change
<1>9. CASE Cancel
  BY <1>9 DEF Cancel
<1>10. CASE UNCHANGED vars
  BY <1>10 DEF vars
<1> QED
  BY <1>1, <1>5, <1>6, <1>7, <1>8, <1>9, <1>10 DEF Next, Walk

LEMMA WalkInvariance == SafetySpec => []WalkInv
  BY WalkInit, WalkStep, PTL DEF SafetySpec

\* The variables keep their types, at any collection and any change to it.
THEOREM WalkTypeCorrect == SafetySpec => []TypeOK
<1>1. WalkInv => TypeOK
  BY DEF WalkInv
<1> QED
  BY WalkInvariance, <1>1, PTL

(***************************************************************************)
(* The snapshot: as long as no entity has moved across the walk's          *)
(* position, what it has read is what the collection begins with.          *)
(***************************************************************************)
ReadsThePrefix ==
    ~skipIgnored /\ movedUp = 0 /\ movedDown = 0 =>
        /\ Len(all) <= Len(coll)
        /\ \A k \in 1..Len(all) : all[k] = coll[k]
        /\ pc = "done" => Len(all) = Len(coll)

SnapshotInv == WalkInv /\ ReadsThePrefix

LEMMA SnapshotInit == Init => SnapshotInv
<1> SUFFICES ASSUME Init
             PROVE  SnapshotInv
  OBVIOUS
<1>1. WalkInv
  BY WalkInit
<1>2. Len(all) = 0 /\ Len(coll) \in Nat /\ pc = "check"
  BY <1>1, EmptySeq, LenProperties DEF Init, WalkInv, TypeOK
<1> QED
  BY <1>1, <1>2 DEF SnapshotInv, ReadsThePrefix

\* A page appended to the prefix read so far is the next piece of the
\* collection, and the last piece when the page is short.
LEMMA PageExtendsPrefix ==
  ASSUME SnapshotInv, pc = "fetch", ~skipIgnored, movedUp = 0, movedDown = 0
  PROVE  /\ Len(all \o Served) <= Len(coll)
         /\ \A k \in 1..Len(all \o Served) : (all \o Served)[k] = coll[k]
         /\ Len(Served) < PageSize => Len(all \o Served) = Len(coll)
<1> USE PageSizeAssumption, MaxPagesAssumption DEF SnapshotInv, WalkInv, TypeOK
<1>1. /\ Len(all) = page * PageSize /\ Len(all) <= Len(coll)
      /\ \A k \in 1..Len(all) : all[k] = coll[k]
  BY DEF FullPagesSoFar, ReadsThePrefix
<1>2. Served = Page(coll, PageSize, Len(all)) /\ Len(all) \in Nat /\ Len(coll) \in Nat
  BY <1>1, LenProperties DEF Served
<1> DEFINE piece == Page(coll, PageSize, Len(all))
<1>3. /\ piece \in Seq(Items) /\ Len(piece) \in Nat
      /\ Len(all) + Len(piece) <= Len(coll)
      /\ Len(piece) < PageSize => Len(all) + Len(piece) = Len(coll)
      /\ \A i \in 1..Len(piece) : piece[i] = coll[Len(all) + i]
  BY <1>1, <1>2, PageProperties, LenProperties
<1> HIDE DEF piece
<1>4. /\ Len(all \o piece) = Len(all) + Len(piece)
      /\ \A k \in 1..(Len(all) + Len(piece)) :
            (all \o piece)[k] = IF k <= Len(all) THEN all[k] ELSE piece[k - Len(all)]
  BY <1>3, ConcatProperties
<1>5. ASSUME NEW k \in 1..(Len(all) + Len(piece))
      PROVE  (all \o piece)[k] = coll[k]
  <2>1. CASE k <= Len(all)
    BY <1>1, <1>2, <1>4, <2>1
  <2>2. CASE ~(k <= Len(all))
    <3>1. k - Len(all) \in 1..Len(piece) /\ Len(all) + (k - Len(all)) = k
      BY <1>2, <1>3, <2>2
    <3> QED
      BY <1>3, <1>4, <2>2, <3>1
  <2> QED
    BY <2>1, <2>2
<1> QED
  BY <1>2, <1>3, <1>4, <1>5 DEF piece

LEMMA SnapshotStep ==
  ASSUME SnapshotInv, [Next]_vars
  PROVE  SnapshotInv'
<1>1. WalkInv'
  BY WalkStep DEF SnapshotInv
<1>2. ReadsThePrefix'
  <2> USE DEF ReadsThePrefix, SnapshotInv, serverVars
  <2>1. CASE CheckContext \/ FetchFails
    BY <2>1 DEF CheckContext, FetchFails
  <2>2. CASE FetchLast \/ FetchFull
    <3>1. pc = "fetch" /\ all' = all \o Served /\ coll' = coll
          /\ skipIgnored' = skipIgnored /\ movedUp' = movedUp /\ movedDown' = movedDown
      BY <2>2 DEF FetchLast, FetchFull
    <3>2. pc' = "done" => Len(Served) < PageSize
      BY <2>2 DEF FetchLast, FetchFull
    <3> QED
      BY <3>1, <3>2, PageExtendsPrefix
  <2>3. CASE Change
    <3>1. all' = all /\ pc' = pc /\ pc # "done" /\ skipIgnored' = skipIgnored
      BY <2>3 DEF Change, Ended
    <3>2. Len(all) \in Nat /\ coll \in Seq(Items) /\ Len(coll) \in Nat
      BY LenProperties DEF WalkInv, TypeOK
    <3>3. CASE Create
      <4> PICK i \in 1..(Len(coll) + 1) :
                 /\ Len(coll') = Len(coll) + 1
                 /\ \A k \in 1..(i - 1) : coll'[k] = coll[k]
                 /\ movedDown' = IF i <= Len(all) THEN movedDown + 1 ELSE movedDown
                 /\ movedUp' = movedUp
        BY <3>3, Created DEF WalkInv
      <4>1. CASE i <= Len(all)
        BY <4>1 DEF WalkInv, TypeOK
      <4>2. CASE ~(i <= Len(all))
        BY <3>1, <3>2, <4>2
      <4> QED
        BY <4>1, <4>2
    <3>4. CASE Delete
      <4> PICK i \in 1..Len(coll) :
                 /\ Len(coll') = Len(coll) - 1
                 /\ \A k \in 1..(i - 1) : coll'[k] = coll[k]
                 /\ movedUp' = IF i <= Len(all) THEN movedUp + 1 ELSE movedUp
                 /\ movedDown' = movedDown
        BY <3>4, Deleted DEF WalkInv
      <4>1. CASE i <= Len(all)
        BY <4>1 DEF WalkInv, TypeOK
      <4>2. CASE ~(i <= Len(all))
        BY <3>1, <3>2, <4>2
      <4> QED
        BY <4>1, <4>2
    <3> QED
      BY <2>3, <3>3, <3>4 DEF Change
  <2>4. CASE Cancel
    BY <2>4 DEF Cancel
  <2>5. CASE UNCHANGED vars
    BY <2>5 DEF vars
  <2> QED
    BY <2>1, <2>2, <2>3, <2>4, <2>5 DEF Next, Walk
<1> QED
  BY <1>1, <1>2 DEF SnapshotInv

\* However the collection changes during a walk, if nothing moves across the
\* walk's position what listAll returns is the collection as it is at the
\* moment of the last page.
THEOREM UndisturbedWalkIsASnapshot == SafetySpec => []WalkIsASnapshot
<1>1. SnapshotInv => WalkIsASnapshot
  <2> SUFFICES ASSUME SnapshotInv, pc = "done", ~skipIgnored, movedUp = 0, movedDown = 0
               PROVE  all = coll
    BY DEF WalkIsASnapshot
  <2>1. /\ all \in Seq(Items) /\ coll \in Seq(Items)
        /\ Len(all) = Len(coll)
        /\ \A k \in 1..Len(all) : all[k] = coll[k]
    BY DEF SnapshotInv, WalkInv, TypeOK, ReadsThePrefix
  <2> QED
    BY <2>1, SeqEqual
<1>2. SafetySpec => []SnapshotInv
  BY SnapshotInit, SnapshotStep, PTL DEF SafetySpec
<1> QED
  BY <1>1, <1>2, PTL

(***************************************************************************)
(* Where the entities are: an entity is in one place of the collection or  *)
(* deleted; whatever was there from the beginning, and whatever the walk   *)
(* has read, is one or the other.                                          *)
(***************************************************************************)
OnePlaceEach ==
    /\ IsInjective(coll)
    /\ Range(coll) \intersect gone = {}
    /\ Range(start) \subseteq Range(coll) \union gone
    /\ Range(all) \subseteq Range(coll) \union gone
    /\ IsFiniteSet(gone)

(***************************************************************************)
(* How much a walk can lose or repeat.  What it is going to miss is what   *)
(* it has passed over: unread, and behind the position.  What it is going  *)
(* to repeat is what it has read and has in front of it again.             *)
(***************************************************************************)
PassedOver ==
    {x \in Range(start) \ (gone \union Range(all)) :
        \E j \in DOMAIN coll : j <= Len(all) /\ coll[j] = x}

ReadAhead == {x \in Range(all) : \E j \in DOMAIN coll : j > Len(all) /\ coll[j] = x}

Missed == IF pc = "done" THEN Range(start) \ (gone \union Range(all)) ELSE PassedOver

PassesAreDeletions == ~skipIgnored => Cardinality(Missed) <= movedUp

RepeatsAreBounded ==
    ~skipIgnored => Len(all) - Cardinality(Range(all)) + Cardinality(ReadAhead) <= movedDown

CountsInv == WalkInv /\ OnePlaceEach /\ PassesAreDeletions /\ RepeatsAreBounded

LEMMA RangeCount ==
  ASSUME NEW S, NEW s \in Seq(S)
  PROVE  /\ IsFiniteSet(Range(s)) /\ Cardinality(Range(s)) \in Nat
         /\ Cardinality(Range(s)) <= Len(s)
         /\ Cardinality(Range(s)) = Len(s) <=> IsInjective(s)
<1>1. Len(s) \in Nat /\ DOMAIN s = 1..Len(s) /\ s \in [1..Len(s) -> S]
  BY LenProperties
<1>2. IsFiniteSet(1..Len(s)) /\ Cardinality(1..Len(s)) = Len(s)
  BY <1>1, FS_Interval
<1>3. s \in Surjection(1..Len(s), Range(s))
  BY <1>1 DEF Surjection, Range
<1>4. /\ IsFiniteSet(Range(s)) /\ Cardinality(Range(s)) <= Cardinality(1..Len(s))
      /\ Cardinality(Range(s)) = Cardinality(1..Len(s)) <=> s \in Injection(1..Len(s), Range(s))
  BY <1>2, <1>3, FS_Surjection
<1>5. IsInjective(s) <=> s \in Injection(1..Len(s), Range(s))
  BY <1>1 DEF Injection, Range
<1> QED
  BY <1>2, <1>4, <1>5, FS_CardinalityType

\* The sets that are counted are finite.
LEMMA CountedSetsFinite ==
  ASSUME TypeOK
  PROVE  /\ IsFiniteSet(Range(all)) /\ IsFiniteSet(ReadAhead)
         /\ IsFiniteSet(PassedOver) /\ IsFiniteSet(Missed)
<1>1. IsFiniteSet(Range(all)) /\ IsFiniteSet(Range(start))
  BY RangeCount DEF TypeOK
<1>2. /\ ReadAhead \in SUBSET Range(all)
      /\ PassedOver \in SUBSET Range(start) /\ Missed \in SUBSET Range(start)
  BY DEF ReadAhead, PassedOver, Missed
<1> QED
  BY <1>1, <1>2, FS_Subset

\* A page P is counted twice where it was in front of the position already.
LEMMA PageCount ==
  ASSUME NEW R, IsFiniteSet(R), NEW P, IsFiniteSet(P), NEW A, IsFiniteSet(A),
         P \intersect R \subseteq A, A \subseteq R, NEW B, B \subseteq A \ P
  PROVE  Cardinality(P) - Cardinality(R \union P) + Cardinality(B)
            <= Cardinality(A) - Cardinality(R)
<1>1. Cardinality(R \union P) = Cardinality(R) + Cardinality(P) - Cardinality(R \intersect P)
  BY FS_Union
<1>2. /\ IsFiniteSet(A \ P) /\ Cardinality(A \ P) = Cardinality(A) - Cardinality(A \intersect P)
  BY FS_Difference
<1>3. A \intersect P = R \intersect P
  OBVIOUS
<1>4. IsFiniteSet(R \intersect P) /\ IsFiniteSet(R \union P)
  BY FS_Intersection, FS_Union
<1>5. B \in SUBSET (A \ P)
  OBVIOUS
<1>6. IsFiniteSet(B) /\ Cardinality(B) <= Cardinality(A \ P)
  BY <1>2, <1>5, FS_Subset
<1>7. /\ Cardinality(R) \in Nat /\ Cardinality(P) \in Nat /\ Cardinality(A) \in Nat
      /\ Cardinality(B) \in Nat /\ Cardinality(R \intersect P) \in Nat
      /\ Cardinality(R \union P) \in Nat
  BY <1>4, <1>6, FS_CardinalityType
<1> QED
  BY <1>1, <1>2, <1>3, <1>6, <1>7

LEMMA CountsInit == Init => CountsInv
<1> SUFFICES ASSUME Init
             PROVE  CountsInv
  OBVIOUS
<1>1. WalkInv /\ TypeOK
  BY WalkInit DEF WalkInv
<1>2. /\ start = coll /\ gone = {} /\ pc = "check" /\ movedUp = 0 /\ movedDown = 0
      /\ all = <<>> /\ Range(all) = {} /\ DOMAIN all = {} /\ Len(all) = 0
  BY EmptySeq DEF Init, Range
<1>3. DOMAIN coll = 1..Len(coll) /\ Len(coll) \in Nat
  BY <1>1, LenProperties DEF TypeOK
<1>4. Missed = {} /\ ReadAhead = {}
  BY <1>2, <1>3 DEF Missed, PassedOver, ReadAhead
<1>5. IsFiniteSet({}) /\ Cardinality({}) = 0
  BY FS_EmptySet
<1>6. OnePlaceEach
  BY <1>2, <1>5, CollectionsAssumption DEF Init, OnePlaceEach
<1>7. PassesAreDeletions
  BY <1>2, <1>4, <1>5 DEF PassesAreDeletions
<1>8. RepeatsAreBounded
  <2>1. Cardinality(Range(all)) = 0 /\ Cardinality(ReadAhead) = 0
    BY <1>2, <1>4, <1>5
  <2> QED
    BY <1>2, <2>1 DEF RepeatsAreBounded
<1> QED
  BY <1>1, <1>6, <1>7, <1>8 DEF CountsInv

\* Whatever the server makes of $skip, a page brings entities that it has.
LEMMA PageIsThere ==
  ASSUME TypeOK
  PROVE  Range(all \o Served) \subseteq Range(all) \union Range(coll)
<1> DEFINE offset == IF skipIgnored THEN 0 ELSE page * PageSize
<1>1. /\ offset \in Nat /\ PageSize \in Nat /\ Len(coll) \in Nat
      /\ all \in Seq(Items) /\ coll \in Seq(Items) /\ DOMAIN coll = 1..Len(coll)
  BY PageSizeAssumption, LenProperties DEF TypeOK
<1>2. Served = Page(coll, PageSize, offset)
  BY DEF Served
<1> HIDE DEF offset
<1>3. /\ Served \in Seq(Items) /\ Len(Served) \in Nat
      /\ Len(Served) = 0 \/ offset + Len(Served) <= Len(coll)
      /\ \A i \in 1..Len(Served) : Served[i] = coll[offset + i]
  BY <1>1, <1>2, PageProperties
<1>4. DOMAIN Served = 1..Len(Served)
  BY <1>3, LenProperties
<1>5. Range(all \o Served) = Range(all) \union Range(Served)
  BY <1>1, <1>3, RangeConcatenation
<1>6. ASSUME NEW i \in 1..Len(Served)
      PROVE  Served[i] \in Range(coll)
  <2>1. offset + i \in 1..Len(coll)
    BY <1>1, <1>3
  <2> QED
    BY <1>1, <1>3, <2>1 DEF Range
<1> QED
  BY <1>4, <1>5, <1>6 DEF Range

\* At a server that honours $skip, a page is what comes next.
LEMMA PageIsNext ==
  ASSUME WalkInv, pc = "fetch", ~skipIgnored
  PROVE  /\ Served \in Seq(Items) /\ Len(Served) \in Nat /\ DOMAIN Served = 1..Len(Served)
         /\ Len(all \o Served) = Len(all) + Len(Served)
         /\ Range(all \o Served) = Range(all) \union Range(Served)
         /\ \A i \in 1..Len(Served) :
               Len(all) + i \in 1..Len(coll) /\ Served[i] = coll[Len(all) + i]
         /\ \A j \in 1..Len(coll) : j > Len(all) =>
               j > Len(all) + Len(Served) \/ coll[j] \in Range(Served)
         /\ Len(Served) < PageSize => Len(coll) <= Len(all) + Len(Served)
<1>1. /\ Len(all) = page * PageSize /\ Len(all) \in Nat /\ Len(coll) \in Nat
      /\ all \in Seq(Items) /\ coll \in Seq(Items) /\ PageSize \in Nat
  BY PageSizeAssumption, LenProperties DEF WalkInv, FullPagesSoFar, TypeOK
<1> DEFINE n == Len(all)
<1>2. Served = Page(coll, PageSize, n) /\ n \in Nat
  BY <1>1 DEF Served
<1> HIDE DEF n
<1>3. /\ Served \in Seq(Items) /\ Len(Served) \in 0..PageSize
      /\ Len(Served) = 0 \/ n + Len(Served) <= Len(coll)
      /\ Len(Served) = PageSize \/ Len(coll) <= n + Len(Served)
      /\ \A i \in 1..Len(Served) : Served[i] = coll[n + i]
  BY <1>1, <1>2, PageProperties
<1>4. Len(Served) \in Nat /\ DOMAIN Served = 1..Len(Served)
  BY <1>1, <1>3, LenProperties
<1>5. Len(all \o Served) = Len(all) + Len(Served) /\ Range(all \o Served) = Range(all) \union Range(Served)
  BY <1>1, <1>3, ConcatProperties, RangeConcatenation
<1>6. ASSUME NEW i \in 1..Len(Served)
      PROVE  n + i \in 1..Len(coll) /\ Served[i] = coll[n + i]
  <2>1. Len(Served) # 0 /\ i \in Nat /\ 1 <= i /\ i <= Len(Served)
    BY <1>4
  <2>2. n + Len(Served) <= Len(coll)
    BY <1>3, <2>1
  <2>3. n + i \in 1..Len(coll)
    BY <1>1, <1>2, <1>4, <2>1, <2>2
  <2> QED
    BY <1>3, <2>3
<1>7. ASSUME NEW j \in 1..Len(coll), j > n, ~(j > n + Len(Served))
      PROVE  coll[j] \in Range(Served)
  <2> DEFINE i == j - n
  <2>1. i \in 1..Len(Served) /\ n + i = j
    BY <1>1, <1>2, <1>4, <1>7
  <2> HIDE DEF i
  <2> QED
    BY <1>4, <1>6, <2>1 DEF Range
<1>8. \A j \in 1..Len(coll) : j > n => j > n + Len(Served) \/ coll[j] \in Range(Served)
  BY <1>7
<1>9. Len(Served) < PageSize => Len(coll) <= n + Len(Served)
  <2>1. PageSize \in Nat /\ Len(Served) \in Nat
    BY <1>4, PageSizeAssumption
  <2>2. Len(Served) = PageSize => ~(Len(Served) < PageSize)
    BY <2>1
  <2> QED
    BY <1>3, <2>2
<1> QED
  BY <1>3, <1>4, <1>5, <1>6, <1>8, <1>9 DEF n

\* What the counts say of a walk that goes on.
LEMMA StillReading ==
  ASSUME CountsInv, ~skipIgnored, pc # "done"
  PROVE  /\ movedUp \in Nat /\ movedDown \in Nat
         /\ IsFiniteSet(PassedOver) /\ Cardinality(PassedOver) \in Nat
         /\ Cardinality(PassedOver) <= movedUp
         /\ IsFiniteSet(Range(all)) /\ Cardinality(Range(all)) \in Nat
         /\ IsFiniteSet(ReadAhead) /\ Cardinality(ReadAhead) \in Nat
         /\ Len(all) - Cardinality(Range(all)) + Cardinality(ReadAhead) <= movedDown
<1>1. TypeOK
  BY DEF CountsInv, WalkInv
<1>2. IsFiniteSet(PassedOver) /\ IsFiniteSet(Range(all)) /\ IsFiniteSet(ReadAhead)
  BY <1>1, CountedSetsFinite
<1>3. Cardinality(PassedOver) <= movedUp
  BY DEF CountsInv, PassesAreDeletions, Missed
<1>4. Len(all) - Cardinality(Range(all)) + Cardinality(ReadAhead) <= movedDown
  BY DEF CountsInv, RepeatsAreBounded
<1> QED
  BY <1>1, <1>2, <1>3, <1>4, FS_CardinalityType DEF TypeOK

\* A page makes up for what it repeats: it is read ahead no more.
LEMMA FetchKeepsCounts ==
  ASSUME CountsInv, FetchLast \/ FetchFull
  PROVE  (OnePlaceEach /\ PassesAreDeletions /\ RepeatsAreBounded)'
<1>1. /\ pc = "fetch" /\ all' = all \o Served
      /\ pc' = "done" => Len(Served) < PageSize
      /\ UNCHANGED <<coll, skipIgnored, start, gone, movedUp, movedDown>>
  BY DEF FetchLast, FetchFull, serverVars
<1>2. OnePlaceEach'
  <2>1. Range(all') \subseteq Range(all) \union Range(coll)
    BY <1>1, PageIsThere DEF CountsInv, WalkInv
  <2> QED
    BY <1>1, <2>1 DEF CountsInv, OnePlaceEach
<1> SUFFICES ASSUME ~skipIgnored
             PROVE  (PassesAreDeletions /\ RepeatsAreBounded)'
  BY <1>1, <1>2 DEF PassesAreDeletions, RepeatsAreBounded
<1>3. /\ WalkInv /\ IsInjective(coll) /\ Range(start) \subseteq Range(coll) \union gone
      /\ coll \in Seq(Items) /\ DOMAIN coll = 1..Len(coll) /\ Len(coll) \in Nat
      /\ Len(all) \in Nat
  BY LenProperties DEF CountsInv, OnePlaceEach, WalkInv, TypeOK
<1>4. /\ Served \in Seq(Items) /\ Len(Served) \in Nat /\ DOMAIN Served = 1..Len(Served)
      /\ Len(all') = Len(all) + Len(Served)
      /\ Range(all') = Range(all) \union Range(Served)
      /\ \A i \in 1..Len(Served) :
            Len(all) + i \in 1..Len(coll) /\ Served[i] = coll[Len(all) + i]
      /\ \A j \in 1..Len(coll) : j > Len(all) =>
            j > Len(all) + Len(Served) \/ coll[j] \in Range(Served)
      /\ pc' = "done" => Len(coll) <= Len(all) + Len(Served)
  BY <1>1, <1>3, PageIsNext
<1>5. /\ movedUp \in Nat /\ movedDown \in Nat
      /\ IsFiniteSet(PassedOver) /\ Cardinality(PassedOver) \in Nat
      /\ Cardinality(PassedOver) <= movedUp
      /\ IsFiniteSet(Range(all)) /\ Cardinality(Range(all)) \in Nat
      /\ IsFiniteSet(ReadAhead) /\ Cardinality(ReadAhead) \in Nat
      /\ Len(all) - Cardinality(Range(all)) + Cardinality(ReadAhead) <= movedDown
  BY <1>1, StillReading
<1>6. /\ IsFiniteSet(Range(Served)) /\ Cardinality(Range(Served)) = Len(Served)
  <2>1. IsInjective(Served)
    <3> SUFFICES ASSUME NEW a \in 1..Len(Served), NEW b \in 1..Len(Served), Served[a] = Served[b]
                 PROVE  a = b
      BY <1>4 DEF IsInjective
    <3>1. Len(all) + a = Len(all) + b
      BY <1>3, <1>4 DEF IsInjective
    <3> QED
      BY <1>3, <1>4, <3>1
  <2> QED
    BY <1>4, <2>1, RangeCount
<1>7. PassesAreDeletions'
  <2>1. ASSUME NEW x \in Missed'
        PROVE  x \in PassedOver
    <3>1. x \in Range(start) \ (gone \union Range(all'))
      BY <1>1 DEF Missed, PassedOver
    <3>2. PICK j \in 1..Len(coll) : coll[j] = x /\ j <= Len(all) + Len(Served)
      <4>1. CASE pc' = "done"
        BY <1>3, <1>4, <3>1, <4>1 DEF Range
      <4>2. CASE pc' # "done"
        BY <1>1, <1>3, <1>4, <4>2 DEF Missed, PassedOver
      <4> QED
        BY <4>1, <4>2
    <3>3. coll[j] \notin Range(Served)
      BY <1>4, <3>1, <3>2
    <3>4. j <= Len(all)
      BY <1>3, <1>4, <3>2, <3>3
    <3> QED
      BY <1>3, <1>4, <3>1, <3>2, <3>4 DEF PassedOver
  <2>2. Missed' \in SUBSET PassedOver
    BY <2>1
  <2>3. IsFiniteSet(Missed') /\ Cardinality(Missed') <= Cardinality(PassedOver)
    BY <1>5, <2>2, FS_Subset
  <2>4. Cardinality(Missed') \in Nat
    BY <2>3, FS_CardinalityType
  <2>5. Cardinality(Missed') <= movedUp
    BY <1>5, <2>3, <2>4
  <2> QED
    BY <1>1, <2>5 DEF PassesAreDeletions
<1>8. RepeatsAreBounded'
  <2>1. Range(Served) \intersect Range(all) \subseteq ReadAhead
    <3> SUFFICES ASSUME NEW x \in Range(all), x \in Range(Served)
                 PROVE  x \in ReadAhead
      OBVIOUS
    <3>1. PICK i \in 1..Len(Served) : x = Served[i]
      BY <1>4 DEF Range
    <3>2. Len(all) + i \in 1..Len(coll) /\ coll[Len(all) + i] = x /\ Len(all) + i > Len(all)
      BY <1>3, <1>4, <3>1
    <3> QED
      BY <1>3, <3>2 DEF ReadAhead
  <2>2. ReadAhead' \subseteq ReadAhead \ Range(Served)
    <3> SUFFICES ASSUME NEW x \in ReadAhead'
                 PROVE  x \in ReadAhead \ Range(Served)
      OBVIOUS
    <3>1. PICK j \in 1..Len(coll) : j > Len(all) + Len(Served) /\ coll[j] = x
      BY <1>1, <1>3, <1>4 DEF ReadAhead
    <3>2. x \in Range(all')
      BY DEF ReadAhead
    <3>3. x \notin Range(Served)
      <4> SUFFICES ASSUME NEW i \in 1..Len(Served), Served[i] = x
                   PROVE  FALSE
        BY <1>4 DEF Range
      <4>1. coll[Len(all) + i] = coll[j] /\ Len(all) + i \in 1..Len(coll)
        BY <1>4, <3>1
      <4>2. Len(all) + i = j
        BY <1>3, <4>1 DEF IsInjective
      <4> QED
        BY <1>3, <1>4, <3>1, <4>2
    <3>4. j > Len(all)
      BY <1>3, <1>4, <3>1
    <3> QED
      BY <1>3, <1>4, <3>1, <3>2, <3>3, <3>4 DEF ReadAhead
  <2>3. ReadAhead \subseteq Range(all)
    BY DEF ReadAhead
  <2>4. Cardinality(Range(Served)) - Cardinality(Range(all')) + Cardinality(ReadAhead')
           <= Cardinality(ReadAhead) - Cardinality(Range(all))
    BY <1>4, <1>5, <1>6, <2>1, <2>2, <2>3, PageCount
  <2>5. IsFiniteSet(Range(all')) /\ IsFiniteSet(ReadAhead')
    BY <1>4, <1>5, <1>6, <2>2, <2>3, FS_Union, FS_Subset, FS_Difference
  <2>6. Cardinality(Range(all')) \in Nat /\ Cardinality(ReadAhead') \in Nat
    BY <2>5, FS_CardinalityType
  <2>7. Len(all') - Cardinality(Range(all')) + Cardinality(ReadAhead') <= movedDown
    BY <1>3, <1>4, <1>5, <1>6, <2>4, <2>6
  <2> QED
    BY <1>1, <2>7 DEF RepeatsAreBounded
<1> QED
  BY <1>7, <1>8

LEMMA OneMore ==
  ASSUME NEW S, IsFiniteSet(S), NEW e, NEW T, T \subseteq S \union {e}
  PROVE  /\ IsFiniteSet(T) /\ Cardinality(T) \in Nat
         /\ Cardinality(S) \in Nat /\ Cardinality(T) <= Cardinality(S) + 1
<1>1. /\ IsFiniteSet(S \union {e})
      /\ Cardinality(S \union {e}) = Cardinality(S) \/ Cardinality(S \union {e}) = Cardinality(S) + 1
  BY FS_AddElement
<1>2. T \in SUBSET (S \union {e})
  OBVIOUS
<1>3. IsFiniteSet(T) /\ Cardinality(T) <= Cardinality(S \union {e})
  BY <1>1, <1>2, FS_Subset
<1>4. Cardinality(S) \in Nat /\ Cardinality(T) \in Nat
  BY <1>3, FS_CardinalityType
<1> QED
  BY <1>1, <1>3, <1>4

\* A creation behind the position pushes one entity that may have been read in
\* front of it, and is a newcomer itself.
LEMMA CreateKeepsCounts ==
  ASSUME CountsInv, Change, Create
  PROVE  (OnePlaceEach /\ PassesAreDeletions /\ RepeatsAreBounded)'
<1>1. UNCHANGED <<skipIgnored, start, all, pc>> /\ pc # "done"
  BY DEF Change, Ended
<1>2. /\ TypeOK /\ IsFiniteSet(gone)
      /\ Range(start) \subseteq Range(coll) \union gone
      /\ Range(all) \subseteq Range(coll) \union gone
      /\ IsInjective(coll) /\ Range(coll) \intersect gone = {}
      /\ coll \in Seq(Items) /\ DOMAIN coll = 1..Len(coll) /\ Len(coll) \in Nat
      /\ Len(all) \in Nat
  BY LenProperties DEF CountsInv, OnePlaceEach, WalkInv, TypeOK
<1> PICK x \in Fresh, i \in 1..(Len(coll) + 1) :
           /\ coll' \in Seq(Items) /\ Len(coll') = Len(coll) + 1
           /\ \A k \in 1..(i - 1) : coll'[k] = coll[k]
           /\ coll'[i] = x
           /\ \A k \in i..Len(coll) : coll'[k + 1] = coll[k]
           /\ movedDown' = IF i <= Len(all) THEN movedDown + 1 ELSE movedDown
           /\ movedUp' = movedUp /\ gone' = gone
  BY <1>2, Created
<1>3. DOMAIN coll' = 1..Len(coll') /\ Len(coll') \in Nat
  BY LenProperties
<1>4. x \notin gone /\ x \notin Range(coll)
  BY DEF Fresh
<1>5. ASSUME NEW j \in 1..Len(coll')
      PROVE  \/ j = i /\ coll'[j] = x
             \/ j < i /\ j \in 1..Len(coll) /\ coll'[j] = coll[j]
             \/ j > i /\ j - 1 \in i..Len(coll) /\ j - 1 \in 1..Len(coll) /\ coll'[j] = coll[j - 1]
  <2>1. CASE j < i
    BY <1>2, <1>3, <2>1
  <2>2. CASE j = i
    BY <2>2
  <2>3. CASE j > i
    <3>1. j - 1 \in i..Len(coll) /\ j - 1 \in 1..Len(coll) /\ (j - 1) + 1 = j
      BY <1>2, <1>3, <2>3
    <3> QED
      BY <1>2, <2>3, <3>1
  <2> QED
    BY <1>2, <1>3, <2>1, <2>2, <2>3
<1>6. ASSUME NEW j \in 1..Len(coll)
      PROVE  coll[j] \in Range(coll')
  <2>1. CASE j < i
    <3>1. j \in 1..Len(coll') /\ coll'[j] = coll[j]
      BY <1>2, <1>3, <2>1
    <3> QED
      BY <1>3, <3>1 DEF Range
  <2>2. CASE j >= i
    <3>1. j + 1 \in 1..Len(coll') /\ coll'[j + 1] = coll[j]
      BY <1>2, <1>3, <2>2
    <3> QED
      BY <1>3, <3>1 DEF Range
  <2> QED
    BY <1>2, <2>1, <2>2
<1>7. Range(coll') = Range(coll) \union {x}
  <2>1. x \in Range(coll')
    BY <1>2, <1>3 DEF Range
  <2>2. Range(coll) \subseteq Range(coll')
    BY <1>2, <1>6 DEF Range
  <2>3. ASSUME NEW y \in Range(coll')
        PROVE  y \in Range(coll) \union {x}
    <3>1. PICK j \in 1..Len(coll') : y = coll'[j]
      BY <1>3 DEF Range
    <3> QED
      BY <1>2, <1>5, <3>1 DEF Range
  <2> QED
    BY <2>1, <2>2, <2>3
<1>8. OnePlaceEach'
  <2>1. \A a, b \in 1..Len(coll) : coll[a] = coll[b] => a = b
    BY <1>2 DEF IsInjective
  <2>2. \A a \in 1..Len(coll) : coll[a] # x
    BY <1>2, <1>4 DEF Range
  <2>3. ASSUME NEW a \in 1..Len(coll'), NEW b \in 1..Len(coll'), coll'[a] = coll'[b]
        PROVE  a = b
    BY <1>2, <1>3, <1>5, <2>1, <2>2, <2>3
  <2>4. IsInjective(coll')
    BY <1>3, <2>3 DEF IsInjective
  <2> QED
    BY <1>1, <1>2, <1>4, <1>7, <2>4 DEF OnePlaceEach
<1> SUFFICES ASSUME ~skipIgnored
             PROVE  (PassesAreDeletions /\ RepeatsAreBounded)'
  BY <1>1, <1>8 DEF PassesAreDeletions, RepeatsAreBounded
<1>9. /\ movedUp \in Nat /\ movedDown \in Nat
      /\ IsFiniteSet(PassedOver) /\ Cardinality(PassedOver) \in Nat
      /\ Cardinality(PassedOver) <= movedUp
      /\ Cardinality(Range(all)) \in Nat
      /\ IsFiniteSet(ReadAhead) /\ Cardinality(ReadAhead) \in Nat
      /\ Len(all) - Cardinality(Range(all)) + Cardinality(ReadAhead) <= movedDown
  BY <1>1, StillReading
<1>10. PassesAreDeletions'
  <2>1. ASSUME NEW y \in PassedOver'
        PROVE  y \in PassedOver
    <3>1. y \in Range(start) \ (gone \union Range(all)) /\ y # x
      BY <1>1, <1>2, <1>4 DEF PassedOver
    <3>2. PICK j \in 1..Len(coll') : j <= Len(all) /\ coll'[j] = y
      BY <1>1, <1>3 DEF PassedOver
    <3>3. \E k \in 1..Len(coll) : k <= Len(all) /\ coll[k] = y
      BY <1>2, <1>5, <3>1, <3>2
    <3> QED
      BY <1>2, <3>1, <3>3 DEF PassedOver
  <2>2. Missed' \in SUBSET PassedOver
    BY <1>1, <2>1 DEF Missed
  <2>3. IsFiniteSet(Missed') /\ Cardinality(Missed') <= Cardinality(PassedOver)
    BY <1>9, <2>2, FS_Subset
  <2>4. Cardinality(Missed') \in Nat
    BY <2>3, FS_CardinalityType
  <2>5. Cardinality(Missed') <= movedUp
    BY <1>9, <2>3, <2>4
  <2> QED
    BY <1>1, <2>5 DEF PassesAreDeletions
\* What is ahead now, and was not, has been pushed across the position.
<1>11. ASSUME NEW y \in ReadAhead'
       PROVE  y \in ReadAhead \/ (i <= Len(all) /\ y = coll[Len(all)])
  <2>1. y \in Range(all) /\ y # x
    BY <1>1, <1>2, <1>4 DEF ReadAhead
  <2>2. PICK j \in 1..Len(coll') : j > Len(all) /\ coll'[j] = y
    BY <1>1, <1>3 DEF ReadAhead
  <2>3. CASE j \in 1..Len(coll) /\ coll'[j] = coll[j]
    BY <1>2, <2>1, <2>2, <2>3 DEF ReadAhead
  <2>4. CASE j > i /\ j - 1 \in i..Len(coll) /\ j - 1 \in 1..Len(coll) /\ coll'[j] = coll[j - 1]
    <3>1. j - 1 > Len(all) \/ (j - 1 = Len(all) /\ i <= Len(all))
      BY <1>2, <1>3, <2>2, <2>4
    <3> QED
      BY <1>2, <2>1, <2>2, <2>4, <3>1 DEF ReadAhead
  <2> QED
    BY <1>5, <2>1, <2>2, <2>3, <2>4
<1>12. RepeatsAreBounded'
  <2>1. CASE i <= Len(all)
    <3>1. ReadAhead' \subseteq ReadAhead \union {coll[Len(all)]}
      BY <1>11
    <3>2. Cardinality(ReadAhead') \in Nat /\ Cardinality(ReadAhead') <= Cardinality(ReadAhead) + 1
      BY <1>9, <3>1, OneMore
    <3>3. Len(all) - Cardinality(Range(all)) + Cardinality(ReadAhead') <= movedDown + 1
      BY <1>2, <1>9, <3>2
    <3> QED
      BY <1>1, <2>1, <3>3 DEF RepeatsAreBounded
  <2>2. CASE ~(i <= Len(all))
    <3>1. ReadAhead' \in SUBSET ReadAhead
      BY <1>11, <2>2
    <3>2. IsFiniteSet(ReadAhead') /\ Cardinality(ReadAhead') <= Cardinality(ReadAhead)
      BY <1>9, <3>1, FS_Subset
    <3>3. Cardinality(ReadAhead') \in Nat
      BY <3>2, FS_CardinalityType
    <3>4. Len(all) - Cardinality(Range(all)) + Cardinality(ReadAhead') <= movedDown
      BY <1>2, <1>9, <3>2, <3>3
    <3> QED
      BY <1>1, <2>2, <3>4 DEF RepeatsAreBounded
  <2> QED
    BY <2>1, <2>2
<1> QED
  BY <1>10, <1>12

\* A deletion behind the position pulls one entity that may be unread across
\* it.
LEMMA DeleteKeepsCounts ==
  ASSUME CountsInv, Change, Delete
  PROVE  (OnePlaceEach /\ PassesAreDeletions /\ RepeatsAreBounded)'
<1>1. UNCHANGED <<skipIgnored, start, all, pc>> /\ pc # "done"
  BY DEF Change, Ended
<1>2. /\ TypeOK /\ IsFiniteSet(gone)
      /\ Range(start) \subseteq Range(coll) \union gone
      /\ Range(all) \subseteq Range(coll) \union gone
      /\ IsInjective(coll) /\ Range(coll) \intersect gone = {}
      /\ coll \in Seq(Items) /\ DOMAIN coll = 1..Len(coll) /\ Len(coll) \in Nat
      /\ Len(all) \in Nat
  BY LenProperties DEF CountsInv, OnePlaceEach, WalkInv, TypeOK
<1> PICK i \in 1..Len(coll) :
           /\ coll' \in Seq(Items) /\ Len(coll') = Len(coll) - 1
           /\ \A k \in 1..(i - 1) : coll'[k] = coll[k]
           /\ \A k \in i..(Len(coll) - 1) : coll'[k] = coll[k + 1]
           /\ movedUp' = IF i <= Len(all) THEN movedUp + 1 ELSE movedUp
           /\ movedDown' = movedDown /\ gone' = gone \union {coll[i]}
  BY <1>2, Deleted
<1>3. DOMAIN coll' = 1..Len(coll') /\ Len(coll') \in Nat
  BY LenProperties
<1>4. coll[i] \notin gone /\ coll[i] \in Range(coll)
  BY <1>2 DEF Range
<1>5. ASSUME NEW j \in 1..Len(coll')
      PROVE  \/ j < i /\ j \in 1..Len(coll) /\ coll'[j] = coll[j]
             \/ j >= i /\ j + 1 \in 1..Len(coll) /\ coll'[j] = coll[j + 1]
  BY <1>2, <1>3
<1>6. ASSUME NEW j \in 1..Len(coll), j # i
      PROVE  coll[j] \in Range(coll')
  <2>1. CASE j < i
    <3>1. j \in 1..Len(coll') /\ coll'[j] = coll[j]
      BY <1>2, <1>3, <2>1
    <3> QED
      BY <1>3, <3>1 DEF Range
  <2>2. CASE j > i
    <3>1. j - 1 \in i..(Len(coll) - 1) /\ (j - 1) + 1 = j /\ j - 1 \in 1..Len(coll')
      BY <1>2, <1>3, <2>2
    <3>2. coll'[j - 1] = coll[j]
      BY <3>1
    <3> QED
      BY <1>3, <3>1, <3>2 DEF Range
  <2> QED
    BY <1>2, <1>6, <2>1, <2>2
<1>7. Range(coll') \union gone' = Range(coll) \union gone
  <2>1. ASSUME NEW y \in Range(coll)
        PROVE  y \in Range(coll') \union gone'
    <3>1. PICK j \in 1..Len(coll) : y = coll[j]
      BY <1>2 DEF Range
    <3> QED
      BY <1>6, <3>1
  <2>2. ASSUME NEW y \in Range(coll')
        PROVE  y \in Range(coll)
    <3>1. PICK j \in 1..Len(coll') : y = coll'[j]
      BY <1>3 DEF Range
    <3> QED
      BY <1>2, <1>5, <3>1 DEF Range
  <2> QED
    BY <1>4, <2>1, <2>2
<1>8. OnePlaceEach'
  <2>1. \A a, b \in 1..Len(coll) : coll[a] = coll[b] => a = b
    BY <1>2 DEF IsInjective
  <2>2. ASSUME NEW a \in 1..Len(coll'), NEW b \in 1..Len(coll'), coll'[a] = coll'[b]
        PROVE  a = b
    BY <1>2, <1>3, <1>5, <2>1, <2>2
  <2>3. IsInjective(coll')
    BY <1>3, <2>2 DEF IsInjective
  <2>4. ASSUME NEW a \in 1..Len(coll')
        PROVE  coll'[a] \notin gone'
    <3>1. PICK b \in 1..Len(coll) : b # i /\ coll'[a] = coll[b]
      BY <1>2, <1>3, <1>5
    <3>2. coll[b] # coll[i] /\ coll[b] \notin gone
      BY <1>2, <2>1, <3>1 DEF Range
    <3> QED
      BY <3>1, <3>2
  <2>5. Range(coll') \intersect gone' = {}
    BY <1>3, <2>4 DEF Range
  <2>6. IsFiniteSet(gone')
    BY <1>2, FS_AddElement
  <2> QED
    BY <1>1, <1>2, <1>7, <2>3, <2>5, <2>6 DEF OnePlaceEach
<1> SUFFICES ASSUME ~skipIgnored
             PROVE  (PassesAreDeletions /\ RepeatsAreBounded)'
  BY <1>1, <1>8 DEF PassesAreDeletions, RepeatsAreBounded
<1>9. /\ movedUp \in Nat /\ movedDown \in Nat
      /\ IsFiniteSet(PassedOver) /\ Cardinality(PassedOver) \in Nat
      /\ Cardinality(PassedOver) <= movedUp
      /\ Cardinality(Range(all)) \in Nat
      /\ IsFiniteSet(ReadAhead) /\ Cardinality(ReadAhead) \in Nat
      /\ Len(all) - Cardinality(Range(all)) + Cardinality(ReadAhead) <= movedDown
  BY <1>1, StillReading
\* What is passed over now, and was not, has been pulled across the position.
<1>10. ASSUME NEW y \in Missed'
       PROVE  y \in PassedOver \/ (i <= Len(all) /\ y = coll[Len(all) + 1])
  <2>1. y \in Range(start) \ (gone \union Range(all))
    BY <1>1 DEF Missed, PassedOver
  <2>2. PICK j \in 1..Len(coll') : j <= Len(all) /\ coll'[j] = y
    BY <1>1, <1>3 DEF Missed, PassedOver
  <2>3. CASE j \in 1..Len(coll) /\ coll'[j] = coll[j]
    BY <1>2, <2>1, <2>2, <2>3 DEF PassedOver
  <2>4. CASE j >= i /\ j + 1 \in 1..Len(coll) /\ coll'[j] = coll[j + 1]
    <3>1. j + 1 <= Len(all) \/ (j + 1 = Len(all) + 1 /\ i <= Len(all))
      BY <1>2, <1>3, <2>2, <2>4
    <3> QED
      BY <1>2, <2>1, <2>2, <2>4, <3>1 DEF PassedOver
  <2> QED
    BY <1>5, <2>3, <2>4
<1>11. PassesAreDeletions'
  <2>1. CASE i <= Len(all)
    <3>1. Missed' \subseteq PassedOver \union {coll[Len(all) + 1]}
      BY <1>10
    <3>2. Cardinality(Missed') \in Nat /\ Cardinality(Missed') <= Cardinality(PassedOver) + 1
      BY <1>9, <3>1, OneMore
    <3>3. Cardinality(Missed') <= movedUp + 1
      BY <1>9, <3>2
    <3> QED
      BY <2>1, <3>3 DEF PassesAreDeletions
  <2>2. CASE ~(i <= Len(all))
    <3>1. Missed' \in SUBSET PassedOver
      BY <1>10, <2>2
    <3>2. IsFiniteSet(Missed') /\ Cardinality(Missed') <= Cardinality(PassedOver)
      BY <1>9, <3>1, FS_Subset
    <3>3. Cardinality(Missed') \in Nat
      BY <3>2, FS_CardinalityType
    <3>4. Cardinality(Missed') <= movedUp
      BY <1>9, <3>2, <3>3
    <3> QED
      BY <2>2, <3>4 DEF PassesAreDeletions
  <2> QED
    BY <2>1, <2>2
<1>12. RepeatsAreBounded'
  <2>1. ASSUME NEW y \in ReadAhead'
        PROVE  y \in ReadAhead
    <3>1. y \in Range(all)
      BY <1>1 DEF ReadAhead
    <3>2. PICK j \in 1..Len(coll') : j > Len(all) /\ coll'[j] = y
      BY <1>1, <1>3 DEF ReadAhead
    <3>3. \E k \in 1..Len(coll) : k > Len(all) /\ coll[k] = y
      BY <1>2, <1>5, <3>2
    <3> QED
      BY <1>2, <3>1, <3>3 DEF ReadAhead
  <2>2. ReadAhead' \in SUBSET ReadAhead
    BY <2>1
  <2>3. IsFiniteSet(ReadAhead') /\ Cardinality(ReadAhead') <= Cardinality(ReadAhead)
    BY <1>9, <2>2, FS_Subset
  <2>4. Cardinality(ReadAhead') \in Nat
    BY <2>3, FS_CardinalityType
  <2>5. Len(all) - Cardinality(Range(all)) + Cardinality(ReadAhead') <= movedDown
    BY <1>2, <1>9, <2>3, <2>4
  <2> QED
    BY <1>1, <2>5 DEF RepeatsAreBounded
<1> QED
  BY <1>11, <1>12

LEMMA CountsStep ==
  ASSUME CountsInv, [Next]_vars
  PROVE  CountsInv'
<1>1. WalkInv'
  BY WalkStep DEF CountsInv
<1>2. CASE FetchLast \/ FetchFull
  BY <1>1, <1>2, FetchKeepsCounts DEF CountsInv
<1>3. CASE Change
  BY <1>1, <1>3, CreateKeepsCounts, DeleteKeepsCounts DEF Change, CountsInv
<1>4. CASE CheckContext \/ FetchFails \/ Cancel \/ UNCHANGED vars
  <2>1. UNCHANGED <<coll, skipIgnored, start, gone, movedUp, movedDown, all>>
    BY <1>4 DEF CheckContext, FetchFails, Cancel, vars, serverVars
  <2>2. pc' = "done" <=> pc = "done"
    BY <1>4 DEF CheckContext, FetchFails, Cancel, vars, serverVars
  <2>3. UNCHANGED <<Missed, ReadAhead>>
    BY <2>1, <2>2 DEF Missed, PassedOver, ReadAhead
  <2>4. OnePlaceEach'
    BY <2>1 DEF CountsInv, OnePlaceEach
  <2>5. PassesAreDeletions'
    BY <2>1, <2>3 DEF CountsInv, PassesAreDeletions
  <2>6. RepeatsAreBounded'
    BY <2>1, <2>3 DEF CountsInv, RepeatsAreBounded
  <2> QED
    BY <1>1, <2>4, <2>5, <2>6 DEF CountsInv
<1> QED
  BY <1>2, <1>3, <1>4 DEF Next, Walk

LEMMA CountsInvariance == SafetySpec => []CountsInv
  BY CountsInit, CountsStep, PTL DEF SafetySpec

LEMMA CountsMean == CountsInv => MissesAreDeletions /\ RepeatsAreCreations
<1> SUFFICES ASSUME CountsInv
             PROVE  MissesAreDeletions /\ RepeatsAreCreations
  OBVIOUS
<1>1. TypeOK
  BY DEF CountsInv, WalkInv
<1>2. /\ Cardinality(ReadAhead) \in Nat /\ Cardinality(Range(all)) \in Nat
      /\ Len(all) \in Nat /\ movedDown \in Nat
  BY <1>1, CountedSetsFinite, FS_CardinalityType, LenProperties DEF TypeOK
<1>3. ASSUME ~skipIgnored
      PROVE  Len(all) - Cardinality(Range(all)) <= movedDown
  BY <1>2, <1>3 DEF CountsInv, RepeatsAreBounded
<1> QED
  BY <1>3 DEF CountsInv, PassesAreDeletions, Missed, MissesAreDeletions, RepeatsAreCreations

\* Wherever entities are created and deleted during a ListAll: it misses at
\* most one that was there from beginning to end for each that was deleted
\* behind its position.
THEOREM MissesAlwaysDeletions == SafetySpec => []MissesAreDeletions
  BY CountsInvariance, CountsMean, PTL

\* And it returns at most one again for each that was created behind its
\* position, at every page of the walk.
THEOREM RepeatsAlwaysCreations == SafetySpec => []RepeatsAreCreations
  BY CountsInvariance, CountsMean, PTL

\* The limit ends no walk that was about to finish: where $skip is honoured,
\* there were as many entities as fill the pages it allows, but for those
\* that were read again because others were created behind the position.
THEOREM LimitAlwaysEarned == SafetySpec => []LimitIsEarned
<1>1. CountsInv => LimitIsEarned
  <2> SUFFICES ASSUME CountsInv, pc = "limit", ~skipIgnored
               PROVE  MaxPages * PageSize <= Cardinality(Range(coll) \union gone) + movedDown
    BY DEF LimitIsEarned
  <2>1. TypeOK /\ RepeatsAreCreations /\ Len(all) = MaxPages * PageSize
    BY CountsMean DEF CountsInv, WalkInv, FullPagesSoFar
  <2>2. Len(all) - Cardinality(Range(all)) <= movedDown
    BY <2>1 DEF RepeatsAreCreations
  <2>3. IsFiniteSet(Range(coll)) /\ IsFiniteSet(gone) /\ Range(all) \subseteq Range(coll) \union gone
    BY <2>1, RangeCount DEF TypeOK, CountsInv, OnePlaceEach
  <2>4. IsFiniteSet(Range(coll) \union gone) /\ Range(all) \in SUBSET (Range(coll) \union gone)
    BY <2>3, FS_Union
  <2>5. /\ Cardinality(Range(all)) <= Cardinality(Range(coll) \union gone)
        /\ Cardinality(Range(coll) \union gone) \in Nat
    BY <2>4, FS_Subset, FS_CardinalityType
  <2>6. Cardinality(Range(all)) \in Nat /\ Len(all) \in Nat /\ movedDown \in Nat
    BY <2>1, RangeCount, LenProperties DEF TypeOK
  <2>7. Len(all) <= Cardinality(Range(coll) \union gone) + movedDown
    BY <2>2, <2>5, <2>6
  <2> QED
    BY <2>1, <2>7
<1> QED
  BY CountsInvariance, <1>1, PTL

\* So a ListAll returns everything that was there all the time, unless
\* something was deleted behind its position, and nothing twice, unless
\* something was created there.
THEOREM UnmovedMeansExact ==
  SafetySpec => [](~skipIgnored =>
     /\ pc = "done" /\ movedUp = 0 => Range(start) \ gone \subseteq Range(all)
     /\ movedDown = 0 => IsInjective(all))
<1>1. ASSUME CountsInv, ~skipIgnored
      PROVE  /\ pc = "done" /\ movedUp = 0 => Range(start) \ gone \subseteq Range(all)
             /\ movedDown = 0 => IsInjective(all)
  <2>1. /\ TypeOK /\ MissesAreDeletions /\ RepeatsAreCreations
    BY <1>1, CountsMean DEF CountsInv, WalkInv
  <2>2. ASSUME pc = "done", movedUp = 0
        PROVE  Range(start) \ gone \subseteq Range(all)
    <3> DEFINE missed == Range(start) \ (gone \union Range(all))
    <3>1. missed \in SUBSET Range(start) /\ IsFiniteSet(Range(start))
      BY <2>1, RangeCount DEF TypeOK
    <3>2. Cardinality(missed) <= 0
      BY <1>1, <2>1, <2>2 DEF MissesAreDeletions
    <3> HIDE DEF missed
    <3>3. IsFiniteSet(missed) /\ Cardinality(missed) \in Nat
      BY <3>1, FS_Subset, FS_CardinalityType
    <3>4. missed = {}
      BY <3>2, <3>3, FS_EmptySet
    <3> QED
      BY <3>4 DEF missed
  <2>3. ASSUME movedDown = 0
        PROVE  IsInjective(all)
    <3>1. Len(all) - Cardinality(Range(all)) <= 0
      BY <1>1, <2>1, <2>3 DEF RepeatsAreCreations
    <3>2. /\ Len(all) \in Nat /\ Cardinality(Range(all)) \in Nat
          /\ Cardinality(Range(all)) <= Len(all)
          /\ Cardinality(Range(all)) = Len(all) <=> IsInjective(all)
      BY <2>1, RangeCount, LenProperties DEF TypeOK
    <3> QED
      BY <3>1, <3>2
  <2> QED
    BY <2>2, <2>3
<1> QED
  BY CountsInvariance, <1>1, PTL
=============================================================================
