--------------------------- MODULE NameLookupProofs ---------------------------
(***************************************************************************)
(* Theorems about lookupByNamePaginated and findByName, for collections,   *)
(* names and page sizes of any size and any changes during a lookup.       *)
(***************************************************************************)
EXTENDS NameLookup, PagingProofs

(***************************************************************************)
(* What the scan of a page finds.                                          *)
(***************************************************************************)
\* x is the first of the first n entities of s whose name is of a kind, None
\* if there is none.
FirstIn(s, n, kind, x) ==
    \/ x = None /\ \A i \in 1..n : name[s[i]] # kind
    \/ \E i \in 1..n : /\ x = s[i] /\ name[x] = kind
                       /\ \A j \in 1..(i - 1) : name[s[j]] # kind

LEMMA FirstNamedIsFirst ==
  ASSUME NEW s \in Seq(Items), NEW kind
  PROVE  FirstIn(s, Len(s), kind, FirstNamed(s, kind))
<1> DEFINE at == {i \in DOMAIN s : name[s[i]] = kind}
<1>1. DOMAIN s = 1..Len(s) /\ Len(s) \in Nat
  BY LenProperties
<1>2. CASE at = {}
  BY <1>1, <1>2 DEF FirstNamed, FirstIn
<1>3. CASE at # {}
  <2>1. at \in SUBSET Nat
    BY <1>1
  <2>2. \E i \in at : \A j \in at : i <= j
    <3> HIDE DEF at
    <3> QED
      BY <1>3, <2>1, LeastExists
  <2> DEFINE first == CHOOSE i \in at : \A j \in at : i <= j
  <2>3. first \in at /\ \A j \in at : first <= j
    BY <2>2
  <2>4. FirstNamed(s, kind) = s[first]
    BY <1>3 DEF FirstNamed
  <2> HIDE DEF first
  <2>5. first \in 1..Len(s) /\ name[s[first]] = kind
    BY <1>1, <2>3
  <2>6. \A j \in 1..(first - 1) : name[s[j]] # kind
    BY <1>1, <2>3, <2>5
  <2> QED
    BY <2>4, <2>5, <2>6 DEF FirstIn
<1> QED
  BY <1>2, <1>3

LEMMA FirstIsUnique ==
  ASSUME NEW s \in Seq(Items), NEW n \in 0..Len(s), NEW kind,
         NEW x, FirstIn(s, n, kind, x), NEW y, FirstIn(s, n, kind, y)
  PROVE  x = y
<1>1. Len(s) \in Nat /\ \A i \in 1..n : s[i] \in Items
  BY LenProperties, ElementOfSeq
<1>2. CASE x = None \/ y = None
  BY <1>1, <1>2, NoneAssumption DEF FirstIn
<1>3. CASE x # None /\ y # None
  <2> PICK i \in 1..n : x = s[i] /\ name[x] = kind /\ \A k \in 1..(i - 1) : name[s[k]] # kind
    BY <1>3 DEF FirstIn
  <2> PICK j \in 1..n : y = s[j] /\ name[y] = kind /\ \A k \in 1..(j - 1) : name[s[k]] # kind
    BY <1>3 DEF FirstIn
  <2>1. ~(i < j) /\ ~(j < i)
    BY <1>1
  <2> QED
    BY <1>1, <2>1
<1> QED
  BY <1>2, <1>3

LEMMA FirstNamedNone ==
  ASSUME NEW s \in Seq(Items), NEW kind
  PROVE  /\ FirstNamed(s, kind) = None => \A i \in 1..Len(s) : name[s[i]] # kind
         /\ FirstNamed(s, kind) # None =>
               FirstNamed(s, kind) \in Items /\ name[FirstNamed(s, kind)] = kind
<1>1. \A i \in 1..Len(s) : s[i] \in Items
  BY ElementOfSeq
<1>2. FirstIn(s, Len(s), kind, FirstNamed(s, kind))
  BY FirstNamedIsFirst
<1> QED
  BY <1>1, <1>2, NoneAssumption DEF FirstIn

\* What is not touched by a change is scanned as before.
LEMMA FirstInSame ==
  ASSUME NEW s, NEW t, NEW n \in Nat, \A i \in 1..n : t[i] = s[i],
         NEW kind, NEW x, FirstIn(s, n, kind, x)
  PROVE  FirstIn(t, n, kind, x)
<1>1. CASE x = None /\ \A i \in 1..n : name[s[i]] # kind
  BY <1>1 DEF FirstIn
<1>2. ASSUME NEW i \in 1..n, x = s[i], name[x] = kind, \A j \in 1..(i - 1) : name[s[j]] # kind
      PROVE  FirstIn(t, n, kind, x)
  <2>1. \A j \in 1..(i - 1) : j \in 1..n
    OBVIOUS
  <2>2. x = t[i] /\ \A j \in 1..(i - 1) : name[t[j]] # kind
    BY <1>2, <2>1
  <2> QED
    BY <1>2, <2>2 DEF FirstIn
<1> QED
  BY <1>1, <1>2 DEF FirstIn

\* A page the server honours $skip for brings what comes after the first skip.
LEMMA ServedProperties ==
  ASSUME TypeOK
  PROVE  /\ Served \in Seq(Items) /\ Len(Served) \in Nat /\ Len(coll) \in Nat
         /\ ~skipIgnored =>
               /\ Len(Served) = 0 \/ skip + Len(Served) <= Len(coll)
               /\ Len(Served) = PageSize \/ Len(coll) <= skip + Len(Served)
               /\ \A i \in 1..Len(Served) : Served[i] = coll[skip + i]
<1> DEFINE offset == IF skipIgnored THEN 0 ELSE skip
<1>1. /\ coll \in Seq(Items) /\ PageSize \in Nat /\ Len(coll) \in Nat
      /\ offset \in Nat /\ skipIgnored \in BOOLEAN
  BY PageSizeAssumption, LenProperties DEF TypeOK
<1>2. Served = Page(coll, PageSize, offset)
  BY DEF Served
<1>3. ~skipIgnored => offset = skip
  BY <1>1
<1> HIDE DEF offset
<1>4. /\ Served \in Seq(Items) /\ Len(Served) \in 0..PageSize
      /\ Len(Served) = 0 \/ offset + Len(Served) <= Len(coll)
      /\ Len(Served) = PageSize \/ Len(coll) <= offset + Len(Served)
      /\ \A i \in 1..Len(Served) : Served[i] = coll[offset + i]
  BY <1>1, <1>2, PageProperties
<1> QED
  BY <1>1, <1>3, <1>4

\* The scan of the next page goes on where those of the pages before it ended.
LEMMA PageScanned ==
  ASSUME TypeOK, ~skipIgnored, skip <= Len(coll),
         NEW kind, FirstIn(coll, skip, kind, None)
  PROVE  FirstIn(coll, skip + Len(Served), kind, FirstNamed(Served, kind))
<1> DEFINE n == Len(Served)
           f == FirstNamed(Served, kind)
<1>1. /\ n \in Nat /\ skip \in Nat /\ Len(coll) \in Nat /\ skip + n <= Len(coll)
      /\ \A i \in 1..n : Served[i] = coll[skip + i]
  BY ServedProperties DEF TypeOK
<1>2. FirstIn(Served, n, kind, f)
  BY ServedProperties, FirstNamedIsFirst
<1>3. \A i \in 1..skip : name[coll[i]] # kind
  <2>1. \A i \in 1..skip : coll[i] # None
    BY <1>1, ElementOfSeq, NoneAssumption DEF TypeOK
  <2> QED
    BY <2>1 DEF FirstIn
<1> HIDE DEF n, f
<1>4. CASE f = None /\ \A i \in 1..n : name[Served[i]] # kind
  <2>1. ASSUME NEW i \in 1..(skip + n)
        PROVE  name[coll[i]] # kind
    <3>1. CASE i <= skip
      BY <1>1, <1>3, <3>1
    <3>2. CASE ~(i <= skip)
      <4>1. i - skip \in 1..n /\ skip + (i - skip) = i
        BY <1>1, <3>2
      <4>2. Served[i - skip] = coll[i]
        BY <1>1, <4>1
      <4> QED
        BY <1>4, <4>1, <4>2
    <3> QED
      BY <3>1, <3>2
  <2>2. FirstIn(coll, skip + n, kind, f)
    BY <1>4, <2>1 DEF FirstIn
  <2> QED
    BY <2>2 DEF n, f
<1>5. ASSUME NEW i \in 1..n, f = Served[i], name[f] = kind,
             \A j \in 1..(i - 1) : name[Served[j]] # kind
      PROVE  FirstIn(coll, skip + n, kind, f)
  <2>1. skip + i \in 1..(skip + n) /\ f = coll[skip + i]
    BY <1>1, <1>5
  <2>2. ASSUME NEW j \in 1..((skip + i) - 1)
        PROVE  name[coll[j]] # kind
    <3>1. CASE j <= skip
      BY <1>1, <1>3, <3>1
    <3>2. CASE ~(j <= skip)
      <4>1. j - skip \in 1..(i - 1) /\ j - skip \in 1..n /\ skip + (j - skip) = j
        BY <1>1, <3>2
      <4>2. Served[j - skip] = coll[j]
        BY <1>1, <4>1
      <4> QED
        BY <1>5, <4>1, <4>2
    <3> QED
      BY <3>1, <3>2
  <2> QED
    BY <1>5, <2>1, <2>2 DEF FirstIn
<1>6. FirstIn(coll, skip + n, kind, f)
  <2>1. CASE \E i \in 1..n : /\ f = Served[i] /\ name[f] = kind
                             /\ \A j \in 1..(i - 1) : name[Served[j]] # kind
    BY <1>5, <2>1
  <2>2. CASE f = None /\ \A i \in 1..n : name[Served[i]] # kind
    BY <1>4, <2>2 DEF n, f
  <2> QED
    BY <1>2, <2>1, <2>2 DEF FirstIn
<1> QED
  BY <1>6 DEF n, f

\* What has been found first stays the first.
LEMMA FirstInMore ==
  ASSUME NEW s, NEW n \in Nat, NEW m \in Nat, n <= m,
         NEW kind, NEW x, x # None, FirstIn(s, n, kind, x)
  PROVE  FirstIn(s, m, kind, x)
<1>1. PICK i \in 1..n : /\ x = s[i] /\ name[x] = kind
                        /\ \A j \in 1..(i - 1) : name[s[j]] # kind
  BY DEF FirstIn
<1>2. i \in 1..m
  OBVIOUS
<1> QED
  BY <1>1, <1>2 DEF FirstIn

LEMMA FuzzyScanned ==
  ASSUME TypeOK, ~skipIgnored, skip <= Len(coll), FirstIn(coll, skip, "fold", fuzzy)
  PROVE  FirstIn(coll, skip + Len(Served), "fold", FuzzyAfter(Served))
<1>1. CASE fuzzy = None
  BY <1>1, PageScanned DEF FuzzyAfter
<1>2. CASE fuzzy # None
  <2>1. skip \in Nat /\ skip + Len(Served) \in Nat /\ skip <= skip + Len(Served)
    BY ServedProperties DEF TypeOK
  <2>2. FirstIn(coll, skip + Len(Served), "fold", fuzzy)
    BY <1>2, <2>1, FirstInMore
  <2> QED
    BY <1>2, <2>2 DEF FuzzyAfter
<1> QED
  BY <1>1, <1>2

(***************************************************************************)
(* What a change does to the places of the other entities.                 *)
(***************************************************************************)
LEMMA Created ==
  ASSUME TypeOK, Create
  PROVE  \E x \in Fresh, i \in 1..(Len(coll) + 1) :
            /\ coll' \in Seq(Items) /\ Len(coll') = Len(coll) + 1
            /\ \A k \in 1..(i - 1) : coll'[k] = coll[k]
            /\ coll'[i] = x
            /\ \A k \in i..Len(coll) : coll'[k + 1] = coll[k]
            /\ moved' = IF i <= skip THEN moved \union {"down"} ELSE moved
            /\ gone' = gone
<1> PICK x \in Fresh, i \in 1..(Len(coll) + 1) :
           /\ coll' = WithAt(coll, i, x)
           /\ moved' = IF i <= skip THEN moved \union {"down"} ELSE moved
           /\ gone' = gone
  BY DEF Create
<1>1. coll \in Seq(Items) /\ x \in Items
  BY DEF TypeOK, Fresh
<1>2. /\ coll' \in Seq(Items) /\ Len(coll') = Len(coll) + 1
      /\ \A k \in 1..(i - 1) : coll'[k] = coll[k]
      /\ coll'[i] = x
      /\ \A k \in i..Len(coll) : coll'[k + 1] = coll[k]
  <2> DEFINE new == WithAt(coll, i, x)
  <2>1. /\ new \in Seq(Items) /\ Len(new) = Len(coll) + 1
        /\ \A k \in 1..(i - 1) : new[k] = coll[k]
        /\ new[i] = x
        /\ \A k \in i..Len(coll) : new[k + 1] = coll[k]
    BY <1>1, WithAtProperties
  <2>2. coll' = new
    OBVIOUS
  <2> HIDE DEF new
  <2> QED
    BY <2>1, <2>2
<1> QED
  BY <1>2

LEMMA Deleted ==
  ASSUME TypeOK, Delete
  PROVE  \E i \in 1..Len(coll) :
            /\ coll' \in Seq(Items) /\ Len(coll') = Len(coll) - 1
            /\ \A k \in 1..(i - 1) : coll'[k] = coll[k]
            /\ \A k \in i..(Len(coll) - 1) : coll'[k] = coll[k + 1]
            /\ moved' = IF i <= skip THEN moved \union {"up"} ELSE moved
            /\ gone' = gone \union {coll[i]} /\ coll[i] \in Items
<1>1. DOMAIN coll = 1..Len(coll)
  BY LenProperties DEF TypeOK
<1> PICK i \in 1..Len(coll) :
           /\ coll' = Without(coll, i)
           /\ moved' = IF i <= skip THEN moved \union {"up"} ELSE moved
           /\ gone' = gone \union {coll[i]}
  BY <1>1 DEF Delete
<1>2. coll \in Seq(Items) /\ coll[i] \in Items
  BY ElementOfSeq DEF TypeOK
<1>3. /\ coll' \in Seq(Items) /\ Len(coll') = Len(coll) - 1
      /\ \A k \in 1..(i - 1) : coll'[k] = coll[k]
      /\ \A k \in i..(Len(coll) - 1) : coll'[k] = coll[k + 1]
  BY <1>2, WithoutProperties
<1> QED
  BY <1>2, <1>3

(***************************************************************************)
(* Types.                                                                  *)
(***************************************************************************)
LEMMA TypeInit == Init => TypeOK
<1> SUFFICES ASSUME Init
             PROVE  TypeOK
  OBVIOUS
<1>1. coll \in Seq(Items) /\ name \in [Items -> NameKinds]
  BY CollectionsAssumption, NamesAssumption DEF Init
<1> QED
  BY <1>1 DEF Init, TypeOK

\* The best name in another case is one of this name, in another case.
LEMMA FuzzyAfterType ==
  ASSUME TypeOK
  PROVE  FuzzyAfter(Served) \in {x \in Items : name[x] = "fold"} \union {None}
<1>1. CASE fuzzy = None
  <2>1. FirstNamed(Served, "fold") \in {x \in Items : name[x] = "fold"} \union {None}
    BY ServedProperties, FirstNamedNone
  <2> QED
    BY <1>1, <2>1 DEF FuzzyAfter
<1>2. CASE fuzzy # None
  BY <1>2 DEF FuzzyAfter, TypeOK
<1> QED
  BY <1>1, <1>2

LEMMA TypeStep ==
  ASSUME TypeOK, [Next]_vars
  PROVE  TypeOK'
<1> USE PageSizeAssumption DEF serverVars
<1>1. CASE FindsExact
  <2>1. result' \in {x \in Items : name[x] # "other"}
    BY <1>1, ServedProperties, FirstNamedNone DEF FindsExact
  <2> QED
    BY <1>1, <2>1 DEF FindsExact, TypeOK
<1>2. CASE ReadsOn
  <2>1. fuzzy' \in {x \in Items : name[x] = "fold"} \union {None} /\ skip' \in Nat
    BY <1>2, FuzzyAfterType DEF ReadsOn, TypeOK
  <2> QED
    BY <1>2, <2>1 DEF ReadsOn, TypeOK
<1>3. CASE EndsWithoutExact
  <2>1. fuzzy' \in {x \in Items : name[x] = "fold"} \union {None}
    BY <1>3, FuzzyAfterType DEF EndsWithoutExact
  <2> QED
    BY <1>3, <2>1 DEF EndsWithoutExact, TypeOK
<1>4. CASE FetchFails
  BY <1>4 DEF FetchFails, TypeOK
<1>5. CASE Change
  <2>1. coll' \in Seq(Items) /\ gone' \subseteq Items /\ moved' \subseteq {"up", "down"}
    <3>1. CASE Create
      BY <3>1, Created DEF TypeOK
    <3>2. CASE Delete
      BY <3>2, Deleted DEF TypeOK
    <3> QED
      BY <1>5, <3>1, <3>2 DEF Change
  <2> QED
    BY <1>5, <2>1 DEF Change, TypeOK
<1>6. CASE UNCHANGED vars
  BY <1>6 DEF vars, TypeOK
<1> QED
  BY <1>1, <1>2, <1>3, <1>4, <1>5, <1>6 DEF Next, Lookup, Answered

\* The variables keep their types; in particular what a lookup returns has
\* the name that was asked for, in this case or another.
THEOREM LookupTypeCorrect == SafetySpec => []TypeOK
  BY TypeInit, TypeStep, PTL DEF SafetySpec

(***************************************************************************)
(* The snapshot: as long as no entity has moved across the lookup's        *)
(* position, what it knows is the scan of what the collection begins with. *)
(***************************************************************************)
ScansThePrefix ==
    ~skipIgnored /\ moved = {} =>
        /\ pc = "fetch" =>
              /\ skip <= Len(coll)
              /\ FirstIn(coll, skip, "exact", None)
              /\ FirstIn(coll, skip, "fold", fuzzy)
        /\ pc = "done" =>
              \/ result # None /\ FirstIn(coll, Len(coll), "exact", result)
              \/ /\ FirstIn(coll, Len(coll), "exact", None)
                 /\ FirstIn(coll, Len(coll), "fold", result)

SnapshotInv == TypeOK /\ ScansThePrefix

LEMMA SnapshotInit == Init => SnapshotInv
<1> SUFFICES ASSUME Init
             PROVE  SnapshotInv
  OBVIOUS
<1>1. TypeOK
  BY TypeInit
<1>2. Len(coll) \in Nat /\ skip = 0 /\ pc = "fetch" /\ fuzzy = None
  BY <1>1, LenProperties DEF Init, TypeOK
<1> QED
  BY <1>1, <1>2 DEF SnapshotInv, ScansThePrefix, FirstIn

\* A change in front of the lookup's position leaves the scan as it is.
LEMMA ChangeKeepsScan ==
  ASSUME SnapshotInv, Change
  PROVE  ScansThePrefix'
<1> SUFFICES ASSUME ~skipIgnored, moved' = {}
             PROVE  /\ skip <= Len(coll')
                    /\ FirstIn(coll', skip, "exact", None)
                    /\ FirstIn(coll', skip, "fold", fuzzy)
  <2>1. UNCHANGED <<skipIgnored, skip, fuzzy, name, pc>> /\ pc = "fetch"
    BY DEF Change
  <2> QED
    BY <2>1 DEF ScansThePrefix, FirstIn
<1>1. coll \in Seq(Items) /\ Len(coll) \in Nat /\ skip \in Nat
  BY LenProperties DEF SnapshotInv, TypeOK
<1>2. moved = {} /\ skip <= Len(coll') /\ \A k \in 1..skip : coll'[k] = coll[k]
  <2>1. CASE Create
    <3> PICK i \in 1..(Len(coll) + 1) :
               /\ Len(coll') = Len(coll) + 1
               /\ \A k \in 1..(i - 1) : coll'[k] = coll[k]
               /\ moved' = IF i <= skip THEN moved \union {"down"} ELSE moved
      BY <2>1, Created DEF SnapshotInv
    <3>1. moved = {} /\ ~(i <= skip)
      OBVIOUS
    <3>2. skip <= Len(coll)
      BY <3>1 DEF Change, SnapshotInv, ScansThePrefix
    <3> QED
      BY <1>1, <3>1, <3>2
  <2>2. CASE Delete
    <3> PICK i \in 1..Len(coll) :
               /\ Len(coll') = Len(coll) - 1
               /\ \A k \in 1..(i - 1) : coll'[k] = coll[k]
               /\ moved' = IF i <= skip THEN moved \union {"up"} ELSE moved
      BY <2>2, Deleted DEF SnapshotInv
    <3>1. moved = {} /\ ~(i <= skip)
      OBVIOUS
    <3> QED
      BY <1>1, <3>1
  <2> QED
    BY <2>1, <2>2 DEF Change
<1>3. FirstIn(coll, skip, "exact", None) /\ FirstIn(coll, skip, "fold", fuzzy)
  BY <1>2 DEF Change, SnapshotInv, ScansThePrefix
<1> QED
  BY <1>1, <1>2, <1>3, FirstInSame

LEMMA SnapshotStep ==
  ASSUME SnapshotInv, [Next]_vars
  PROVE  SnapshotInv'
<1>1. TypeOK'
  BY TypeStep DEF SnapshotInv
<1>2. ASSUME ~skipIgnored, moved = {}, pc = "fetch"
      PROVE  /\ FirstIn(coll, skip + Len(Served), "exact", FirstNamed(Served, "exact"))
             /\ FirstIn(coll, skip + Len(Served), "fold", FuzzyAfter(Served))
             /\ Len(Served) = PageSize => skip + PageSize <= Len(coll)
             /\ Len(Served) < PageSize => skip + Len(Served) = Len(coll)
             /\ skip + Len(Served) \in 0..Len(coll)
  <2>1. /\ TypeOK /\ skip <= Len(coll)
        /\ FirstIn(coll, skip, "exact", None) /\ FirstIn(coll, skip, "fold", fuzzy)
    BY <1>2 DEF SnapshotInv, ScansThePrefix
  <2>2. skip \in Nat /\ PageSize \in Nat
    BY <2>1, PageSizeAssumption DEF TypeOK
  <2> QED
    BY <1>2, <2>1, <2>2, PageScanned, FuzzyScanned, ServedProperties
<1>3. ScansThePrefix'
  <2>1. CASE FindsExact
    <3> SUFFICES ASSUME ~skipIgnored, moved = {}
                 PROVE  result' # None /\ FirstIn(coll, Len(coll), "exact", result')
      BY <2>1 DEF FindsExact, serverVars, ScansThePrefix, FirstIn
    <3> DEFINE n == skip + Len(Served)
    <3>1. /\ result' # None /\ FirstIn(coll, n, "exact", result')
          /\ n \in Nat /\ Len(coll) \in Nat /\ n <= Len(coll)
      BY <1>2, <2>1, ServedProperties DEF FindsExact, SnapshotInv
    <3> HIDE DEF n
    <3> QED
      BY <3>1, FirstInMore
  <2>2. CASE ReadsOn
    <3> SUFFICES ASSUME ~skipIgnored, moved = {}
                 PROVE  /\ skip' <= Len(coll)
                        /\ FirstIn(coll, skip', "exact", None)
                        /\ FirstIn(coll, skip', "fold", fuzzy')
      BY <2>2 DEF ReadsOn, serverVars, ScansThePrefix, FirstIn
    <3>1. /\ skip' = skip + Len(Served) /\ fuzzy' = FuzzyAfter(Served)
          /\ FirstNamed(Served, "exact") = None /\ pc = "fetch"
          /\ Len(Served) = PageSize
      BY <2>2 DEF ReadsOn
    <3> QED
      BY <1>2, <3>1
  <2>3. CASE EndsWithoutExact
    <3> SUFFICES ASSUME ~skipIgnored, moved = {}
                 PROVE  /\ FirstIn(coll, Len(coll), "exact", None)
                        /\ FirstIn(coll, Len(coll), "fold", result')
      BY <2>3 DEF EndsWithoutExact, serverVars, ScansThePrefix, FirstIn
    <3>1. /\ result' = FuzzyAfter(Served) /\ FirstNamed(Served, "exact") = None
          /\ pc = "fetch" /\ Len(Served) < PageSize
      BY <2>3 DEF EndsWithoutExact
    <3> QED
      BY <1>2, <3>1
  <2>4. CASE FetchFails
    BY <2>4 DEF FetchFails, ScansThePrefix
  <2>5. CASE Change
    BY <2>5, ChangeKeepsScan
  <2>6. CASE UNCHANGED vars
    BY <2>6 DEF vars, serverVars, SnapshotInv, ScansThePrefix, FirstIn
  <2> QED
    BY <2>1, <2>2, <2>3, <2>4, <2>5, <2>6 DEF Next, Lookup, Answered
<1> QED
  BY <1>1, <1>3 DEF SnapshotInv

\* Wherever the pages break and whatever changes in front of the lookup's
\* position, what it returns is the best match of the collection as it is
\* when the last page is served.
THEOREM LookupAlwaysASnapshot == SafetySpec => []LookupIsASnapshot
<1>1. SnapshotInv => LookupIsASnapshot
  <2> SUFFICES ASSUME SnapshotInv, pc = "done", ~skipIgnored, moved = {}
               PROVE  result = BestMatch(coll)
    BY DEF LookupIsASnapshot
  <2>1. coll \in Seq(Items) /\ Len(coll) \in 0..Len(coll)
    BY LenProperties DEF SnapshotInv, TypeOK
  <2>2. /\ FirstIn(coll, Len(coll), "exact", FirstNamed(coll, "exact"))
        /\ FirstIn(coll, Len(coll), "fold", FirstNamed(coll, "fold"))
    BY <2>1, FirstNamedIsFirst
  <2>3. CASE result # None /\ FirstIn(coll, Len(coll), "exact", result)
    <3>1. result = FirstNamed(coll, "exact")
      BY <2>1, <2>2, <2>3, FirstIsUnique
    <3> QED
      BY <2>3, <3>1 DEF BestMatch
  <2>4. CASE /\ FirstIn(coll, Len(coll), "exact", None)
             /\ FirstIn(coll, Len(coll), "fold", result)
    <3>1. FirstNamed(coll, "exact") = None
      BY <2>1, <2>2, <2>4, FirstIsUnique
    <3>2. result = FirstNamed(coll, "fold")
      BY <2>1, <2>2, <2>4, FirstIsUnique
    <3> QED
      BY <3>1, <3>2 DEF BestMatch
  <2> QED
    BY <2>3, <2>4 DEF SnapshotInv, ScansThePrefix
<1>2. SafetySpec => []SnapshotInv
  BY SnapshotInit, SnapshotStep, PTL DEF SafetySpec
<1> QED
  BY <1>1, <1>2, PTL

(***************************************************************************)
(* Nothing is overlooked: an entity that was there from the beginning and  *)
(* would be better than what the lookup has is still in front of it.       *)
(***************************************************************************)
Ahead(x) == \E j \in DOMAIN coll : j > skip /\ coll[j] = x

\* x is what a lookup is to return, rather than best.
Better(x, best) == name[x] = "exact" \/ (name[x] = "fold" /\ best = None)

OverlooksNothing ==
    ~skipIgnored /\ "up" \notin moved =>
        /\ pc = "fetch" => \A x \in Present : Ahead(x) \/ ~Better(x, fuzzy)
        /\ pc = "done" =>
              \/ result # None /\ name[result] = "exact"
              \/ \A x \in Present : ~Better(x, result)

AbsenceInv == TypeOK /\ OverlooksNothing

LEMMA AbsenceInit == Init => AbsenceInv
<1> SUFFICES ASSUME Init
             PROVE  AbsenceInv
  OBVIOUS
<1>1. TypeOK
  BY TypeInit
<1>2. /\ DOMAIN coll = 1..Len(coll) /\ Len(coll) \in Nat
      /\ start = coll /\ skip = 0 /\ pc = "fetch"
  BY <1>1, LenProperties DEF Init, TypeOK
<1>3. ASSUME NEW x \in Present
      PROVE  Ahead(x)
  <2>1. PICK j \in DOMAIN coll : coll[j] = x
    BY <1>2 DEF Present, Range
  <2> QED
    BY <1>2, <2>1 DEF Ahead
<1> QED
  BY <1>1, <1>2, <1>3 DEF AbsenceInv, OverlooksNothing

\* A page without an exact match leaves nothing better behind.
LEMMA PageOverlooksNothing ==
  ASSUME AbsenceInv, ~skipIgnored, "up" \notin moved, pc = "fetch",
         FirstNamed(Served, "exact") = None,
         NEW x \in Present, Better(x, FuzzyAfter(Served))
  PROVE  \E j \in DOMAIN coll : j > skip + Len(Served) /\ coll[j] = x
<1>1. /\ Served \in Seq(Items) /\ Len(Served) \in Nat /\ skip \in Nat
      /\ coll \in Seq(Items) /\ Len(coll) \in Nat /\ DOMAIN coll = 1..Len(coll)
      /\ \A i \in 1..Len(Served) : Served[i] = coll[skip + i]
  BY ServedProperties, LenProperties DEF AbsenceInv, TypeOK
<1>2. \A i \in 1..Len(Served) : name[Served[i]] # "exact"
  BY <1>1, FirstNamedNone
<1>3. name[x] = "fold" => fuzzy = None /\ \A i \in 1..Len(Served) : name[Served[i]] # "fold"
  BY <1>1, FirstNamedNone DEF Better, FuzzyAfter
<1>4. PICK j \in 1..Len(coll) : j > skip /\ coll[j] = x
  BY <1>1, <1>3 DEF AbsenceInv, OverlooksNothing, Ahead, Better
<1>5. j > skip + Len(Served)
  <2> SUFFICES ASSUME j <= skip + Len(Served)
               PROVE  FALSE
    BY <1>1
  <2>1. j - skip \in 1..Len(Served) /\ skip + (j - skip) = j
    BY <1>1, <1>4
  <2>2. Served[j - skip] = x
    BY <1>1, <1>4, <2>1
  <2> QED
    BY <1>2, <1>3, <2>1, <2>2 DEF Better
<1> QED
  BY <1>1, <1>4, <1>5

LEMMA ChangeOverlooksNothing ==
  ASSUME AbsenceInv, Change
  PROVE  OverlooksNothing'
<1>1. UNCHANGED <<skipIgnored, start, skip, fuzzy, name, pc>> /\ pc = "fetch"
  BY DEF Change
<1> SUFFICES ASSUME ~skipIgnored, "up" \notin moved', NEW x \in Present', Better(x, fuzzy)
             PROVE  \E j \in DOMAIN coll' : j > skip /\ coll'[j] = x
  BY <1>1 DEF OverlooksNothing, Ahead, Better
<1>2. /\ skip \in Nat /\ Len(coll) \in Nat /\ DOMAIN coll = 1..Len(coll)
  BY LenProperties DEF AbsenceInv, TypeOK
<1>3. CASE Create
  <2> PICK i \in 1..(Len(coll) + 1) :
             /\ coll' \in Seq(Items) /\ Len(coll') = Len(coll) + 1
             /\ \A k \in 1..(i - 1) : coll'[k] = coll[k]
             /\ \A k \in i..Len(coll) : coll'[k + 1] = coll[k]
             /\ moved' = IF i <= skip THEN moved \union {"down"} ELSE moved
             /\ gone' = gone
    BY <1>3, Created DEF AbsenceInv
  <2>1. DOMAIN coll' = 1..Len(coll')
    BY LenProperties
  <2>2. "up" \notin moved /\ x \in Present
    BY <1>1 DEF Present
  <2>3. PICK j \in 1..Len(coll) : j > skip /\ coll[j] = x
    BY <1>1, <1>2, <2>2 DEF AbsenceInv, OverlooksNothing, Ahead
  <2>4. CASE j < i
    <3>1. j \in DOMAIN coll' /\ coll'[j] = x
      BY <1>2, <2>1, <2>3, <2>4
    <3> QED
      BY <2>3, <3>1
  <2>5. CASE ~(j < i)
    <3>1. j + 1 \in DOMAIN coll' /\ coll'[j + 1] = x /\ j + 1 > skip
      BY <1>2, <2>1, <2>3, <2>5
    <3> QED
      BY <3>1
  <2> QED
    BY <2>4, <2>5
<1>4. CASE Delete
  <2> PICK i \in 1..Len(coll) :
             /\ coll' \in Seq(Items) /\ Len(coll') = Len(coll) - 1
             /\ \A k \in 1..(i - 1) : coll'[k] = coll[k]
             /\ \A k \in i..(Len(coll) - 1) : coll'[k] = coll[k + 1]
             /\ moved' = IF i <= skip THEN moved \union {"up"} ELSE moved
             /\ gone' = gone \union {coll[i]}
    BY <1>4, Deleted DEF AbsenceInv
  <2>1. DOMAIN coll' = 1..Len(coll')
    BY LenProperties
  <2>2. "up" \notin moved /\ ~(i <= skip) /\ x \in Present /\ x # coll[i]
    BY <1>1 DEF Present
  <2>3. PICK j \in 1..Len(coll) : j > skip /\ coll[j] = x
    BY <1>1, <1>2, <2>2 DEF AbsenceInv, OverlooksNothing, Ahead
  <2>4. CASE j < i
    <3>1. j \in DOMAIN coll' /\ coll'[j] = x
      BY <1>2, <2>1, <2>3, <2>4
    <3> QED
      BY <2>3, <3>1
  <2>5. CASE j > i
    <3>1. /\ j - 1 \in i..(Len(coll) - 1) /\ (j - 1) + 1 = j
          /\ j - 1 \in 1..Len(coll') /\ j - 1 > skip
      BY <1>2, <2>2, <2>3, <2>5
    <3>2. coll'[j - 1] = x
      BY <2>3, <3>1
    <3> QED
      BY <2>1, <3>1, <3>2
  <2> QED
    BY <2>2, <2>3, <2>4, <2>5
<1> QED
  BY <1>3, <1>4 DEF Change

LEMMA AbsenceStep ==
  ASSUME AbsenceInv, [Next]_vars
  PROVE  AbsenceInv'
<1>1. TypeOK'
  BY TypeStep DEF AbsenceInv
<1>2. OverlooksNothing'
  <2>1. CASE FindsExact
    <3>1. result' # None /\ name'[result'] = "exact" /\ pc' = "done"
      BY <2>1, ServedProperties, FirstNamedNone DEF FindsExact, serverVars, AbsenceInv
    <3> QED
      BY <3>1 DEF OverlooksNothing
  <2>2. CASE ReadsOn
    <3> SUFFICES ASSUME ~skipIgnored, "up" \notin moved, NEW x \in Present, Better(x, fuzzy')
                 PROVE  \E j \in DOMAIN coll : j > skip' /\ coll[j] = x
      BY <2>2 DEF ReadsOn, serverVars, OverlooksNothing, Ahead, Better, Present
    <3>1. /\ skip' = skip + Len(Served) /\ fuzzy' = FuzzyAfter(Served)
          /\ FirstNamed(Served, "exact") = None /\ pc = "fetch"
      BY <2>2 DEF ReadsOn
    <3> QED
      BY <3>1, PageOverlooksNothing
  <2>3. CASE EndsWithoutExact
    <3> SUFFICES ASSUME ~skipIgnored, "up" \notin moved, NEW x \in Present, Better(x, result')
                 PROVE  FALSE
      BY <2>3 DEF EndsWithoutExact, serverVars, OverlooksNothing, Better, Present
    <3>1. /\ result' = FuzzyAfter(Served) /\ Len(Served) < PageSize
          /\ FirstNamed(Served, "exact") = None /\ pc = "fetch"
      BY <2>3 DEF EndsWithoutExact
    <3>2. \E j \in DOMAIN coll : j > skip + Len(Served) /\ coll[j] = x
      BY <3>1, PageOverlooksNothing
    <3>3. Len(coll) <= skip + Len(Served) /\ DOMAIN coll = 1..Len(coll)
          /\ Len(coll) \in Nat /\ skip \in Nat /\ Len(Served) \in Nat
      BY <3>1, ServedProperties, LenProperties, PageSizeAssumption DEF AbsenceInv, TypeOK
    <3> QED
      BY <3>2, <3>3
  <2>4. CASE FetchFails
    BY <2>4 DEF FetchFails, OverlooksNothing
  <2>5. CASE Change
    BY <2>5, ChangeOverlooksNothing
  <2>6. CASE UNCHANGED vars
    BY <2>6 DEF vars, serverVars, AbsenceInv, OverlooksNothing, Ahead, Better, Present
  <2> QED
    BY <2>1, <2>2, <2>3, <2>4, <2>5, <2>6 DEF Next, Lookup, Answered
<1> QED
  BY <1>1, <1>2 DEF AbsenceInv

\* A lookup that reports ErrNotFound, or settles for another case, has missed
\* no better entity that was there all the time, whatever was created meanwhile
\* and wherever, and whatever was deleted in front of it.
THEOREM AbsenceAlwaysReal == SafetySpec => []AbsenceIsReal
<1>1. AbsenceInv => AbsenceIsReal
  <2> SUFFICES ASSUME AbsenceInv, pc = "done", ~skipIgnored, "up" \notin moved
               PROVE  /\ result = None => \A x \in Present : name[x] = "other"
                      /\ result # None /\ name[result] = "fold" =>
                            \A x \in Present : name[x] # "exact"
    BY DEF AbsenceIsReal
  <2>1. \A x \in Present : x \in Items
    <3>1. DOMAIN start = 1..Len(start) /\ \A i \in 1..Len(start) : start[i] \in Items
      BY LenProperties, ElementOfSeq DEF AbsenceInv, TypeOK
    <3> QED
      BY <3>1 DEF Present, Range
  <2>2. \A x \in Present : name[x] \in {"exact", "fold", "other"}
    BY <2>1 DEF AbsenceInv, TypeOK, NameKinds
  <2> QED
    BY <2>2 DEF AbsenceInv, OverlooksNothing, Better
<1>2. SafetySpec => []AbsenceInv
  BY AbsenceInit, AbsenceStep, PTL DEF SafetySpec
<1> QED
  BY <1>1, <1>2, PTL
=============================================================================
