----------------------------- MODULE PagingProofs -----------------------------
(***************************************************************************)
(* Facts about pages and about collections that change: what the theorems  *)
(* about the walks, the lookups and the app calls have in common.          *)
(***************************************************************************)
EXTENDS Paging, SequenceTheorems, WellFoundedInduction, TLAPS

\* What CHOOSE is to find where a search takes the first of several.
LEMMA LeastExists ==
  ASSUME NEW T \in SUBSET Nat, T # {}
  PROVE  \E i \in T : \A j \in T : i <= j
<1> DEFINE less == OpToRel(<, Nat)
<1>1. PICK i \in T : \A j \in T : ~(<<j, i>> \in less)
  <2> HIDE DEF less
  <2>1. IsWellFoundedOn(less, Nat)
    BY NatLessThanWellFounded, Zenon DEF less
  <2> QED
    BY <2>1, WFMin, Zenon
<1>2. ASSUME NEW j \in T
      PROVE  ~(j < i)
  <2>1. j < i => <<j, i>> \in less
    BY Zenon DEF OpToRel
  <2> QED
    BY <1>1, <2>1
<1> QED
  BY <1>2

\* A page is a piece of the collection: at most $top entities, fewer only
\* where the collection ends.
LEMMA PageProperties ==
  ASSUME NEW S, NEW s \in Seq(S), NEW top \in Nat, NEW skip \in Nat
  PROVE  /\ Page(s, top, skip) \in Seq(S)
         /\ Len(Page(s, top, skip)) \in 0..top
         /\ Len(Page(s, top, skip)) = 0 \/ skip + Len(Page(s, top, skip)) <= Len(s)
         /\ Len(Page(s, top, skip)) = top \/ Len(s) <= skip + Len(Page(s, top, skip))
         /\ \A i \in 1..Len(Page(s, top, skip)) : Page(s, top, skip)[i] = s[skip + i]
<1> DEFINE to == PageEnd(s, top, skip)
<1>1. /\ Len(s) \in Nat /\ to \in Nat /\ to <= Len(s) /\ to <= skip + top
      /\ to = skip + top \/ to = Len(s)
  BY LenProperties DEF PageEnd
<1> HIDE DEF to
<1>2. \A i \in (skip + 1)..to : s[i] \in S
  BY <1>1, ElementOfSeq
<1>3. /\ SubSeq(s, skip + 1, to) \in Seq(S)
      /\ Len(SubSeq(s, skip + 1, to)) = IF skip + 1 <= to THEN to - (skip + 1) + 1 ELSE 0
      /\ \A i \in 1..(to - (skip + 1) + 1) : SubSeq(s, skip + 1, to)[i] = s[(skip + 1) + i - 1]
  BY <1>1, <1>2, SubSeqProperties
<1>4. Page(s, top, skip) = SubSeq(s, skip + 1, to)
  BY DEF Page, to
<1>5. Len(Page(s, top, skip)) = IF skip + 1 <= to THEN to - skip ELSE 0
  BY <1>1, <1>3, <1>4
<1>6. \A i \in 1..Len(Page(s, top, skip)) : Page(s, top, skip)[i] = s[skip + i]
  BY <1>1, <1>3, <1>4, <1>5
<1> QED
  BY <1>1, <1>3, <1>4, <1>5, <1>6

\* Creating an entity leaves what is in front of it alone, and moves what is
\* behind it down by one.
LEMMA WithAtProperties ==
  ASSUME NEW S, NEW s \in Seq(S), NEW i \in 1..(Len(s) + 1), NEW x \in S
  PROVE  /\ WithAt(s, i, x) \in Seq(S)
         /\ Len(WithAt(s, i, x)) = Len(s) + 1
         /\ \A k \in 1..(i - 1) : WithAt(s, i, x)[k] = s[k]
         /\ WithAt(s, i, x)[i] = x
         /\ \A k \in i..Len(s) : WithAt(s, i, x)[k + 1] = s[k]
<1> DEFINE front == SubSeq(s, 1, i - 1)
           back  == SubSeq(s, i, Len(s))
<1>1. i \in Int /\ i - 1 \in Int /\ Len(s) \in Nat /\ 1 <= i /\ i <= Len(s) + 1
  BY LenProperties
<1>2. /\ \A k \in 1..(i - 1) : s[k] \in S
      /\ \A k \in i..Len(s) : s[k] \in S
  BY <1>1, ElementOfSeq
<1>3. /\ front \in Seq(S)
      /\ Len(front) = i - 1
      /\ \A k \in 1..(i - 1) : front[k] = s[k]
  BY <1>1, <1>2, SubSeqProperties
<1>4. /\ back \in Seq(S)
      /\ Len(back) = Len(s) - i + 1
      /\ \A k \in 1..(Len(s) - i + 1) : back[k] = s[i + k - 1]
  BY <1>1, <1>2, SubSeqProperties
<1>5. <<x>> \in Seq(S) /\ Len(<<x>>) = 1 /\ <<x>>[1] = x
  OBVIOUS
<1> HIDE DEF front, back
<1> DEFINE head == front \o <<x>>
<1>6. /\ head \in Seq(S)
      /\ Len(head) = i
      /\ \A k \in 1..(Len(front) + 1) : head[k] = IF k <= Len(front) THEN front[k] ELSE <<x>>[k - Len(front)]
  BY <1>1, <1>3, <1>5, ConcatProperties
<1>7. \A k \in 1..i : head[k] = IF k < i THEN s[k] ELSE x
  <2> HIDE DEF head
  <2> QED
    BY <1>1, <1>3, <1>5, <1>6
<1> HIDE DEF head
<1>8. /\ head \o back \in Seq(S)
      /\ Len(head \o back) = Len(head) + Len(back)
      /\ \A k \in 1..(Len(head) + Len(back)) :
            (head \o back)[k] = IF k <= Len(head) THEN head[k] ELSE back[k - Len(head)]
  BY <1>4, <1>6, ConcatProperties
<1>9. WithAt(s, i, x) = head \o back
  BY DEF WithAt, head, front, back
<1>10. \A k \in 1..i : WithAt(s, i, x)[k] = IF k < i THEN s[k] ELSE x
  BY <1>1, <1>4, <1>6, <1>7, <1>8, <1>9
<1>11. ASSUME NEW k \in i..Len(s)
       PROVE  WithAt(s, i, x)[k + 1] = s[k]
  <2>1. /\ (k + 1) - i \in 1..(Len(s) - i + 1) /\ i + ((k + 1) - i) - 1 = k
        /\ k + 1 \in 1..(Len(s) + 1) /\ ~(k + 1 <= i)
    BY <1>1
  <2>2. back[(k + 1) - i] = s[k]
    BY <1>4, <2>1
  <2> QED
    BY <1>1, <1>4, <1>6, <1>8, <1>9, <2>1, <2>2
<1>12. WithAt(s, i, x) \in Seq(S) /\ Len(WithAt(s, i, x)) = Len(s) + 1
  BY <1>1, <1>4, <1>6, <1>8, <1>9
<1> QED
  BY <1>1, <1>10, <1>11, <1>12

\* Deleting one moves what is behind it up by one.
LEMMA WithoutProperties ==
  ASSUME NEW S, NEW s \in Seq(S), NEW i \in 1..Len(s)
  PROVE  /\ Without(s, i) \in Seq(S)
         /\ Len(Without(s, i)) = Len(s) - 1
         /\ \A k \in 1..(i - 1) : Without(s, i)[k] = s[k]
         /\ \A k \in i..(Len(s) - 1) : Without(s, i)[k] = s[k + 1]
<1> DEFINE front == SubSeq(s, 1, i - 1)
           back  == SubSeq(s, i + 1, Len(s))
<1>1. i \in Int /\ i - 1 \in Int /\ i + 1 \in Int /\ Len(s) \in Nat /\ 1 <= i /\ i <= Len(s)
  BY LenProperties
<1>2. /\ \A k \in 1..(i - 1) : s[k] \in S
      /\ \A k \in (i + 1)..Len(s) : s[k] \in S
  BY <1>1, ElementOfSeq
<1>3. /\ front \in Seq(S)
      /\ Len(front) = i - 1
      /\ \A k \in 1..(i - 1) : front[k] = s[k]
  BY <1>1, <1>2, SubSeqProperties
<1>4. /\ back \in Seq(S)
      /\ Len(back) = Len(s) - i
      /\ \A k \in 1..(Len(s) - i) : back[k] = s[(i + 1) + k - 1]
  BY <1>1, <1>2, SubSeqProperties
<1> HIDE DEF front, back
<1>5. /\ front \o back \in Seq(S)
      /\ Len(front \o back) = Len(front) + Len(back)
      /\ \A k \in 1..(Len(front) + Len(back)) :
            (front \o back)[k] = IF k <= Len(front) THEN front[k] ELSE back[k - Len(front)]
  BY <1>3, <1>4, ConcatProperties
<1>6. Without(s, i) = front \o back
  BY DEF Without, front, back
<1>7. /\ \A k \in 1..(i - 1) : Without(s, i)[k] = s[k]
      /\ \A k \in i..(Len(s) - 1) : Without(s, i)[k] = s[k + 1]
  <2>1. ASSUME NEW k \in 1..(i - 1)
        PROVE  Without(s, i)[k] = s[k]
    BY <1>1, <1>3, <1>4, <1>5, <1>6
  <2>2. ASSUME NEW k \in i..(Len(s) - 1)
        PROVE  Without(s, i)[k] = s[k + 1]
    <3>1. k - (i - 1) \in 1..(Len(s) - i) /\ (i + 1) + (k - (i - 1)) - 1 = k + 1
      BY <1>1
    <3>2. back[k - (i - 1)] = s[k + 1]
      BY <1>4, <3>1
    <3> QED
      BY <1>1, <1>3, <1>4, <1>5, <1>6, <3>2
  <2> QED
    BY <2>1, <2>2
<1>8. Len(front) + Len(back) = Len(s) - 1
  BY <1>1, <1>3, <1>4
<1>9. Without(s, i) \in Seq(S) /\ Len(Without(s, i)) = Len(s) - 1
  BY <1>5, <1>6, <1>8
<1> QED
  BY <1>7, <1>9
=============================================================================
