--------------------------- MODULE HubIdentityProofs ---------------------------
(***************************************************************************)
(* Theorems about the calls on external identities, for any workers, users *)
(* and groups, any situation they start from and any page size.            *)
(***************************************************************************)
EXTENDS HubIdentity, PagingProofs

(***************************************************************************)
(* The order of a listing, and what a filter leaves of it.  A statement    *)
(* about every number is proved by looking at the least exception.         *)
(***************************************************************************)
Before(s, a, b) == \E i, j \in DOMAIN s : i < j /\ s[i] = a /\ s[j] = b

\* t lists what it has in common with s in the order of s.
OrderKept(s, t) == \A a, b \in Range(t) : Before(s, a, b) => Before(t, a, b)

LEMMA Domains ==
  ASSUME NEW S, NEW s \in Seq(S)
  PROVE  Len(s) \in Nat /\ DOMAIN s = 1..Len(s) /\ \A i \in 1..Len(s) : s[i] \in S
  BY LenProperties, ElementOfSeq

\* The recursion of Kept, written out.
IsKept(f, s, T, n) ==
    f = [k \in 0..n |-> IF k = 0 THEN <<>>
                        ELSE IF s[k] \in T THEN Append(f[k - 1], s[k]) ELSE f[k - 1]]

LEMMA KeptExists ==
  ASSUME NEW S, NEW s \in Seq(S), NEW T, NEW n \in Nat
  PROVE  \E f : IsKept(f, s, T, n)
<1> DEFINE Missing == {m \in Nat : ~ \E f : IsKept(f, s, T, m)}
<1>1. SUFFICES ASSUME Missing # {}
               PROVE  FALSE
  OBVIOUS
<1>2. PICK m \in Missing : \A k \in Missing : m <= k
  <2>1. Missing \in SUBSET Nat
    OBVIOUS
  <2> HIDE DEF Missing
  <2> QED
    BY <1>1, <2>1, LeastExists
<1>3. m \in Nat /\ ~ \E f : IsKept(f, s, T, m)
  BY <1>2
<1>4. CASE m = 0
  <2> DEFINE f == [k \in 0..0 |-> <<>>]
  <2>1. IsKept(f, s, T, 0)
    BY DEF IsKept
  <2> QED
    BY <1>3, <1>4, <2>1
<1>5. CASE m # 0
  <2>1. m - 1 \in Nat /\ ~(m <= m - 1)
    BY <1>3, <1>5
  <2>2. m - 1 \notin Missing
    BY <1>2, <2>1
  <2>3. PICK f : IsKept(f, s, T, m - 1)
    BY <2>1, <2>2
  <2> DEFINE g == [k \in 0..m |-> IF k < m THEN f[k]
                                  ELSE IF s[m] \in T THEN Append(f[m - 1], s[m]) ELSE f[m - 1]]
  <2>4. \A k \in 0..(m - 1) : f[k] = IF k = 0 THEN <<>>
                                     ELSE IF s[k] \in T THEN Append(f[k - 1], s[k]) ELSE f[k - 1]
    BY <2>3 DEF IsKept
  <2>5. \A k \in 0..m : g[k] = IF k = 0 THEN <<>>
                               ELSE IF s[k] \in T THEN Append(g[k - 1], s[k]) ELSE g[k - 1]
    BY <1>3, <1>5, <2>4
  <2>6. g = [k \in 0..m |-> g[k]]
    OBVIOUS
  <2> HIDE DEF g
  <2>7. IsKept(g, s, T, m)
    BY <2>5, <2>6 DEF IsKept
  <2> QED
    BY <1>3, <2>7
<1> QED
  BY <1>4, <1>5

\* u holds the entries of s up to the n-th one that are in T, in their order.
KeepsUpTo(u, S, s, T, n) ==
    /\ u \in Seq(S)
    /\ \A k \in 1..Len(u) : u[k] \in T /\ \E i \in 1..n : s[i] = u[k]
    /\ \A i \in 1..n : s[i] \in T => \E k \in 1..Len(u) : u[k] = s[i]
    /\ \A k, l \in 1..Len(u) : k < l => \E i, j \in 1..n : i < j /\ s[i] = u[k] /\ s[j] = u[l]

LEMMA KeepsOneMore ==
  ASSUME NEW S, NEW s \in Seq(S), NEW T, NEW n \in Nat, n + 1 \in 1..Len(s),
         NEW u, KeepsUpTo(u, S, s, T, n),
         NEW v, v = IF s[n + 1] \in T THEN Append(u, s[n + 1]) ELSE u
  PROVE  KeepsUpTo(v, S, s, T, n + 1)
<1>1. /\ u \in Seq(S) /\ Len(u) \in Nat /\ s[n + 1] \in S
      /\ 1..n \subseteq 1..(n + 1) /\ \A i \in 1..(n + 1) : i = n + 1 \/ i \in 1..n
  BY Domains DEF KeepsUpTo
<1>2. CASE s[n + 1] \in T
  <2>1. v \in Seq(S) /\ Len(v) = Len(u) + 1
    BY <1>1, <1>2, AppendProperties
  <2>2. \A k \in 1..Len(v) : \/ k \in 1..Len(u) /\ v[k] = u[k]
                             \/ k = Len(u) + 1 /\ v[k] = s[n + 1]
    <3>1. v = Append(u, s[n + 1])
      BY <1>2
    <3>2. /\ \A k \in 1..Len(u) : Append(u, s[n + 1])[k] = u[k]
          /\ Append(u, s[n + 1])[Len(u) + 1] = s[n + 1]
      BY <1>1, AppendProperties
    <3> QED
      BY <1>1, <2>1, <3>1, <3>2
  <2>3. \A k \in 1..Len(v) : v[k] \in T /\ \E i \in 1..(n + 1) : s[i] = v[k]
    BY <1>1, <1>2, <2>2 DEF KeepsUpTo
  <2>4. \A i \in 1..(n + 1) : s[i] \in T => \E k \in 1..Len(v) : v[k] = s[i]
    <3>1. \A k \in 1..Len(u) : k \in 1..Len(v) /\ v[k] = u[k]
      BY <1>1, <2>1, <2>2
    <3>2. Len(u) + 1 \in 1..Len(v) /\ v[Len(u) + 1] = s[n + 1]
      BY <1>1, <2>1, <2>2
    <3> QED
      BY <1>1, <3>1, <3>2 DEF KeepsUpTo
  <2>5. ASSUME NEW k \in 1..Len(v), NEW l \in 1..Len(v), k < l
        PROVE  \E i, j \in 1..(n + 1) : i < j /\ s[i] = v[k] /\ s[j] = v[l]
    <3>1. k \in 1..Len(u) /\ v[k] = u[k]
      BY <1>1, <2>1, <2>2, <2>5
    <3>2. CASE l \in 1..Len(u) /\ v[l] = u[l]
      BY <1>1, <2>5, <3>1, <3>2 DEF KeepsUpTo
    <3>3. CASE v[l] = s[n + 1]
      <4>1. PICK i \in 1..n : s[i] = u[k]
        BY <3>1 DEF KeepsUpTo
      <4>2. i \in 1..(n + 1) /\ n + 1 \in 1..(n + 1) /\ i < n + 1
        BY <1>1
      <4>3. s[i] = v[k] /\ s[n + 1] = v[l]
        BY <3>1, <3>3, <4>1
      <4> QED
        BY <4>2, <4>3
    <3> QED
      BY <2>2, <3>2, <3>3
  <2> QED
    BY <2>1, <2>3, <2>4, <2>5 DEF KeepsUpTo
<1>3. CASE s[n + 1] \notin T
  BY <1>1, <1>3 DEF KeepsUpTo
<1> QED
  BY <1>2, <1>3

LEMMA KeptKeeps ==
  ASSUME NEW S, NEW s \in Seq(S), NEW T
  PROVE  KeepsUpTo(Kept(s, T), S, s, T, Len(s))
<1> DEFINE f == CHOOSE f : IsKept(f, s, T, Len(s))
<1>1. Len(s) \in Nat
  BY Domains
<1>2. IsKept(f, s, T, Len(s))
  BY <1>1, KeptExists
<1>3. Kept(s, T) = f[Len(s)]
  BY DEF Kept, IsKept
<1> HIDE DEF f
<1>4. \A k \in 0..Len(s) : f[k] = IF k = 0 THEN <<>>
                                  ELSE IF s[k] \in T THEN Append(f[k - 1], s[k]) ELSE f[k - 1]
  BY <1>2 DEF IsKept
<1> DEFINE Exceptions == {n \in 0..Len(s) : ~KeepsUpTo(f[n], S, s, T, n)}
<1>5. ASSUME Exceptions # {}
      PROVE  FALSE
  <2>1. PICK n \in Exceptions : \A k \in Exceptions : n <= k
    <3>1. Exceptions \in SUBSET Nat
      BY <1>1
    <3> HIDE DEF Exceptions
    <3> QED
      BY <1>5, <3>1, LeastExists
  <2>2. n \in 0..Len(s) /\ ~KeepsUpTo(f[n], S, s, T, n)
    BY <2>1
  <2>3. CASE n = 0
    <3>1. f[n] = <<>>
      BY <1>1, <1>4, <2>3
    <3>2. f[n] \in Seq(S) /\ Len(f[n]) = 0
      BY <3>1, EmptySeq
    <3> QED
      BY <2>2, <2>3, <3>2 DEF KeepsUpTo
  <2>4. CASE n # 0
    <3>1. n - 1 \in Nat /\ n - 1 \in 0..Len(s) /\ ~(n <= n - 1) /\ (n - 1) + 1 = n /\ n \in 1..Len(s)
      BY <1>1, <2>2, <2>4
    <3>2. KeepsUpTo(f[n - 1], S, s, T, n - 1)
      BY <2>1, <3>1
    <3>3. f[n] = IF s[n] \in T THEN Append(f[n - 1], s[n]) ELSE f[n - 1]
      BY <1>4, <2>2, <2>4
    <3> HIDE DEF Exceptions
    <3> DEFINE m == n - 1
    <3>4. m \in Nat /\ m + 1 = n /\ m + 1 \in 1..Len(s)
      BY <3>1
    <3>5. KeepsUpTo(f[m], S, s, T, m) /\ f[n] = IF s[m + 1] \in T THEN Append(f[m], s[m + 1]) ELSE f[m]
      BY <3>2, <3>3, <3>4
    <3> HIDE DEF m
    <3>6. KeepsUpTo(f[n], S, s, T, m + 1)
      BY <3>4, <3>5, KeepsOneMore
    <3> QED
      BY <2>2, <3>4, <3>6
  <2> QED
    BY <2>3, <2>4
<1>6. Len(s) \notin Exceptions
  BY <1>5
<1> QED
  BY <1>1, <1>3, <1>6

\* A filter keeps what is wanted, once, in the order it was in.
LEMMA KeptProperties ==
  ASSUME NEW S, NEW s \in Seq(S), IsInjective(s), NEW T
  PROVE  /\ Kept(s, T) \in Seq(S) /\ IsInjective(Kept(s, T))
         /\ Range(Kept(s, T)) = Range(s) \intersect T
         /\ \A a, b : Before(Kept(s, T), a, b) => Before(s, a, b)
         /\ \A a, b \in T : Before(s, a, b) => Before(Kept(s, T), a, b)
<1> DEFINE u == Kept(s, T)
<1>1. KeepsUpTo(u, S, s, T, Len(s))
  BY KeptKeeps
<1> HIDE DEF u
<1>2. /\ u \in Seq(S) /\ Len(u) \in Nat /\ DOMAIN u = 1..Len(u)
      /\ Len(s) \in Nat /\ DOMAIN s = 1..Len(s)
  BY <1>1, Domains DEF KeepsUpTo
<1>3. ASSUME NEW a, NEW b, Before(u, a, b)
      PROVE  Before(s, a, b)
  <2>1. PICK k \in 1..Len(u), l \in 1..Len(u) : k < l /\ u[k] = a /\ u[l] = b
    BY <1>2, <1>3 DEF Before
  <2>2. PICK i \in 1..Len(s), j \in 1..Len(s) : i < j /\ s[i] = u[k] /\ s[j] = u[l]
    BY <1>1, <2>1 DEF KeepsUpTo
  <2> QED
    BY <1>2, <2>1, <2>2 DEF Before
<1>4. \A i, j \in 1..Len(s) : s[i] = s[j] => i = j
  BY <1>2 DEF IsInjective
<1>5. \A a, b : Before(s, a, b) => a # b /\ ~Before(s, b, a)
  BY <1>2, <1>4 DEF Before
<1>6. IsInjective(u)
  <2> SUFFICES ASSUME NEW k \in 1..Len(u), NEW l \in 1..Len(u), k < l
               PROVE  u[k] # u[l]
    BY <1>2 DEF IsInjective
  <2> QED
    BY <1>2, <1>3, <1>5 DEF Before
<1>7. Range(u) = Range(s) \intersect T
  <2>1. ASSUME NEW x \in Range(u)
        PROVE  x \in Range(s) \intersect T
    <3>1. PICK k \in 1..Len(u) : x = u[k]
      BY <1>2 DEF Range
    <3>2. x \in T /\ \E i \in 1..Len(s) : s[i] = x
      BY <1>1, <3>1 DEF KeepsUpTo
    <3> QED
      BY <1>2, <3>2 DEF Range
  <2>2. ASSUME NEW x \in Range(s) \intersect T
        PROVE  x \in Range(u)
    <3>1. PICK i \in 1..Len(s) : x = s[i]
      BY <1>2 DEF Range
    <3>2. \E k \in 1..Len(u) : u[k] = s[i]
      BY <1>1, <3>1 DEF KeepsUpTo
    <3> QED
      BY <1>2, <3>1, <3>2 DEF Range
  <2> QED
    BY <2>1, <2>2
<1>8. ASSUME NEW a \in T, NEW b \in T, Before(s, a, b)
      PROVE  Before(u, a, b)
  <2>1. PICK k \in 1..Len(u), l \in 1..Len(u) : u[k] = a /\ u[l] = b
    BY <1>1, <1>2, <1>8 DEF KeepsUpTo, Before
  <2>2. ~(l < k) /\ l # k
    BY <1>2, <1>3, <1>5, <1>8, <2>1 DEF Before
  <2>3. k < l
    BY <1>2, <2>2
  <2> QED
    BY <1>2, <2>1, <2>3 DEF Before
<1> QED
  BY <1>2, <1>3, <1>6, <1>7, <1>8 DEF u

\* Filters of two listings in the same order are in the same order, whatever
\* each of them keeps.
LEMMA FiltersKeepOrder ==
  ASSUME NEW S, NEW s \in Seq(S), IsInjective(s), NEW t \in Seq(S), IsInjective(t),
         OrderKept(s, t), NEW T, NEW U
  PROVE  OrderKept(Kept(s, T), Kept(t, U))
<1> SUFFICES ASSUME NEW a \in Range(Kept(t, U)), NEW b \in Range(Kept(t, U)),
                    Before(Kept(s, T), a, b)
             PROVE  Before(Kept(t, U), a, b)
  BY DEF OrderKept
<1>1. a \in Range(t) /\ a \in U /\ b \in Range(t) /\ b \in U
  BY KeptProperties
<1>2. Before(s, a, b)
  BY KeptProperties
<1>3. Before(t, a, b)
  BY <1>1, <1>2 DEF OrderKept
<1> QED
  BY <1>1, <1>3, KeptProperties

\* What a scan has behind it: as long as none of the first n entries leaves
\* the listing, nobody of A comes to be among the first n.
LEMMA NobodySlipsBehind ==
  ASSUME NEW S, NEW s \in Seq(S), NEW t \in Seq(S), IsInjective(t), OrderKept(s, t),
         NEW n \in Nat, NEW A, A \subseteq Range(s),
         \A i \in 1..n : i \in DOMAIN s => s[i] \in Range(t) /\ s[i] \notin A
  PROVE  \A i \in 1..n : i \in DOMAIN t => t[i] \notin A
<1>1. /\ Len(s) \in Nat /\ DOMAIN s = 1..Len(s)
      /\ Len(t) \in Nat /\ DOMAIN t = 1..Len(t)
      /\ \A j, k \in 1..Len(t) : t[j] = t[k] => j = k
  BY Domains DEF IsInjective
<1> DEFINE Exceptions == {q \in 1..n : q \in 1..Len(s) /\ \E k \in 1..Len(t) : t[k] = s[q] /\ k < q}
<1>2. Exceptions = {}
  <2> SUFFICES ASSUME Exceptions # {}
               PROVE  FALSE
    OBVIOUS
  <2>1. PICK q \in Exceptions : \A r \in Exceptions : q <= r
    <3>1. Exceptions \in SUBSET Nat
      BY <1>1
    <3> HIDE DEF Exceptions
    <3> QED
      BY <3>1, LeastExists
  <2>2. q \in 1..n /\ q \in 1..Len(s)
    BY <2>1
  <2>3. PICK k \in 1..Len(t) : t[k] = s[q] /\ k < q
    BY <2>1
  <2> DEFINE r == q - 1
  <2>4. r \in 1..n /\ r \in 1..Len(s) /\ r < q /\ ~(q <= r) /\ k <= r
    BY <1>1, <2>2, <2>3
  <2>5. r \notin Exceptions
    BY <2>1, <2>4
  <2> HIDE DEF r
  <2>6. \A j \in 1..Len(t) : t[j] = s[r] => ~(j < r)
    BY <2>4, <2>5
  <2> HIDE DEF Exceptions
  <2>7. s[r] \in Range(t) /\ s[q] \in Range(t) /\ Before(s, s[r], s[q])
    BY <1>1, <2>2, <2>4 DEF Before
  <2>8. Before(t, s[r], s[q])
    BY <2>7 DEF OrderKept
  <2>9. PICK j \in 1..Len(t), l \in 1..Len(t) : j < l /\ t[j] = s[r] /\ t[l] = s[q]
    BY <1>1, <2>8 DEF Before
  <2>10. l = k
    BY <1>1, <2>3, <2>9
  <2>11. r \in Int /\ j \in Int /\ k \in Int
    BY <2>4
  <2> QED
    BY <2>4, <2>6, <2>9, <2>10, <2>11
<1>3. SUFFICES ASSUME NEW i \in 1..n, i \in 1..Len(t), t[i] \in A
               PROVE  FALSE
  BY <1>1
<1>4. PICK p \in 1..Len(s) : s[p] = t[i]
  BY <1>1, <1>3 DEF Range
<1>5. p \notin 1..n
  BY <1>1, <1>3, <1>4
<1>6. i \in 1..Len(s) /\ i < p
  BY <1>1, <1>4, <1>5
<1>7. s[i] \in Range(t) /\ s[p] \in Range(t) /\ Before(s, s[i], s[p])
  <2>1. s[i] \in Range(t)
    BY <1>1, <1>6
  <2>2. s[p] \in Range(t)
    BY <1>1, <1>3, <1>4 DEF Range
  <2> QED
    BY <1>1, <1>4, <1>6, <2>1, <2>2 DEF Before
<1>8. Before(t, s[i], s[p])
  BY <1>7 DEF OrderKept
<1>9. PICK j \in 1..Len(t), l \in 1..Len(t) : j < l /\ t[j] = s[i] /\ t[l] = s[p]
  BY <1>1, <1>8 DEF Before
<1>10. l = i
  BY <1>1, <1>3, <1>4, <1>9
<1>11. i \in Exceptions
  BY <1>6, <1>9, <1>10
<1> QED
  BY <1>2, <1>11

\* Somebody new, or somebody gone, leaves the others in their order.
LEMMA CreatingKeepsOrder ==
  ASSUME NEW S, NEW s \in Seq(S), IsInjective(s),
         NEW x \in S, x \notin Range(s), NEW i \in 1..(Len(s) + 1)
  PROVE  /\ WithAt(s, i, x) \in Seq(S) /\ IsInjective(WithAt(s, i, x))
         /\ Range(WithAt(s, i, x)) = Range(s) \union {x}
         /\ OrderKept(s, WithAt(s, i, x))
<1>0. s \in Seq(S) /\ i \in 1..(Len(s) + 1) /\ x \in S
  OBVIOUS
<1> DEFINE t == WithAt(s, i, x)
<1>1. /\ t \in Seq(S) /\ Len(t) = Len(s) + 1
      /\ \A k \in 1..(i - 1) : t[k] = s[k]
      /\ t[i] = x
      /\ \A k \in i..Len(s) : t[k + 1] = s[k]
  BY <1>0, WithAtProperties
<1> HIDE DEF t
<1>2. /\ Len(s) \in Nat /\ DOMAIN s = 1..Len(s) /\ DOMAIN t = 1..(Len(s) + 1)
      /\ \A j, k \in 1..Len(s) : s[j] = s[k] => j = k
      /\ \A k \in 1..Len(s) : s[k] # x
  BY <1>1, Domains DEF IsInjective, Range
<1> DEFINE To(k) == IF k < i THEN k ELSE k + 1
<1>3. ASSUME NEW k \in 1..Len(s)
      PROVE  To(k) \in 1..(Len(s) + 1) /\ t[To(k)] = s[k]
  <2>1. CASE k < i
    BY <1>1, <1>2, <2>1
  <2>2. CASE i <= k
    BY <1>1, <1>2, <2>2
  <2> QED
    BY <1>2, <2>1, <2>2
<1>4. \A j, k \in 1..Len(s) : j < k => To(j) < To(k)
  BY <1>2
<1>5. \A l \in 1..(Len(s) + 1) : l = i \/ \E k \in 1..Len(s) : l = To(k)
  <2> SUFFICES ASSUME NEW l \in 1..(Len(s) + 1), l # i
               PROVE  \E k \in 1..Len(s) : l = To(k)
    OBVIOUS
  <2>1. CASE l < i
    BY <1>2, <2>1
  <2>2. CASE i < l
    <3>1. l - 1 \in 1..Len(s) /\ l = To(l - 1)
      BY <1>2, <2>2
    <3> QED
      BY <3>1
  <2> QED
    BY <1>2, <2>1, <2>2
<1> HIDE DEF To
<1>6. Range(t) = Range(s) \union {x}
  <2>1. \A l \in 1..(Len(s) + 1) : t[l] = x \/ \E k \in 1..Len(s) : t[l] = s[k]
    BY <1>1, <1>3, <1>5
  <2>2. i \in 1..(Len(s) + 1)
    OBVIOUS
  <2>3. \A k \in 1..Len(s) : \E l \in 1..(Len(s) + 1) : t[l] = s[k]
    BY <1>3
  <2>4. ASSUME NEW y \in Range(t)
        PROVE  y \in Range(s) \union {x}
    BY <1>2, <2>1 DEF Range
  <2>5. ASSUME NEW y \in Range(s) \union {x}
        PROVE  y \in Range(t)
    <3>1. CASE y = x
      BY <1>1, <1>2, <2>2, <3>1 DEF Range
    <3>2. CASE y \in Range(s)
      <4>1. PICK k \in 1..Len(s) : y = s[k]
        BY <1>2, <3>2 DEF Range
      <4>2. PICK l \in 1..(Len(s) + 1) : t[l] = s[k]
        BY <2>3
      <4> QED
        BY <1>2, <4>1, <4>2 DEF Range
    <3> QED
      BY <3>1, <3>2
  <2> QED
    BY <2>4, <2>5
<1>7. IsInjective(t)
  <2> SUFFICES ASSUME NEW l \in 1..(Len(s) + 1), NEW m \in 1..(Len(s) + 1), t[l] = t[m]
               PROVE  l = m
    BY <1>2 DEF IsInjective
  <2>1. CASE l = i \/ m = i
    <3>1. \A k \in 1..(Len(s) + 1) : t[k] = x => k = i
      BY <1>2, <1>3, <1>5
    <3> QED
      BY <1>1, <2>1, <3>1
  <2>2. CASE l # i /\ m # i
    <3>1. PICK j \in 1..Len(s), k \in 1..Len(s) : l = To(j) /\ m = To(k)
      BY <1>5, <2>2
    <3>2. s[j] = s[k]
      BY <1>3, <3>1
    <3> QED
      BY <1>2, <3>1, <3>2
  <2> QED
    BY <2>1, <2>2
<1>8. OrderKept(s, t)
  <2> SUFFICES ASSUME NEW a, NEW b, Before(s, a, b)
               PROVE  Before(t, a, b)
    BY DEF OrderKept
  <2>1. PICK j \in 1..Len(s), k \in 1..Len(s) : j < k /\ s[j] = a /\ s[k] = b
    BY <1>2 DEF Before
  <2> QED
    BY <1>2, <1>3, <1>4, <2>1 DEF Before
<1> QED
  BY <1>1, <1>6, <1>7, <1>8 DEF t

LEMMA DeletingKeepsOrder ==
  ASSUME NEW S, NEW s \in Seq(S), IsInjective(s), NEW i \in 1..Len(s)
  PROVE  /\ Without(s, i) \in Seq(S) /\ IsInjective(Without(s, i))
         /\ Range(Without(s, i)) = Range(s) \ {s[i]}
         /\ OrderKept(s, Without(s, i))
<1> DEFINE t == Without(s, i)
<1>1. /\ t \in Seq(S) /\ Len(t) = Len(s) - 1
      /\ \A k \in 1..(i - 1) : t[k] = s[k]
      /\ \A k \in i..(Len(s) - 1) : t[k] = s[k + 1]
  BY WithoutProperties
<1> HIDE DEF t
<1>2. /\ Len(s) \in Nat /\ DOMAIN s = 1..Len(s) /\ DOMAIN t = 1..(Len(s) - 1)
      /\ \A j, k \in 1..Len(s) : s[j] = s[k] => j = k
  BY <1>1, Domains DEF IsInjective
<1> DEFINE From(k) == IF k < i THEN k ELSE k + 1
<1>3. \A k \in 1..(Len(s) - 1) : From(k) \in 1..Len(s) /\ From(k) # i /\ t[k] = s[From(k)]
  BY <1>1, <1>2
<1>4. \A j, k \in 1..(Len(s) - 1) : (From(j) < From(k) <=> j < k) /\ (From(j) = From(k) => j = k)
  BY <1>2
<1>5. \A l \in 1..Len(s) : l = i \/ \E k \in 1..(Len(s) - 1) : l = From(k)
  <2> SUFFICES ASSUME NEW l \in 1..Len(s), l # i
               PROVE  \E k \in 1..(Len(s) - 1) : l = From(k)
    OBVIOUS
  <2>1. CASE l < i
    <3>1. l \in 1..(Len(s) - 1) /\ l = From(l)
      BY <1>2, <2>1
    <3> QED
      BY <3>1
  <2>2. CASE i < l
    <3>1. l - 1 \in 1..(Len(s) - 1) /\ l = From(l - 1)
      BY <1>2, <2>2
    <3> QED
      BY <3>1
  <2> QED
    BY <1>2, <2>1, <2>2
<1> HIDE DEF From
<1>6. Range(t) = Range(s) \ {s[i]}
  <2>1. ASSUME NEW y \in Range(t)
        PROVE  y \in Range(s) \ {s[i]}
    <3>1. PICK k \in 1..(Len(s) - 1) : y = t[k]
      BY <1>2 DEF Range
    <3>2. From(k) \in 1..Len(s) /\ From(k) # i /\ y = s[From(k)]
      BY <1>3, <3>1
    <3>3. y # s[i]
      BY <1>2, <3>2
    <3> QED
      BY <1>2, <3>2, <3>3 DEF Range
  <2>2. ASSUME NEW y \in Range(s) \ {s[i]}
        PROVE  y \in Range(t)
    <3>1. PICK l \in 1..Len(s) : y = s[l] /\ l # i
      BY <1>2 DEF Range
    <3>2. PICK k \in 1..(Len(s) - 1) : l = From(k)
      BY <1>5, <3>1
    <3>3. y = t[k]
      BY <1>3, <3>1, <3>2
    <3> QED
      BY <1>2, <3>3 DEF Range
  <2> QED
    BY <2>1, <2>2
<1>7. IsInjective(t)
  <2> SUFFICES ASSUME NEW l \in 1..(Len(s) - 1), NEW m \in 1..(Len(s) - 1), t[l] = t[m]
               PROVE  l = m
    BY <1>2 DEF IsInjective
  <2> QED
    BY <1>2, <1>3, <1>4
<1>8. OrderKept(s, t)
  <2> SUFFICES ASSUME NEW a \in Range(t), NEW b \in Range(t), Before(s, a, b)
               PROVE  Before(t, a, b)
    BY DEF OrderKept
  <2>1. PICK j \in 1..Len(s), k \in 1..Len(s) : j < k /\ s[j] = a /\ s[k] = b
    BY <1>2 DEF Before
  <2>2. j # i /\ k # i
    BY <1>6, <2>1
  <2>3. PICK l \in 1..(Len(s) - 1), m \in 1..(Len(s) - 1) : j = From(l) /\ k = From(m)
    BY <1>5, <2>2
  <2>4. l < m /\ t[l] = a /\ t[m] = b
    BY <1>3, <1>4, <2>1, <2>3
  <2> QED
    BY <1>2, <2>4 DEF Before
<1> QED
  BY <1>1, <1>6, <1>7, <1>8 DEF t

(***************************************************************************)
(* The invariant, worker by worker.                                        *)
(***************************************************************************)
Tags == [owner : Holders, module : Modules, ident : Idents]

HistoryOK ==
    /\ steady \in [Workers -> SUBSET Holders]
    /\ behind \in [Workers -> BOOLEAN]
    /\ disturbed \in [Workers -> BOOLEAN]
    /\ absent \in [Workers -> BOOLEAN]
    /\ acked \subseteq Tags
    /\ due \in [Workers -> SUBSET Tags]

\* What a call can be that is on its way or has ended.
AskedFits(w) ==
    /\ pc[w] # "idle" /\ call[w].op = "find" =>
          /\ call[w].ident \in Idents
          /\ call[w].module \in Modules \/ (side = "group" /\ call[w].module = AnyModule)
    /\ pc[w] # "idle" /\ call[w].op = "tag" => Asked(call[w]) \in Tags
    /\ pc[w] = "read" => (call[w].op = "tag" /\ side = "group") \/ call[w].op = "label"
    /\ pc[w] = "absent" => call[w].op = "find"

\* What a write that is to be read back has left, and what a write that has
\* ended reports.
WrittenFits(w) ==
    /\ pc[w] = "read" /\ ~disturbed[w] => \A r \in Subject(call[w]) :
          /\ call[w].op = "tag" => /\ r.ident = call[w].ident
                                   /\ r.module = Named(call[w]).module
          /\ call[w].op = "label" => call[w].label \in {Blank, r.label}
    /\ pc[w] = "ok" =>
          /\ call[w].op = "tag" =>
                /\ answer[w].owner = call[w].who
                /\ disturbed[w] \/ answer[w].ident = call[w].ident
          /\ call[w].op = "label" =>
                /\ answer[w].id = call[w].id
                /\ disturbed[w] \/ call[w].label \in {Blank, answer[w].label}
          /\ call[w].op = "remove" => absent[w]

\* Nobody who carried the identity all along is in what a scan has behind it,
\* as long as nothing has left that part of the listing.
ScanFits(w) ==
    /\ pc[w] = "busy" /\ call[w].op = "find" =>
          /\ steady[w] \subseteq Carriers(call[w])
          /\ ~behind[w] => \A i \in 1..skip[w] :
                i \in DOMAIN Listed(call[w]) => Listed(call[w])[i] \notin steady[w]
    /\ pc[w] = "absent" /\ ~behind[w] => steady[w] = {}
    /\ Found(w) => Wanted(call[w], answer[w])

\* Hub reports a tag as it was set, but for the module a group comes from.
ReportedAsSet(t) == side = "user" \/ imported[t.owner] \in {None, t.module}

\* Every tag acked and not undone is there.
AckedHeld ==
    \A t \in acked : \E r \in identities :
        /\ r.owner = t.owner /\ r.ident = t.ident
        /\ ReportedAsSet(t) => r.module = t.module

\* Whoever a scan owes an acked tag was there all along.
DueFits(w) ==
    /\ pc[w] = "busy" /\ call[w].op = "find" => due[w] \subseteq acked
    /\ pc[w] \in {"busy", "absent"} /\ call[w].op = "find" =>
          \A t \in due[w] :
             /\ Wanted(call[w], t)
             /\ (call[w].module = AnyModule \/ ReportedAsSet(t)) => t.owner \in steady[w]

Fits(w) == AskedFits(w) /\ WrittenFits(w) /\ ScanFits(w) /\ DueFits(w)

IdentityInv == TypeOK /\ HistoryOK /\ AckedHeld /\ \A w \in Workers : Fits(w)

(***************************************************************************)
(* What a call sees of Hub, with Hub's state as a parameter: the same      *)
(* facts are needed before and after a step.                               *)
(***************************************************************************)
CarriersIn(held, c) == {r.owner : r \in {s \in held : Wanted(c, s)}}

ListedIn(kind, listed, held, c) ==
    IF kind = "group" THEN listed
    ELSE Kept(listed, {r.owner : r \in {s \in held : s.module = c.module}})

SubjectIn(held, c) == {r \in held : r.id = c.id /\ r.owner = c.who}

LEMMA WhatCallsSee ==
  ASSUME NEW c
  PROVE  /\ Carriers(c) = CarriersIn(identities, c)
         /\ Listed(c) = ListedIn(side, listing, identities, c)
         /\ Subject(c) = SubjectIn(identities, c)
  BY DEF Carriers, CarriersIn, Listed, ListedIn, Known, Subject, SubjectIn

LEMMA WhatCallsSeeNext ==
  ASSUME NEW v, call'[v] = call[v]
  PROVE  /\ Carriers(call[v])' = CarriersIn(identities', call[v])
         /\ Listed(call[v])' = ListedIn(side', listing', identities', call[v])
         /\ Subject(call[v])' = SubjectIn(identities', call[v])
  BY DEF Carriers, CarriersIn, Listed, ListedIn, Known, Subject, SubjectIn, Wanted

LEMMA CarriersAreListed ==
  ASSUME NEW kind, NEW listed, NEW from, NEW held, NEW owners,
         Consistent(kind, listed, from, held, owners),
         NEW c, kind = "group" \/ c.module \in Modules
  PROVE  /\ ListedIn(kind, listed, held, c) \in Seq(Holders)
         /\ IsInjective(ListedIn(kind, listed, held, c))
         /\ CarriersIn(held, c) \subseteq Range(ListedIn(kind, listed, held, c))
<1>1. /\ listed \in Seq(Holders) /\ IsInjective(listed)
      /\ \A r \in held : r.owner \in Range(listed)
  BY DEF Consistent
<1>2. CASE kind = "group"
  BY <1>1, <1>2 DEF ListedIn, CarriersIn
<1>3. CASE kind # "group"
  <2> DEFINE T == {r.owner : r \in {s \in held : s.module = c.module}}
  <2>1. ListedIn(kind, listed, held, c) = Kept(listed, T)
    BY <1>3 DEF ListedIn
  <2>2. CarriersIn(held, c) \subseteq T
    BY <1>3, ValuesAssumption DEF CarriersIn, Wanted
  <2>3. CarriersIn(held, c) \subseteq Range(listed)
    BY <1>1 DEF CarriersIn
  <2> HIDE DEF T
  <2> QED
    BY <1>1, <2>1, <2>2, <2>3, KeptProperties
<1> QED
  BY <1>2, <1>3

\* A scan that has everybody of A in front of it, still has after a change.
LEMMA ScanStaysAhead ==
  ASSUME NEW kind, NEW listed, NEW from, NEW held, NEW owners,
         Consistent(kind, listed, from, held, owners),
         NEW listed2, NEW from2, NEW held2, NEW owners2,
         Consistent(kind, listed2, from2, held2, owners2), OrderKept(listed, listed2),
         NEW c, kind = "group" \/ c.module \in Modules,
         NEW n \in Nat, NEW A, A \subseteq CarriersIn(held, c),
         \A i \in 1..n : i \in DOMAIN ListedIn(kind, listed, held, c) =>
             /\ ListedIn(kind, listed, held, c)[i] \notin A
             /\ ListedIn(kind, listed, held, c)[i] \in Range(ListedIn(kind, listed2, held2, c))
  PROVE  \A i \in 1..n : i \in DOMAIN ListedIn(kind, listed2, held2, c) =>
             ListedIn(kind, listed2, held2, c)[i] \notin A
<1> DEFINE s == ListedIn(kind, listed, held, c)
           t == ListedIn(kind, listed2, held2, c)
<1>1. s \in Seq(Holders) /\ A \subseteq Range(s)
  BY CarriersAreListed
<1>2. t \in Seq(Holders) /\ IsInjective(t)
  BY CarriersAreListed
<1>3. OrderKept(s, t)
  <2>1. CASE kind = "group"
    BY <2>1 DEF ListedIn
  <2>2. CASE kind # "group"
    <3>1. /\ listed \in Seq(Holders) /\ IsInjective(listed)
          /\ listed2 \in Seq(Holders) /\ IsInjective(listed2)
      BY DEF Consistent
    <3>2. \A T, U : OrderKept(Kept(listed, T), Kept(listed2, U))
      BY <3>1, FiltersKeepOrder
    <3> QED
      BY <2>2, <3>2 DEF ListedIn
  <2> QED
    BY <2>1, <2>2
<1>4. \A i \in 1..n : i \in DOMAIN s => s[i] \in Range(t) /\ s[i] \notin A
  OBVIOUS
<1> HIDE DEF s, t
<1>5. \A i \in 1..n : i \in DOMAIN t => t[i] \notin A
  BY <1>1, <1>2, <1>3, <1>4, NobodySlipsBehind
<1> QED
  BY <1>5 DEF t

(***************************************************************************)
(* Types.                                                                  *)
(***************************************************************************)
LEMMA IdentityInitInv == Init => IdentityInv
<1> SUFFICES ASSUME Init
             PROVE  IdentityInv
  OBVIOUS
<1>1. Consistent(side, listing, imported, identities, made)
  BY ScenariosAssumption DEF Init
<1>2. NoCall \in CallRecords
  BY BoundsAssumption DEF NoCall, CallRecords, Labels, Blank
<1>3. TypeOK
  BY <1>1, <1>2, BoundsAssumption DEF Init, TypeOK
<1>4. HistoryOK /\ AckedHeld
  BY DEF Init, HistoryOK, AckedHeld
<1>5. \A w \in Workers : Fits(w)
  BY DEF Init, Fits, AskedFits, WrittenFits, ScanFits, DueFits, Found
<1> QED
  BY <1>3, <1>4, <1>5 DEF IdentityInv

\* Each kind of write leaves Hub with something it may hold.
LEMMA TagKeepsConsistent ==
  ASSUME TypeOK, NEW c \in CallRecords, Asked(c) \in Tags, TagEffect(c)
  PROVE  Named(c) \in Identities /\ Consistent(side, listing, imported, identities', made')
<1>1. c.who \in Holders /\ c.module \in Modules /\ c.ident \in Idents /\ c.label \in Labels
  BY DEF CallRecords, Asked, Tag, Tags
<1>2. /\ Consistent(side, listing, imported, identities, made)
      /\ c.who \in Range(listing) /\ (side = "user" => Len(made) < MaxDetails)
      /\ made \in Seq(Holders) /\ Len(made) \in Nat /\ DOMAIN made = 1..Len(made)
  BY Domains DEF TypeOK, Consistent, TagEffect, Exists
<1>3. Named(c) \in Identities /\ Named(c).owner = c.who /\ (side = "user" => Named(c).id = Len(made) + 1)
  <2> DEFINE m == IF side = "group" /\ imported[c.who] # None THEN imported[c.who] ELSE c.module
  <2>1. m \in Modules \union {None}
    BY <1>1, <1>2 DEF Consistent
  <2>2. (IF side = "user" THEN Len(made) + 1 ELSE 0) \in 0..MaxDetails
    BY <1>2, BoundsAssumption
  <2>3. Named(c) = Identity(c, m)
    BY DEF Named
  <2> HIDE DEF m
  <2> QED
    BY <1>1, <2>1, <2>2, <2>3 DEF Identity, Identities
<1>4. identities' = {r \in identities : side = "user" \/ r.owner # c.who} \union {Named(c)}
  BY DEF TagEffect
<1>5. /\ made' \in Seq(Holders) /\ Len(made') <= MaxDetails /\ DOMAIN made \subseteq DOMAIN made'
      /\ side = "user" => Len(made) + 1 \in DOMAIN made'
  <2>1. CASE side = "user"
    <3>1. made' = Append(made, c.who)
      BY <2>1 DEF TagEffect
    <3>2. made' \in Seq(Holders) /\ Len(made') = Len(made) + 1
      BY <1>1, <1>2, <3>1, AppendProperties
    <3>3. DOMAIN made' = 1..(Len(made) + 1)
      BY <3>2, Domains
    <3> QED
      BY <1>2, <2>1, <3>2, <3>3, BoundsAssumption
  <2>2. CASE side # "user"
    BY <1>2, <2>2 DEF TagEffect, Consistent
  <2> QED
    BY <2>1, <2>2
<1>6. \A r \in identities : side = "user" => r.id # Len(made) + 1
  BY <1>2 DEF Consistent
<1>7. identities' \subseteq Identities /\ \A r \in identities' : r.owner \in Range(listing)
  BY <1>2, <1>3, <1>4 DEF Consistent
<1>8. \A r \in identities' : side = "user" => r.id \in DOMAIN made'
  BY <1>2, <1>3, <1>4, <1>5 DEF Consistent
<1>9. \A r, s \in identities' : r.id = s.id /\ r.owner = s.owner => r = s
  BY <1>2, <1>3, <1>4, <1>6 DEF Consistent
<1> QED
  BY <1>2, <1>3, <1>5, <1>7, <1>8, <1>9 DEF Consistent

LEMMA LabelKeepsConsistent ==
  ASSUME TypeOK, NEW c \in CallRecords, LabelEffect(c)
  PROVE  Consistent(side, listing, imported, identities', made')
<1>1. Consistent(side, listing, imported, identities, made) /\ c.label \in Labels /\ made' = made
  BY DEF TypeOK, CallRecords, LabelEffect
<1> DEFINE New(r) == IF r \in Subject(c) /\ c.label # Blank THEN [r EXCEPT !.label = c.label] ELSE r
<1>2. identities' = {New(r) : r \in identities}
  BY DEF LabelEffect
<1>3. \A r \in identities : New(r) \in Identities /\ New(r).owner = r.owner /\ New(r).id = r.id
  BY <1>1 DEF Consistent, Identities
<1> HIDE DEF New
<1> QED
  BY <1>1, <1>2, <1>3 DEF Consistent

LEMMA EffectKeepsConsistent ==
  ASSUME TypeOK, NEW c \in CallRecords, Effect(c),
         c.op # "find", c.op = "tag" => Asked(c) \in Tags
  PROVE  Consistent(side, listing, imported, identities', made')
<1>1. CASE c.op = "tag"
  BY <1>1, TagKeepsConsistent DEF Effect
<1>2. CASE c.op = "label"
  BY <1>2, LabelKeepsConsistent DEF Effect
<1>3. CASE c.op = "remove"
  <2>1. RemoveEffect(c)
    BY <1>3 DEF Effect
  <2> QED
    BY <2>1 DEF RemoveEffect, Consistent, TypeOK
<1> QED
  BY <1>1, <1>2, <1>3 DEF CallRecords

\* Somebody comes or goes: the others stay in their order.
LEMMA ChangeKeepsConsistent ==
  ASSUME TypeOK, Create \/ Delete, UNCHANGED <<side, imported, made>>
  PROVE  /\ Consistent(side, listing', imported, identities', made')
         /\ gone' \subseteq Holders \ Range(listing')
         /\ OrderKept(listing, listing')
<1>1. /\ Consistent(side, listing, imported, identities, made) /\ made' = made
      /\ listing \in Seq(Holders) /\ IsInjective(listing)
      /\ Len(listing) \in Nat /\ DOMAIN listing = 1..Len(listing)
      /\ gone \subseteq Holders \ Range(listing)
      /\ imported \in [Holders -> Modules \union {None}]
  BY Domains DEF TypeOK, Consistent
<1>2. CASE Create
  <2>1. PICK h \in Holders \ (Range(listing) \union gone), i \in 1..(Len(listing) + 1) :
           /\ listing' = WithAt(listing, i, h)
           /\ identities' = IF side = "user" THEN identities
                            ELSE identities \union
                                 {[id |-> 0, owner |-> h, module |-> imported[h],
                                   ident |-> None, label |-> Blank]}
           /\ UNCHANGED gone
    BY <1>2 DEF Create
  <2>2. /\ listing' \in Seq(Holders) /\ IsInjective(listing')
        /\ Range(listing') = Range(listing) \union {h}
        /\ OrderKept(listing, listing')
    BY <1>1, <2>1, CreatingKeepsOrder
  <2>3. [id |-> 0, owner |-> h, module |-> imported[h], ident |-> None, label |-> Blank] \in Identities
    BY <1>1, BoundsAssumption DEF Identities, Labels
  <2>4. \A r \in identities : r.owner # h
    BY <1>1, <2>1 DEF Consistent
  <2>5. Consistent(side, listing', imported, identities', made')
    <3>1. CASE side = "user"
      BY <1>1, <2>1, <2>2, <3>1 DEF Consistent
    <3>2. CASE side # "user"
      BY <1>1, <2>1, <2>2, <2>3, <2>4, <3>2 DEF Consistent
    <3> QED
      BY <3>1, <3>2
  <2> QED
    BY <1>1, <2>1, <2>2, <2>5
<1>3. CASE Delete
  <2>1. PICK i \in 1..Len(listing) :
           /\ listing' = Without(listing, i)
           /\ identities' = {r \in identities : r.owner # listing[i]}
           /\ gone' = gone \union {listing[i]}
    BY <1>1, <1>3 DEF Delete
  <2>2. /\ listing' \in Seq(Holders) /\ IsInjective(listing')
        /\ Range(listing') = Range(listing) \ {listing[i]}
        /\ OrderKept(listing, listing')
    BY <1>1, <2>1, DeletingKeepsOrder
  <2>3. listing[i] \in Holders
    BY <1>1, Domains
  <2>4. Consistent(side, listing', imported, identities', made')
    BY <1>1, <2>1, <2>2 DEF Consistent
  <2> QED
    BY <1>1, <2>1, <2>2, <2>3, <2>4
<1> QED
  BY <1>2, <1>3

(***************************************************************************)
(* The history that a step records, for one worker.                        *)
(***************************************************************************)
Held(held, t) ==
    \E r \in held : /\ r.owner = t.owner /\ r.ident = t.ident
                    /\ ReportedAsSet(t) => r.module = t.module

LEMMA AckedIsCarried ==
  ASSUME NEW held, NEW t, Held(held, t),
         NEW c, Wanted(c, t), c.module = AnyModule \/ ReportedAsSet(t)
  PROVE  t.owner \in CarriersIn(held, c)
  BY DEF Held, CarriersIn, Wanted

LEMMA ObservedAt ==
  ASSUME NEW u, NEW tags, Observe(u, tags), HistoryOK,
         NEW v \in Workers, call'[v] = call[v]
  PROVE  /\ Pending(v) => /\ steady'[v] = steady[v] \intersect CarriersIn(identities', call[v])
                          /\ due'[v] = due[v] \intersect acked'
         /\ ~Pending(v) => /\ steady'[v] = steady[v] /\ due'[v] = due[v]
                           /\ disturbed'[v] = disturbed[v]
         /\ ~behind'[v] =>
              /\ ~behind[v]
              /\ Pending(v) => \A i \in 1..skip[v] :
                    i \in DOMAIN ListedIn(side, listing, identities, call[v]) =>
                      ListedIn(side, listing, identities, call[v])[i]
                        \in Range(ListedIn(side', listing', identities', call[v]))
         /\ v = u => disturbed'[v] = disturbed[v]
         /\ v # u /\ Pending(v) /\ ~disturbed'[v] =>
              /\ ~disturbed[v]
              /\ SubjectIn(identities', call[v]) = SubjectIn(identities, call[v])
         /\ absent[v] => absent'[v]
         /\ Pending(v) /\ SubjectIn(identities', call[v]) = {} => absent'[v]
<1>1. /\ Carriers(call[v])' = CarriersIn(identities', call[v])
      /\ Listed(call[v])' = ListedIn(side', listing', identities', call[v])
      /\ Subject(call[v])' = SubjectIn(identities', call[v])
  BY WhatCallsSeeNext
<1>2. /\ Listed(call[v]) = ListedIn(side, listing, identities, call[v])
      /\ Subject(call[v]) = SubjectIn(identities, call[v])
  BY WhatCallsSee
<1>3. /\ Pending(v) => /\ steady'[v] = steady[v] \intersect Carriers(call[v])'
                       /\ due'[v] = due[v] \intersect acked'
      /\ ~Pending(v) => steady'[v] = steady[v] /\ due'[v] = due[v]
  BY DEF Observe
<1>4. ~behind'[v] => /\ ~behind[v]
                     /\ Pending(v) => \A i \in 1..skip[v] : i \in DOMAIN Listed(call[v]) =>
                           Listed(call[v])[i] \in Range(Listed(call[v])')
  BY DEF Observe
<1>5. /\ ~Pending(v) \/ v = u => disturbed'[v] = disturbed[v]
      /\ v # u /\ Pending(v) /\ ~disturbed'[v] => ~disturbed[v] /\ Subject(call[v])' = Subject(call[v])
  BY DEF Observe
<1>6. /\ absent[v] => absent'[v]
      /\ Pending(v) /\ Subject(call[v])' = {} => absent'[v]
  BY DEF Observe
<1>7. ~behind'[v] => /\ ~behind[v]
                     /\ Pending(v) => \A i \in 1..skip[v] :
                          i \in DOMAIN ListedIn(side, listing, identities, call[v]) =>
                            ListedIn(side, listing, identities, call[v])[i]
                              \in Range(ListedIn(side', listing', identities', call[v]))
  BY <1>1, <1>2, <1>4
<1> QED
  BY <1>1, <1>2, <1>3, <1>5, <1>6, <1>7

LEMMA ObserveTypes ==
  ASSUME HistoryOK, NEW u, NEW tags, Observe(u, tags), tags \subseteq Tags
  PROVE  HistoryOK'
<1>1. /\ steady' \in [Workers -> SUBSET Holders]
      /\ acked' \subseteq Tags
      /\ due' \in [Workers -> SUBSET Tags]
  BY DEF HistoryOK, Observe
<1>2. behind' \in [Workers -> BOOLEAN]
  BY DEF HistoryOK, Observe
<1>3. disturbed' \in [Workers -> BOOLEAN]
  BY DEF HistoryOK, Observe
<1>4. absent' \in [Workers -> BOOLEAN]
  BY DEF HistoryOK, Observe
<1> QED
  BY <1>1, <1>2, <1>3, <1>4 DEF HistoryOK

\* A tag is no longer counted as acked once its identity is overwritten or
\* removed; those acked in the step itself are there.
LEMMA AckedStaysHeld ==
  ASSUME IdentityInv, UNCHANGED <<side, imported>>, identities' \subseteq Identities,
         NEW u, NEW tags, Observe(u, tags), \A t \in tags : Held(identities', t)
  PROVE  AckedHeld' /\ \A t \in acked' : Held(identities', t)
<1>1. acked' = {t \in acked : ~Undone(t)} \union tags
  BY DEF Observe
<1>2. identities \subseteq Identities /\ AckedHeld
  BY DEF IdentityInv, TypeOK, Consistent
<1>3. ASSUME NEW t \in acked, ~Undone(t)
      PROVE  Held(identities', t)
  <2>1. PICK r \in identities : /\ r.owner = t.owner /\ r.ident = t.ident
                                /\ ReportedAsSet(t) => r.module = t.module
    BY <1>2 DEF AckedHeld
  <2> DEFINE b == [r EXCEPT !.label = Blank]
  <2>2. b.owner = r.owner /\ b.ident = r.ident /\ b.module = r.module
    BY <1>2 DEF Identities
  <2>3. b \in Unlabelled(identities)
    BY DEF Unlabelled
  <2> HIDE DEF b
  <2>4. b \in Unlabelled(identities)'
    BY <1>3, <2>1, <2>2, <2>3 DEF Undone
  <2>5. PICK s \in identities' : b = [s EXCEPT !.label = Blank]
    BY <2>4 DEF Unlabelled
  <2>6. s.owner = b.owner /\ s.ident = b.ident /\ s.module = b.module
    BY <2>5 DEF Identities
  <2> QED
    BY <2>1, <2>2, <2>6 DEF Held
<1>4. \A t \in acked' : Held(identities', t)
  BY <1>1, <1>3
<1>5. \A t : ReportedAsSet(t)' <=> ReportedAsSet(t)
  BY DEF ReportedAsSet
<1> QED
  BY <1>4, <1>5 DEF AckedHeld, Held

(***************************************************************************)
(* A step of somebody else.                                                *)
(***************************************************************************)
LEMMA QuietFits ==
  ASSUME NEW v \in Workers, Fits(v), UNCHANGED hubVars, acked \subseteq acked',
         call'[v] = call[v], pc'[v] = pc[v], skip'[v] = skip[v], answer'[v] = answer[v],
         steady'[v] = steady[v], behind'[v] = behind[v], disturbed'[v] = disturbed[v],
         absent'[v] = absent[v], due'[v] = due[v]
  PROVE  Fits(v)'
<1>1. /\ side' = side /\ imported' = imported /\ identities' = identities
      /\ listing' = listing /\ made' = made
  BY DEF hubVars
<1>2. /\ Carriers(call[v])' = Carriers(call[v])
      /\ Listed(call[v])' = Listed(call[v])
      /\ Subject(call[v])' = Subject(call[v])
  BY <1>1, WhatCallsSee, WhatCallsSeeNext
<1>3. AskedFits(v)'
  BY <1>1 DEF Fits, AskedFits, Asked, Tag
<1>4. WrittenFits(v)'
  <2>1. Named(call[v])'.module = Named(call[v]).module
    BY <1>1 DEF Named, Identity
  <2> QED
    BY <1>2, <2>1 DEF Fits, WrittenFits
<1>5. ScanFits(v)'
  BY <1>2 DEF Fits, ScanFits, Found, Wanted
<1>6. DueFits(v)'
  BY <1>1 DEF Fits, DueFits, ReportedAsSet, Wanted
<1> QED
  BY <1>3, <1>4, <1>5, <1>6 DEF Fits

LEMMA BystanderFits ==
  ASSUME IdentityInv, UNCHANGED <<side, imported, call, skip>>,
         Consistent(side, listing', imported, identities', made'),
         OrderKept(listing, listing'),
         NEW u, NEW tags, Observe(u, tags), \A t \in acked' : Held(identities', t),
         NEW v \in Workers, v # u, pc'[v] = pc[v], answer'[v] = answer[v]
  PROVE  Fits(v)'
<1>1. /\ TypeOK /\ HistoryOK
      /\ AskedFits(v) /\ WrittenFits(v) /\ ScanFits(v) /\ DueFits(v)
      /\ Consistent(side, listing, imported, identities, made)
      /\ side' = side /\ imported' = imported /\ call'[v] = call[v] /\ skip'[v] = skip[v]
      /\ skip[v] \in Nat /\ pc[v] \in {"idle", "busy", "read", "ok", "absent", "error"}
  BY DEF IdentityInv, Fits, TypeOK
<1>2. /\ Pending(v) => /\ steady'[v] = steady[v] \intersect CarriersIn(identities', call[v])
                       /\ due'[v] = due[v] \intersect acked'
      /\ ~Pending(v) => /\ steady'[v] = steady[v] /\ due'[v] = due[v]
                        /\ disturbed'[v] = disturbed[v]
      /\ ~behind'[v] =>
           /\ ~behind[v]
           /\ Pending(v) => \A i \in 1..skip[v] :
                 i \in DOMAIN ListedIn(side, listing, identities, call[v]) =>
                   ListedIn(side, listing, identities, call[v])[i]
                     \in Range(ListedIn(side, listing', identities', call[v]))
      /\ Pending(v) /\ ~disturbed'[v] =>
           /\ ~disturbed[v]
           /\ SubjectIn(identities', call[v]) = SubjectIn(identities, call[v])
      /\ absent[v] => absent'[v]
  BY <1>1, ObservedAt
<1>3. /\ Carriers(call[v])' = CarriersIn(identities', call[v])
      /\ Listed(call[v])' = ListedIn(side, listing', identities', call[v])
      /\ Subject(call[v])' = SubjectIn(identities', call[v])
  BY <1>1, WhatCallsSeeNext
<1>4. /\ Carriers(call[v]) = CarriersIn(identities, call[v])
      /\ Listed(call[v]) = ListedIn(side, listing, identities, call[v])
      /\ Subject(call[v]) = SubjectIn(identities, call[v])
  BY WhatCallsSee
<1>5. AskedFits(v)'
  BY <1>1 DEF AskedFits, Asked, Tag
<1>6. WrittenFits(v)'
  <2>1. Named(call[v])'.module = Named(call[v]).module
    BY <1>1 DEF Named, Identity
  <2>2. CASE pc[v] = "read"
    <3>1. Pending(v)
      BY <2>2 DEF Pending
    <3> QED
      BY <1>1, <1>2, <1>3, <1>4, <2>1, <2>2, <3>1 DEF WrittenFits
  <2>3. CASE pc[v] = "ok"
    <3>1. ~Pending(v)
      BY <2>3 DEF Pending
    <3> QED
      BY <1>1, <1>2, <2>3, <3>1 DEF WrittenFits
  <2>4. CASE pc[v] \notin {"read", "ok"}
    BY <2>4 DEF WrittenFits
  <2> QED
    BY <2>2, <2>3, <2>4
<1>7. ScanFits(v)'
  <2>1. CASE pc[v] = "busy" /\ call[v].op = "find"
    <3>1. Pending(v) /\ (side = "group" \/ call[v].module \in Modules)
      BY <1>1, <2>1 DEF Pending, AskedFits
    <3>2. steady'[v] \subseteq steady[v] /\ steady'[v] \subseteq Carriers(call[v])'
      BY <1>2, <1>3, <3>1
    <3>3. ASSUME ~behind'[v]
          PROVE  \A i \in 1..skip[v] : i \in DOMAIN Listed(call[v])' =>
                     Listed(call[v])'[i] \notin steady'[v]
      <4>1. steady[v] \subseteq CarriersIn(identities, call[v])
        BY <1>1, <1>4, <2>1 DEF ScanFits
      <4>2. \A i \in 1..skip[v] : i \in DOMAIN ListedIn(side, listing, identities, call[v]) =>
                /\ ListedIn(side, listing, identities, call[v])[i] \notin steady[v]
                /\ ListedIn(side, listing, identities, call[v])[i]
                     \in Range(ListedIn(side, listing', identities', call[v]))
        BY <1>1, <1>2, <1>4, <2>1, <3>1, <3>3 DEF ScanFits
      <4>3. \A i \in 1..skip[v] : i \in DOMAIN ListedIn(side, listing', identities', call[v]) =>
                ListedIn(side, listing', identities', call[v])[i] \notin steady[v]
        BY <1>1, <3>1, <4>1, <4>2, ScanStaysAhead
      <4> QED
        BY <1>3, <3>2, <4>3
    <3> QED
      BY <1>1, <2>1, <3>2, <3>3 DEF ScanFits, Found
  <2>2. CASE pc[v] = "absent" \/ Found(v)
    <3>1. ~Pending(v)
      BY <2>2 DEF Pending, Found
    <3> QED
      BY <1>1, <1>2, <2>2, <3>1 DEF ScanFits, Found, Wanted
  <2>3. CASE ~(pc[v] = "busy" /\ call[v].op = "find") /\ ~(pc[v] = "absent" \/ Found(v))
    BY <1>1, <2>3 DEF ScanFits, Found
  <2> QED
    BY <2>1, <2>2, <2>3
<1>8. DueFits(v)'
  <2>1. \A t : (ReportedAsSet(t)' <=> ReportedAsSet(t)) /\ (Wanted(call[v], t)' <=> Wanted(call[v], t))
    BY <1>1 DEF ReportedAsSet, Wanted
  <2>2. CASE pc[v] = "busy" /\ call[v].op = "find"
    <3>1. Pending(v)
      BY <2>2 DEF Pending
    <3>2. due'[v] \subseteq acked' /\ due'[v] \subseteq due[v]
      BY <1>2, <3>1
    <3>3. ASSUME NEW t \in due'[v]
          PROVE  /\ Wanted(call[v], t)
                 /\ (call[v].module = AnyModule \/ ReportedAsSet(t)) => t.owner \in steady'[v]
      <4>1. /\ Wanted(call[v], t)
            /\ (call[v].module = AnyModule \/ ReportedAsSet(t)) => t.owner \in steady[v]
        BY <1>1, <2>2, <3>2 DEF DueFits
      <4>2. (call[v].module = AnyModule \/ ReportedAsSet(t))
                => t.owner \in CarriersIn(identities', call[v])
        BY <3>2, <4>1, AckedIsCarried
      <4> QED
        BY <1>2, <3>1, <4>1, <4>2
    <3> QED
      BY <1>1, <2>1, <2>2, <3>2, <3>3 DEF DueFits
  <2>3. CASE pc[v] = "absent"
    <3>1. ~Pending(v)
      BY <2>3 DEF Pending
    <3> QED
      BY <1>1, <1>2, <2>1, <2>3, <3>1 DEF DueFits
  <2>4. CASE pc[v] # "absent" /\ ~(pc[v] = "busy" /\ call[v].op = "find")
    BY <1>1, <2>4 DEF DueFits
  <2> QED
    BY <2>2, <2>3, <2>4
<1> QED
  BY <1>5, <1>6, <1>7, <1>8 DEF Fits

(***************************************************************************)
(* Steps that leave Hub as it is.                                          *)
(***************************************************************************)
LEMMA HubRests ==
  ASSUME UNCHANGED hubVars, NEW v, call'[v] = call[v]
  PROVE  /\ Carriers(call[v])' = Carriers(call[v])
         /\ Listed(call[v])' = Listed(call[v])
         /\ Subject(call[v])' = Subject(call[v])
         /\ Named(call[v])'.module = Named(call[v]).module
<1>1. /\ side' = side /\ imported' = imported /\ identities' = identities
      /\ listing' = listing /\ made' = made
  BY DEF hubVars
<1>2. Named(call[v])'.module = Named(call[v]).module
  BY <1>1 DEF Named, Identity
<1> QED
  BY <1>1, <1>2, WhatCallsSee, WhatCallsSeeNext

LEMMA QuietStepInv ==
  ASSUME IdentityInv, UNCHANGED hubVars, calls' \in 0..MaxCalls,
         acked \subseteq acked', acked' \subseteq Tags, \A t \in acked' : Held(identities, t),
         NEW w \in Workers, Fits(w)',
         NEW c \in CallRecords, call' = [call EXCEPT ![w] = c],
         NEW p \in {"busy", "read", "ok", "absent", "error"}, pc' = [pc EXCEPT ![w] = p],
         NEW n \in Nat, skip' = [skip EXCEPT ![w] = n],
         NEW a \in Identities \union {None}, answer' = [answer EXCEPT ![w] = a],
         HistoryOK',
         \A v \in Workers \ {w} :
            /\ steady'[v] = steady[v] /\ behind'[v] = behind[v] /\ disturbed'[v] = disturbed[v]
            /\ absent'[v] = absent[v] /\ due'[v] = due[v]
  PROVE  IdentityInv'
<1>1. /\ side' = side /\ imported' = imported /\ identities' = identities
      /\ listing' = listing /\ made' = made /\ gone' = gone
  BY DEF hubVars
<1>2. TypeOK /\ \A v \in Workers : Fits(v)
  BY DEF IdentityInv
<1>3. TypeOK'
  BY <1>1, <1>2 DEF TypeOK
<1>4. AckedHeld'
  BY <1>1 DEF AckedHeld, Held, ReportedAsSet
<1>5. ASSUME NEW v \in Workers, v # w
      PROVE  Fits(v)'
  <2>1. call'[v] = call[v] /\ pc'[v] = pc[v] /\ skip'[v] = skip[v] /\ answer'[v] = answer[v]
    BY <1>2, <1>5 DEF TypeOK
  <2> QED
    BY <1>2, <1>5, <2>1, QuietFits
<1>6. \A v \in Workers : Fits(v)'
  BY <1>5
<1> QED
  BY <1>3, <1>4, <1>6 DEF IdentityInv

LEMMA BeginInv ==
  ASSUME IdentityInv, NEW w \in Workers, Begin(w)
  PROVE  IdentityInv'
<1>1. /\ TypeOK /\ HistoryOK /\ AckedHeld
      /\ Consistent(side, listing, imported, identities, made)
  BY DEF IdentityInv, TypeOK
<1>2. PICK c \in Finds \union Tagging \union OnDetails :
         /\ call' = [call EXCEPT ![w] = c]
         /\ steady' = [steady EXCEPT ![w] = Carriers(c)]
         /\ due' = [due EXCEPT ![w] = {t \in acked : Wanted(c, t)}]
         /\ absent' = [absent EXCEPT ![w] = Subject(c) = {}]
  BY DEF Begin
<1>3. /\ calls < MaxCalls /\ calls' = calls + 1 /\ UNCHANGED hubVars /\ acked' = acked
      /\ pc' = [pc EXCEPT ![w] = "busy"] /\ skip' = [skip EXCEPT ![w] = 0]
      /\ answer' = [answer EXCEPT ![w] = None]
      /\ behind' = [behind EXCEPT ![w] = FALSE] /\ disturbed' = [disturbed EXCEPT ![w] = FALSE]
  BY DEF Begin
<1>4. /\ c \in CallRecords
      /\ c.op = "find" => /\ c.ident \in Idents
                          /\ c.module \in Modules \/ (side = "group" /\ c.module = AnyModule)
      /\ c.op = "tag" => Asked(c) \in Tags
  <2>1. CASE c \in Finds
    <3>1. PICK m \in Modules \union {AnyModule}, i \in Idents :
             /\ m \in Modules \/ (side = "group" /\ m = AnyModule)
             /\ c = Finding(m, i)
      BY <2>1 DEF Finds
    <3>2. c = [op |-> "find", who |-> None, id |-> 0, module |-> m, ident |-> i, label |-> Blank]
      BY <3>1 DEF Finding, NoCall
    <3>3. 0 \in 0..MaxDetails /\ Blank \in Labels /\ c \in CallRecords
      BY <3>2, BoundsAssumption DEF CallRecords, Labels
    <3> QED
      BY <3>1, <3>2, <3>3
  <2>2. CASE c \in Tagging
    <3>1. Range(listing) \subseteq Holders /\ gone \subseteq Holders
      BY <1>1, Domains DEF TypeOK, Consistent, Range
    <3>2. PICK h \in Holders, m \in Modules, i \in Idents : c = TagOf(h, m, i)
      BY <2>2, <3>1 DEF Tagging
    <3>3. c = [op |-> "tag", who |-> h, id |-> 0, module |-> m, ident |-> i, label |-> Blank]
      BY <3>2 DEF TagOf, NoCall
    <3>4. 0 \in 0..MaxDetails /\ Blank \in Labels /\ c \in CallRecords
      BY <3>3, BoundsAssumption DEF CallRecords, Labels
    <3> QED
      BY <3>3, <3>4 DEF Asked, Tag, Tags
  <2>3. CASE c \in OnDetails
    <3>1. \A d \in DOMAIN made : made[d] \in Holders /\ d \in 0..MaxDetails
      BY <1>1, Domains, BoundsAssumption DEF Consistent
    <3>2. PICK d \in DOMAIN made, l \in Labels, op \in {"label", "remove"} : c = OnDetail(op, d, l)
      BY <2>3 DEF OnDetails, Labels
    <3>3. c = [op |-> op, who |-> made[d], id |-> d, module |-> None, ident |-> None, label |-> l]
      BY <3>2 DEF OnDetail, NoCall
    <3>4. c \in CallRecords
      BY <3>1, <3>2, <3>3 DEF CallRecords
    <3> QED
      BY <3>2, <3>3, <3>4
  <2> QED
    BY <1>2, <2>1, <2>2, <2>3
<1>5. call'[w] = c /\ pc'[w] = "busy" /\ skip'[w] = 0
  BY <1>1, <1>2, <1>3 DEF TypeOK
<1>6. steady'[w] = Carriers(c) /\ due'[w] = {t \in acked : Wanted(c, t)}
  BY <1>1, <1>2 DEF HistoryOK
<1>7. side' = side /\ imported' = imported /\ identities' = identities
  BY <1>3 DEF hubVars
<1>8. Carriers(call[w])' = Carriers(c)
  BY <1>5, <1>7 DEF Carriers, Wanted
<1>9. \A t \in acked : Held(identities, t)
  BY <1>1 DEF AckedHeld, Held
<1>10. AskedFits(w)' /\ WrittenFits(w)'
  BY <1>4, <1>5, <1>7 DEF AskedFits, WrittenFits, Asked, Tag
<1>11. ScanFits(w)'
  BY <1>5, <1>6, <1>8 DEF ScanFits, Found
<1>12. DueFits(w)'
  <2>1. ASSUME NEW t \in due'[w]
        PROVE  /\ Wanted(c, t)
               /\ (c.module = AnyModule \/ ReportedAsSet(t)) => t.owner \in steady'[w]
    BY <1>6, <1>9, AckedIsCarried, WhatCallsSee
  <2> QED
    BY <1>3, <1>5, <1>6, <1>7, <2>1 DEF DueFits, ReportedAsSet, Wanted
<1>13. HistoryOK'
  <2>1. Carriers(c) \subseteq Holders
    BY <1>1 DEF Carriers, Consistent, Identities
  <2>2. steady' \in [Workers -> SUBSET Holders] /\ due' \in [Workers -> SUBSET Tags]
    BY <1>1, <1>2, <2>1 DEF HistoryOK
  <2>3. behind' \in [Workers -> BOOLEAN] /\ disturbed' \in [Workers -> BOOLEAN]
    BY <1>1, <1>3 DEF HistoryOK
  <2>4. absent' \in [Workers -> BOOLEAN]
    BY <1>1, <1>2 DEF HistoryOK
  <2> QED
    BY <1>1, <1>3, <2>2, <2>3, <2>4 DEF HistoryOK
<1>14. \A v \in Workers \ {w} :
          /\ steady'[v] = steady[v] /\ behind'[v] = behind[v] /\ disturbed'[v] = disturbed[v]
          /\ absent'[v] = absent[v] /\ due'[v] = due[v]
  BY <1>1, <1>2, <1>3 DEF HistoryOK
<1>15. calls' \in 0..MaxCalls /\ acked \subseteq acked' /\ acked' \subseteq Tags
  BY <1>1, <1>3, BoundsAssumption DEF TypeOK, HistoryOK
<1>16. Fits(w)'
  BY <1>10, <1>11, <1>12 DEF Fits
<1>17. \A t \in acked' : Held(identities, t)
  BY <1>3, <1>9
<1>18. "busy" \in {"busy", "read", "ok", "absent", "error"} /\ 0 \in Nat /\ None \in Identities \union {None}
  OBVIOUS
<1> QED
  BY <1>2, <1>3, <1>4, <1>13, <1>14, <1>15, <1>16, <1>17, <1>18, QuietStepInv

\* A worker looks at Hub, and its call goes on or ends.
LEMMA OwnQuietStepInv ==
  ASSUME IdentityInv, UNCHANGED <<hubVars, calls, call, steady, behind, disturbed, absent, due>>,
         acked \subseteq acked', acked' \subseteq Tags, \A t \in acked' : Held(identities, t),
         NEW w \in Workers, Fits(w)',
         NEW p \in {"busy", "read", "ok", "absent", "error"}, pc' = [pc EXCEPT ![w] = p],
         NEW n \in Nat, skip' = [skip EXCEPT ![w] = n],
         NEW a \in Identities \union {None}, answer' = [answer EXCEPT ![w] = a]
  PROVE  IdentityInv'
<1>1. TypeOK /\ HistoryOK
  BY DEF IdentityInv
<1>2. call[w] \in CallRecords /\ call' = [call EXCEPT ![w] = call[w]] /\ calls' \in 0..MaxCalls
  BY <1>1 DEF TypeOK
<1>3. HistoryOK'
  BY <1>1 DEF HistoryOK
<1>4. \A v \in Workers \ {w} :
         /\ steady'[v] = steady[v] /\ behind'[v] = behind[v] /\ disturbed'[v] = disturbed[v]
         /\ absent'[v] = absent[v] /\ due'[v] = due[v]
  OBVIOUS
<1> QED
  BY <1>2, <1>3, <1>4, QuietStepInv

\* The same, when no tag is acked either.
LEMMA LookInv ==
  ASSUME IdentityInv, UNCHANGED <<hubVars, calls, call, historyVars>>,
         NEW w \in Workers, Fits(w)',
         NEW p \in {"busy", "read", "ok", "absent", "error"}, pc' = [pc EXCEPT ![w] = p],
         NEW n \in Nat, skip' = [skip EXCEPT ![w] = n],
         NEW a \in Identities \union {None}, answer' = [answer EXCEPT ![w] = a]
  PROVE  IdentityInv'
<1>1. /\ UNCHANGED <<hubVars, calls, call, steady, behind, disturbed, absent, due>>
      /\ acked' = acked
  BY DEF historyVars
<1>2. acked' \subseteq Tags /\ \A t \in acked' : Held(identities, t)
  BY <1>1 DEF IdentityInv, HistoryOK, AckedHeld, Held
<1> QED
  BY <1>1, <1>2, OwnQuietStepInv

\* What the steps of a worker start from.
LEMMA Context ==
  ASSUME IdentityInv, NEW w \in Workers
  PROVE  /\ TypeOK /\ HistoryOK
         /\ Consistent(side, listing, imported, identities, made)
         /\ AskedFits(w) /\ WrittenFits(w) /\ ScanFits(w) /\ DueFits(w)
         /\ call \in [Workers -> CallRecords] /\ call[w] \in CallRecords
         /\ pc \in [Workers -> {"idle", "busy", "read", "ok", "absent", "error"}]
         /\ skip \in [Workers -> Nat] /\ skip[w] \in Nat
         /\ answer \in [Workers -> Identities \union {None}]
         /\ answer[w] \in Identities \union {None}
         /\ skip = [skip EXCEPT ![w] = skip[w]]
         /\ answer = [answer EXCEPT ![w] = answer[w]]
         /\ pc = [pc EXCEPT ![w] = pc[w]]
  BY DEF IdentityInv, TypeOK, Fits

\* The entries of the page a scan is served.
LEMMA ServedProperties ==
  ASSUME IdentityInv, NEW w \in Workers, Busy(w, "find")
  PROVE  /\ Listed(call[w]) \in Seq(Holders) /\ Len(Listed(call[w])) \in Nat
         /\ DOMAIN Listed(call[w]) = 1..Len(Listed(call[w]))
         /\ Carriers(call[w]) \subseteq Range(Listed(call[w]))
         /\ Len(Served(w)) \in 0..PageSize /\ DOMAIN Served(w) = 1..Len(Served(w))
         /\ Len(Served(w)) = PageSize \/ Len(Listed(call[w])) <= skip[w] + Len(Served(w))
         /\ \A i \in 1..Len(Served(w)) : Served(w)[i] = Listed(call[w])[skip[w] + i]
<1>1. /\ Consistent(side, listing, imported, identities, made) /\ skip[w] \in Nat
      /\ side = "group" \/ call[w].module \in Modules
  BY Context DEF Busy, AskedFits
<1>2. Listed(call[w]) \in Seq(Holders) /\ Carriers(call[w]) \subseteq Range(Listed(call[w]))
  BY <1>1, CarriersAreListed, WhatCallsSee
<1>3. PageSize \in Nat
  BY PageSizeAssumption
<1> DEFINE s == Listed(call[w])
<1> HIDE DEF s
<1>4. /\ s \in Seq(Holders)
      /\ Served(w) = Page(s, PageSize, skip[w])
  BY <1>2 DEF s, Served
<1>5. /\ Served(w) \in Seq(Holders)
      /\ Len(Served(w)) \in 0..PageSize
      /\ Len(Served(w)) = PageSize \/ Len(s) <= skip[w] + Len(Served(w))
      /\ \A i \in 1..Len(Served(w)) : Served(w)[i] = s[skip[w] + i]
  <2> DEFINE n == skip[w]
  <2>1. n \in Nat /\ s \in Seq(Holders)
    BY <1>1, <1>4
  <2>2. Served(w) = Page(s, PageSize, n)
    BY <1>4
  <2> HIDE DEF n
  <2>3. /\ Page(s, PageSize, n) \in Seq(Holders)
        /\ Len(Page(s, PageSize, n)) \in 0..PageSize
        /\ Len(Page(s, PageSize, n)) = PageSize \/ Len(s) <= n + Len(Page(s, PageSize, n))
        /\ \A i \in 1..Len(Page(s, PageSize, n)) : Page(s, PageSize, n)[i] = s[n + i]
    BY <1>3, <2>1, PageProperties
  <2> QED
    BY <2>2, <2>3 DEF n
<1>6. DOMAIN Served(w) = 1..Len(Served(w)) /\ Len(s) \in Nat /\ DOMAIN s = 1..Len(s)
  BY <1>4, <1>5, Domains
<1> QED
  BY <1>2, <1>5, <1>6 DEF s

\* On a page without a hit nobody carries what is looked for.
LEMMA NoHits ==
  ASSUME IdentityInv, NEW w \in Workers, Busy(w, "find"), HitsOn(w) = {}
  PROVE  \A i \in 1..Len(Served(w)) : Listed(call[w])[skip[w] + i] \notin Carriers(call[w])
<1> SUFFICES ASSUME NEW i \in 1..Len(Served(w)), Served(w)[i] \in Carriers(call[w])
             PROVE  FALSE
  BY ServedProperties
<1>1. Matches(call[w], Served(w)[i]) # {}
  BY DEF Carriers, Wanted, Matches
<1>2. i \in DOMAIN Served(w)
  BY ServedProperties
<1> QED
  BY <1>1, <1>2 DEF HitsOn

LEMMA FindsOneInv ==
  ASSUME IdentityInv, NEW w \in Workers, FindsOne(w)
  PROVE  IdentityInv'
<1>1. /\ Busy(w, "find") /\ UNCHANGED <<hubVars, calls, call, historyVars>> /\ skip' = skip
      /\ side' = side /\ imported' = imported
  BY DEF FindsOne, hubVars
<1>0. PICK i \in HitsOn(w) : \E r \in Matches(call[w], Served(w)[i]) : Returns(w, "ok", r)
  BY DEF FindsOne
<1>2. PICK r \in Matches(call[w], Served(w)[i]) : Returns(w, "ok", r)
  BY <1>0
<1>3. r \in Identities /\ Wanted(call[w], r)
  BY <1>2, Context DEF Matches, Wanted, Consistent
<1>4. pc' = [pc EXCEPT ![w] = "ok"] /\ answer' = [answer EXCEPT ![w] = r]
  BY <1>2 DEF Returns
<1>5. pc'[w] = "ok" /\ answer'[w] = r /\ call'[w] = call[w] /\ call[w].op = "find" /\ pc[w] = "busy"
  BY <1>1, <1>4, Context DEF Busy
<1>6. AskedFits(w)'
  BY <1>1, <1>5, Context DEF AskedFits
<1>7. WrittenFits(w)' /\ DueFits(w)'
  BY <1>5 DEF WrittenFits, DueFits
<1>8. ScanFits(w)'
  BY <1>3, <1>5 DEF ScanFits, Found, Wanted
<1>9. Fits(w)'
  BY <1>6, <1>7, <1>8 DEF Fits
<1>10. skip[w] \in Nat /\ skip' = [skip EXCEPT ![w] = skip[w]]
  BY <1>1, Context
<1> QED
  BY <1>1, <1>3, <1>4, <1>9, <1>10, LookInv

LEMMA ScansOnInv ==
  ASSUME IdentityInv, NEW w \in Workers, ScansOn(w)
  PROVE  IdentityInv'
<1>1. /\ Busy(w, "find") /\ HitsOn(w) = {} /\ Len(Served(w)) = PageSize
      /\ UNCHANGED <<hubVars, calls, call, historyVars>> /\ pc' = pc /\ answer' = answer
      /\ skip' = [skip EXCEPT ![w] = @ + PageSize]
      /\ steady' = steady /\ behind' = behind /\ due' = due /\ acked' = acked
      /\ side' = side /\ imported' = imported
  BY DEF ScansOn, hubVars, historyVars
<1> DEFINE n == skip[w] + PageSize
<1>2. PageSize \in Nat /\ n \in Nat /\ skip' = [skip EXCEPT ![w] = n] /\ skip'[w] = n
  BY <1>1, Context, PageSizeAssumption
<1>3. pc'[w] = "busy" /\ call'[w] = call[w] /\ call[w].op = "find" /\ pc[w] = "busy"
  BY <1>1 DEF Busy
<1>4. Carriers(call[w])' = Carriers(call[w]) /\ Listed(call[w])' = Listed(call[w])
  BY <1>1, <1>3, HubRests
<1>5. AskedFits(w)' /\ WrittenFits(w)'
  BY <1>1, <1>3, Context DEF AskedFits, WrittenFits
<1>6. DueFits(w)'
  BY <1>1, <1>3, Context DEF DueFits, ReportedAsSet, Wanted
<1>7. ScanFits(w)'
  <2>1. steady[w] \subseteq Carriers(call[w])
    BY <1>3, Context DEF ScanFits
  <2>2. ASSUME ~behind[w], NEW i \in 1..n, i \in DOMAIN Listed(call[w])
        PROVE  Listed(call[w])[i] \notin steady[w]
    <3>1. CASE i <= skip[w]
      BY <1>3, <2>2, <3>1, Context DEF ScanFits
    <3>2. CASE skip[w] < i
      <4> DEFINE j == i - skip[w]
      <4>1. j \in 1..Len(Served(w)) /\ skip[w] + j = i
        BY <1>1, <1>2, <3>2, Context
      <4> HIDE DEF j
      <4> QED
        BY <1>1, <2>1, <4>1, NoHits
    <3> QED
      BY <1>2, <3>1, <3>2, Context
  <2> HIDE DEF n
  <2> QED
    BY <1>1, <1>2, <1>3, <1>4, <2>1, <2>2 DEF ScanFits, Found
<1>8. Fits(w)'
  BY <1>5, <1>6, <1>7 DEF Fits
<1>9. /\ pc' = [pc EXCEPT ![w] = "busy"]
      /\ answer[w] \in Identities \union {None} /\ answer' = [answer EXCEPT ![w] = answer[w]]
  BY <1>1, <1>3, Context
<1> HIDE DEF n
<1> QED
  BY <1>1, <1>2, <1>8, <1>9, LookInv

LEMMA FindsNoneInv ==
  ASSUME IdentityInv, NEW w \in Workers, FindsNone(w)
  PROVE  IdentityInv'
<1>1. /\ Busy(w, "find") /\ HitsOn(w) = {} /\ Len(Served(w)) < PageSize
      /\ UNCHANGED <<hubVars, calls, call, historyVars>> /\ skip' = skip
      /\ pc' = [pc EXCEPT ![w] = "absent"] /\ answer' = [answer EXCEPT ![w] = None]
      /\ steady' = steady /\ behind' = behind /\ due' = due
      /\ side' = side /\ imported' = imported
  BY DEF FindsNone, Returns, hubVars, historyVars
<1>2. pc'[w] = "absent" /\ call'[w] = call[w] /\ call[w].op = "find" /\ pc[w] = "busy"
  BY <1>1, Context DEF Busy
<1>3. ASSUME ~behind[w]
      PROVE  steady[w] = {}
  <2>1. SUFFICES ASSUME NEW h \in steady[w]
                 PROVE  FALSE
    OBVIOUS
  <2>2. h \in Carriers(call[w])
    BY <1>2, Context DEF ScanFits
  <2>3. PICK i \in 1..Len(Listed(call[w])) : h = Listed(call[w])[i]
    BY <1>1, <2>2, ServedProperties DEF Range
  <2>4. CASE i <= skip[w]
    <3>1. i \in 1..skip[w] /\ i \in DOMAIN Listed(call[w])
      BY <1>1, <2>4, Context, ServedProperties
    <3> QED
      BY <1>2, <1>3, <2>3, <3>1, Context DEF ScanFits
  <2>5. CASE skip[w] < i
    <3> DEFINE j == i - skip[w]
    <3>1. j \in 1..Len(Served(w)) /\ skip[w] + j = i
      <4>1. /\ skip[w] \in Nat /\ Len(Served(w)) \in Nat /\ Len(Served(w)) # PageSize
            /\ Len(Listed(call[w])) \in Nat
        BY <1>1, Context, ServedProperties, PageSizeAssumption
      <4>2. Len(Listed(call[w])) <= skip[w] + Len(Served(w))
        BY <1>1, <4>1, ServedProperties
      <4> QED
        BY <2>5, <4>1, <4>2
    <3> HIDE DEF j
    <3> QED
      BY <1>1, <2>2, <2>3, <3>1, NoHits
  <2> QED
    BY <2>4, <2>5, Context
<1>4. AskedFits(w)' /\ WrittenFits(w)'
  BY <1>1, <1>2, Context DEF AskedFits, WrittenFits
<1>5. DueFits(w)'
  BY <1>1, <1>2, Context DEF DueFits, ReportedAsSet, Wanted
<1>6. ScanFits(w)'
  BY <1>1, <1>2, <1>3 DEF ScanFits, Found
<1>7. Fits(w)'
  BY <1>4, <1>5, <1>6 DEF Fits
<1>8. skip[w] \in Nat /\ skip' = [skip EXCEPT ![w] = skip[w]]
  BY <1>1, Context
<1> QED
  BY <1>1, <1>7, <1>8, LookInv

LEMMA WritesNowhereInv ==
  ASSUME IdentityInv, NEW w \in Workers, WritesNowhere(w)
  PROVE  IdentityInv'
<1>1. /\ Busy(w, "tag") /\ side = "group" /\ ~Exists(call[w].who)
      /\ UNCHANGED <<hubVars, calls, call, historyVars>> /\ skip' = skip /\ answer' = answer
      /\ pc' = [pc EXCEPT ![w] = "read"]
      /\ side' = side /\ imported' = imported
  BY DEF WritesNowhere, hubVars
<1>2. pc'[w] = "read" /\ call'[w] = call[w] /\ call[w].op = "tag" /\ pc[w] = "busy"
  BY <1>1, Context DEF Busy
<1>3. Subject(call[w])' = {}
  <2>1. Subject(call[w]) = {}
    BY <1>1, Context DEF Subject, Exists, Consistent
  <2> QED
    BY <1>1, <1>2, <2>1, HubRests
<1>4. AskedFits(w)'
  BY <1>1, <1>2, Context DEF AskedFits, Asked, Tag
<1>5. WrittenFits(w)'
  BY <1>2, <1>3 DEF WrittenFits
<1>6. ScanFits(w)' /\ DueFits(w)'
  BY <1>2 DEF ScanFits, DueFits, Found
<1>7. Fits(w)'
  BY <1>4, <1>5, <1>6 DEF Fits
<1>8. /\ skip[w] \in Nat /\ skip' = [skip EXCEPT ![w] = skip[w]]
      /\ answer[w] \in Identities \union {None} /\ answer' = [answer EXCEPT ![w] = answer[w]]
  BY <1>1, Context
<1> QED
  BY <1>1, <1>7, <1>8, LookInv

LEMMA ReadsBackNothingInv ==
  ASSUME IdentityInv, NEW w \in Workers, ReadsBackNothing(w)
  PROVE  IdentityInv'
<1>1. /\ pc[w] = "read" /\ UNCHANGED <<hubVars, calls, call, historyVars>> /\ skip' = skip
      /\ pc' = [pc EXCEPT ![w] = "error"] /\ answer' = [answer EXCEPT ![w] = None]
      /\ side' = side /\ imported' = imported
  BY DEF ReadsBackNothing, Returns, hubVars
<1>2. pc'[w] = "error" /\ call'[w] = call[w]
  BY <1>1, Context
<1>3. AskedFits(w)'
  BY <1>1, <1>2, Context DEF AskedFits, Asked, Tag
<1>4. WrittenFits(w)' /\ ScanFits(w)' /\ DueFits(w)'
  BY <1>2 DEF WrittenFits, ScanFits, DueFits, Found
<1>5. Fits(w)'
  BY <1>3, <1>4 DEF Fits
<1>6. skip[w] \in Nat /\ skip' = [skip EXCEPT ![w] = skip[w]]
  BY <1>1, Context
<1> QED
  BY <1>1, <1>5, <1>6, LookInv

\* The tag that a read-back acks is there: nobody has written to the group
\* since, and what was written is what was asked for.
LEMMA ReadsBackInv ==
  ASSUME IdentityInv, NEW w \in Workers, ReadsBack(w)
  PROVE  IdentityInv'
<1>1. /\ pc[w] = "read"
      /\ UNCHANGED <<hubVars, calls, call, skip, steady, behind, disturbed, absent, due>>
      /\ skip' = skip /\ disturbed' = disturbed /\ side' = side /\ imported' = imported
  BY DEF ReadsBack, hubVars
<1>2. PICK r \in Subject(call[w]) :
         /\ Returns(w, "ok", r)
         /\ acked' = IF call[w].op = "tag" /\ ~disturbed[w]
                     THEN acked \union {Asked(call[w])} ELSE acked
  BY DEF ReadsBack
<1>3. /\ pc' = [pc EXCEPT ![w] = "ok"] /\ answer' = [answer EXCEPT ![w] = r]
      /\ pc'[w] = "ok" /\ answer'[w] = r /\ call'[w] = call[w]
  BY <1>1, <1>2, Context DEF Returns
<1>4. /\ r \in identities /\ r \in Identities /\ r.id = call[w].id /\ r.owner = call[w].who
  BY Context DEF Subject, Consistent
<1>5. (call[w].op = "tag" /\ side = "group") \/ call[w].op = "label"
  BY <1>1, Context DEF AskedFits
<1>6. ~disturbed[w] =>
         /\ call[w].op = "tag" => r.ident = call[w].ident /\ r.module = Named(call[w]).module
         /\ call[w].op = "label" => call[w].label \in {Blank, r.label}
  BY <1>1, Context DEF WrittenFits
<1>7. ASSUME call[w].op = "tag", ~disturbed[w]
      PROVE  Asked(call[w]) \in Tags /\ Held(identities, Asked(call[w]))
  <2>1. Asked(call[w]) \in Tags
    BY <1>1, <1>7, Context DEF AskedFits
  <2>2. /\ Asked(call[w]).owner = call[w].who /\ Asked(call[w]).module = call[w].module
        /\ Asked(call[w]).ident = call[w].ident
    BY DEF Asked, Tag
  <2>3. ASSUME ReportedAsSet(Asked(call[w]))
        PROVE  r.module = call[w].module
    <3>1. imported[call[w].who] \in {None, call[w].module}
      BY <1>5, <1>7, <2>2, <2>3 DEF ReportedAsSet
    <3>2. Named(call[w]).module = call[w].module
      BY <3>1 DEF Named, Identity
    <3> QED
      BY <1>6, <1>7, <3>2
  <2> QED
    BY <1>4, <1>6, <1>7, <2>1, <2>2, <2>3 DEF Held
<1>8. acked \subseteq Tags /\ \A t \in acked : Held(identities, t)
  BY DEF IdentityInv, HistoryOK, AckedHeld, Held
<1>9. acked \subseteq acked' /\ acked' \subseteq Tags /\ \A t \in acked' : Held(identities, t)
  BY <1>2, <1>7, <1>8
<1>10. AskedFits(w)'
  BY <1>1, <1>3, Context DEF AskedFits, Asked, Tag
<1>11. WrittenFits(w)'
  BY <1>1, <1>3, <1>4, <1>5, <1>6 DEF WrittenFits
<1>12. ScanFits(w)' /\ DueFits(w)'
  BY <1>3, <1>5 DEF ScanFits, DueFits, Found
<1>13. Fits(w)'
  BY <1>10, <1>11, <1>12 DEF Fits
<1>14. skip[w] \in Nat /\ skip' = [skip EXCEPT ![w] = skip[w]]
  BY <1>1, Context
<1> QED
  BY <1>1, <1>3, <1>4, <1>9, <1>13, <1>14, OwnQuietStepInv

(***************************************************************************)
(* Steps that change Hub.                                                  *)
(***************************************************************************)
LEMMA HubStepInv ==
  ASSUME IdentityInv, UNCHANGED <<side, imported, calls, call, skip>>,
         Consistent(side, listing', imported, identities', made'),
         gone' \subseteq Holders \ Range(listing'), OrderKept(listing, listing'),
         NEW u, NEW tags, Observe(u, tags),
         tags \subseteq Tags, \A t \in tags : Held(identities', t),
         pc' \in [Workers -> {"idle", "busy", "read", "ok", "absent", "error"}],
         answer' \in [Workers -> Identities \union {None}],
         \A v \in Workers \ {u} : pc'[v] = pc[v] /\ answer'[v] = answer[v],
         u \in Workers => Fits(u)'
  PROVE  IdentityInv'
<1>1. TypeOK'
  BY DEF IdentityInv, TypeOK
<1>2. HistoryOK'
  BY ObserveTypes DEF IdentityInv
<1>3. identities' \subseteq Identities
  BY DEF Consistent
<1>4. AckedHeld' /\ \A t \in acked' : Held(identities', t)
  BY <1>3, AckedStaysHeld
<1>5. \A v \in Workers : v # u => Fits(v)'
  BY <1>4, BystanderFits
<1> QED
  BY <1>1, <1>2, <1>4, <1>5 DEF IdentityInv

LEMMA SameOrder == ASSUME NEW s PROVE OrderKept(s, s)
  BY DEF OrderKept

\* A worker writes to Hub.
LEMMA WriteInv ==
  ASSUME IdentityInv, UNCHANGED <<side, listing, imported, gone, calls, call, skip>>,
         NEW w \in Workers, Consistent(side, listing, imported, identities', made'),
         NEW tags, Observe(w, tags), tags \subseteq Tags, \A t \in tags : Held(identities', t),
         NEW p \in {"read", "ok", "error"}, pc' = [pc EXCEPT ![w] = p],
         NEW a \in Identities \union {None}, answer' = [answer EXCEPT ![w] = a],
         AskedFits(w)', WrittenFits(w)', pc'[w] = "ok" => call[w].op # "find"
  PROVE  IdentityInv'
<1>1. /\ Consistent(side, listing', imported, identities', made')
      /\ gone' \subseteq Holders \ Range(listing') /\ OrderKept(listing, listing')
  BY SameOrder, Context DEF TypeOK
<1>2. /\ pc' \in [Workers -> {"idle", "busy", "read", "ok", "absent", "error"}]
      /\ answer' \in [Workers -> Identities \union {None}]
      /\ \A v \in Workers \ {w} : pc'[v] = pc[v] /\ answer'[v] = answer[v]
      /\ pc'[w] = p /\ call'[w] = call[w]
  BY Context
<1>3. Fits(w)'
  BY <1>2 DEF Fits, ScanFits, DueFits, Found
<1> QED
  BY <1>1, <1>2, <1>3, HubStepInv

LEMMA UnackedWriteInv ==
  ASSUME IdentityInv, UNCHANGED <<side, listing, imported, gone, calls, call, skip>>,
         NEW w \in Workers, Consistent(side, listing, imported, identities', made'),
         Observe(w, {}),
         NEW p \in {"read", "ok", "error"}, pc' = [pc EXCEPT ![w] = p],
         NEW a \in Identities \union {None}, answer' = [answer EXCEPT ![w] = a],
         AskedFits(w)', WrittenFits(w)', pc'[w] = "ok" => call[w].op # "find"
  PROVE  IdentityInv'
<1> DEFINE tags == {}
<1>1. Observe(w, tags) /\ tags \subseteq Tags /\ \A t \in tags : Held(identities', t)
  OBVIOUS
<1> HIDE DEF tags
<1> QED
  BY <1>1, WriteInv

LEMMA AddsDetailInv ==
  ASSUME IdentityInv, NEW w \in Workers, AddsDetail(w)
  PROVE  IdentityInv'
<1> DEFINE c == call[w]
<1>1. /\ Busy(w, "tag") /\ side = "user" /\ TagEffect(c)
      /\ pc' = [pc EXCEPT ![w] = "ok"] /\ answer' = [answer EXCEPT ![w] = Named(c)]
      /\ UNCHANGED <<side, listing, imported, gone, calls, call, skip>>
      /\ Observe(w, {Asked(c)})
  BY DEF AddsDetail, Returns
<1>2. /\ pc[w] = "busy" /\ c.op = "tag" /\ c \in CallRecords /\ Asked(c) \in Tags
      /\ pc'[w] = "ok" /\ answer'[w] = Named(c) /\ call'[w] = c /\ side' = side
  BY <1>1, Context DEF Busy, AskedFits
<1>3. Named(c) \in Identities /\ Consistent(side, listing, imported, identities', made')
  BY <1>1, <1>2, Context, TagKeepsConsistent
<1>4. Named(c).owner = c.who /\ Named(c).ident = c.ident /\ Named(c).module = c.module
  BY <1>1 DEF Named, Identity
<1>5. Held(identities', Asked(c))
  <2>1. Named(c) \in identities'
    BY <1>1 DEF TagEffect
  <2> QED
    BY <1>4, <2>1 DEF Held, Asked, Tag
<1>6. AskedFits(w)'
  BY <1>1, <1>2, Context DEF AskedFits, Asked, Tag
<1>7. WrittenFits(w)'
  BY <1>2, <1>4 DEF WrittenFits
<1>8. /\ {Asked(c)} \subseteq Tags /\ \A t \in {Asked(c)} : Held(identities', t)
      /\ "ok" \in {"read", "ok", "error"} /\ Named(c) \in Identities \union {None}
      /\ pc'[w] = "ok" => call[w].op # "find"
  BY <1>2, <1>3, <1>5
<1> DEFINE tags == {Asked(c)}
           a == Named(c)
<1>9. /\ Observe(w, tags) /\ tags \subseteq Tags /\ \A t \in tags : Held(identities', t)
      /\ a \in Identities \union {None} /\ answer' = [answer EXCEPT ![w] = a]
  BY <1>1, <1>8
<1>10. UNCHANGED <<side, listing, imported, gone, calls, call, skip>>
  BY <1>1
<1> HIDE DEF c, tags, a
<1> QED
  BY <1>1, <1>3, <1>6, <1>7, <1>8, <1>9, <1>10, WriteInv

LEMMA WritesInv ==
  ASSUME IdentityInv, NEW w \in Workers, Writes(w)
  PROVE  IdentityInv'
<1> DEFINE c == call[w]
<1>1. /\ \/ Busy(w, "tag") /\ side = "group" /\ TagEffect(c)
         \/ Busy(w, "label") /\ LabelEffect(c)
      /\ pc' = [pc EXCEPT ![w] = "read"] /\ answer' = answer
      /\ UNCHANGED <<side, listing, imported, gone, calls, call, skip>>
      /\ Observe(w, {})
  BY DEF Writes
<1>2. /\ pc[w] = "busy" /\ c \in CallRecords /\ (c.op = "tag" => Asked(c) \in Tags)
      /\ pc'[w] = "read" /\ call'[w] = c /\ side' = side /\ imported' = imported
  BY <1>1, Context DEF Busy, AskedFits
<1>3. Consistent(side, listing, imported, identities', made')
  BY <1>1, <1>2, Context, TagKeepsConsistent, LabelKeepsConsistent DEF Busy
<1>4. AskedFits(w)'
  BY <1>1, <1>2, Context DEF AskedFits, Asked, Tag, Busy
<1>5. Subject(c)' = SubjectIn(identities', c)
  BY <1>2, WhatCallsSeeNext
<1>6. Named(c)'.module = Named(c).module
  BY <1>2 DEF Named, Identity
<1>7. /\ "read" \in {"read", "ok", "error"} /\ (pc'[w] = "ok" => call[w].op # "find")
      /\ answer[w] \in Identities \union {None} /\ answer' = [answer EXCEPT ![w] = answer[w]]
  BY <1>1, <1>2, Context
<1>8. CASE Busy(w, "tag") /\ side = "group" /\ TagEffect(c)
  <2>1. \A r \in SubjectIn(identities', c) : r = Named(c)
    BY <1>8 DEF TagEffect, SubjectIn
  <2>2. Named(c).ident = c.ident
    BY DEF Named, Identity
  <2>3. WrittenFits(w)'
    BY <1>2, <1>5, <1>6, <1>8, <2>1, <2>2 DEF WrittenFits, Busy
  <2> QED
    BY <1>1, <1>3, <1>4, <1>7, <2>3, UnackedWriteInv
<1>9. CASE Busy(w, "label") /\ LabelEffect(c)
  <2>1. \A r \in SubjectIn(identities', c) : c.label \in {Blank, r.label}
    <3> SUFFICES ASSUME NEW r \in SubjectIn(identities', c), c.label # Blank
                 PROVE  r.label = c.label
      OBVIOUS
    <3> DEFINE New(q) == IF q \in Subject(c) /\ c.label # Blank
                         THEN [q EXCEPT !.label = c.label] ELSE q
    <3>1. identities' = {New(q) : q \in identities} /\ identities \subseteq Identities
      BY <1>9, Context DEF LabelEffect, Consistent
    <3>2. \A q \in identities : /\ New(q).id = q.id /\ New(q).owner = q.owner
                                /\ q \in Subject(c) => New(q).label = c.label
      BY <3>1 DEF Identities
    <3> HIDE DEF New
    <3>3. PICK q \in identities : r = New(q)
      BY <3>1 DEF SubjectIn
    <3>4. q \in Subject(c)
      BY <3>2, <3>3 DEF Subject, SubjectIn
    <3> QED
      BY <3>2, <3>3, <3>4
  <2>2. WrittenFits(w)'
    BY <1>2, <1>5, <1>9, <2>1 DEF WrittenFits, Busy
  <2> QED
    BY <1>1, <1>3, <1>4, <1>7, <2>2, UnackedWriteInv
<1> QED
  BY <1>1, <1>8, <1>9

LEMMA RemovesInv ==
  ASSUME IdentityInv, NEW w \in Workers, Removes(w)
  PROVE  IdentityInv'
<1>1. /\ Busy(w, "remove") /\ RemoveEffect(call[w])
      /\ pc' = [pc EXCEPT ![w] = "ok"] /\ answer' = [answer EXCEPT ![w] = None]
      /\ UNCHANGED <<side, listing, imported, gone, calls, call, skip>>
      /\ Observe(w, {})
  BY DEF Removes, Returns
<1>2. /\ pc[w] = "busy" /\ call[w].op = "remove" /\ call[w] \in CallRecords
      /\ pc'[w] = "ok" /\ call'[w] = call[w]
  BY <1>1, Context DEF Busy
<1>3. Consistent(side, listing, imported, identities', made')
  BY <1>1, Context DEF RemoveEffect, Consistent
<1>4. absent'[w]
  <2>1. SubjectIn(identities', call[w]) = {}
    BY <1>1 DEF RemoveEffect, SubjectIn, Subject
  <2> QED
    BY <1>1, <1>2, <2>1, Context, ObservedAt DEF Pending
<1>5. AskedFits(w)' /\ WrittenFits(w)'
  BY <1>2, <1>4 DEF AskedFits, WrittenFits
<1>6. /\ "ok" \in {"read", "ok", "error"} /\ (pc'[w] = "ok" => call[w].op # "find")
      /\ None \in Identities \union {None}
  BY <1>2
<1> QED
  BY <1>1, <1>3, <1>5, <1>6, UnackedWriteInv

LEMMA FailsInv ==
  ASSUME IdentityInv, NEW w \in Workers, Fails(w)
  PROVE  IdentityInv'
<1>1. /\ Pending(w)
      /\ \/ UNCHANGED <<identities, made>>
         \/ pc[w] = "busy" /\ call[w].op # "find" /\ Effect(call[w])
      /\ pc' = [pc EXCEPT ![w] = "error"] /\ answer' = [answer EXCEPT ![w] = None]
      /\ UNCHANGED <<side, listing, imported, gone, calls, call, skip>>
      /\ Observe(w, {})
  BY DEF Fails, Returns
<1>2. /\ pc'[w] = "error" /\ call'[w] = call[w] /\ side' = side /\ pc[w] # "idle"
      /\ call[w] \in CallRecords /\ (call[w].op = "tag" => Asked(call[w]) \in Tags)
  BY <1>1, Context DEF Pending, AskedFits
<1>3. Consistent(side, listing, imported, identities', made')
  BY <1>1, <1>2, Context, EffectKeepsConsistent
<1>4. AskedFits(w)' /\ WrittenFits(w)'
  BY <1>1, <1>2, Context DEF AskedFits, WrittenFits, Asked, Tag
<1>5. /\ "error" \in {"read", "ok", "error"} /\ (pc'[w] = "ok" => call[w].op # "find")
      /\ None \in Identities \union {None}
  BY <1>2
<1> QED
  BY <1>1, <1>3, <1>4, <1>5, UnackedWriteInv

LEMMA ChangeInv ==
  ASSUME IdentityInv, Change
  PROVE  IdentityInv'
<1>1. /\ Create \/ Delete
      /\ UNCHANGED <<side, imported, made, calls, call, pc, skip, answer>>
      /\ Observe(None, {})
  BY DEF Change
<1>2. TypeOK /\ None \notin Workers
  BY ValuesAssumption DEF IdentityInv
<1>3. /\ Consistent(side, listing', imported, identities', made')
      /\ gone' \subseteq Holders \ Range(listing') /\ OrderKept(listing, listing')
  BY <1>1, <1>2, ChangeKeepsConsistent
<1>4. /\ pc' \in [Workers -> {"idle", "busy", "read", "ok", "absent", "error"}]
      /\ answer' \in [Workers -> Identities \union {None}]
  BY <1>1, <1>2 DEF TypeOK
<1> QED
  BY <1>1, <1>2, <1>3, <1>4, HubStepInv

LEMMA IdentityStepInv == IdentityInv /\ [Next]_vars => IdentityInv'
<1> SUFFICES ASSUME IdentityInv, [Next]_vars
             PROVE  IdentityInv'
  OBVIOUS
<1>1. ASSUME NEW w \in Workers, Step(w)
      PROVE  IdentityInv'
  BY <1>1, BeginInv, FindsOneInv, ScansOnInv, FindsNoneInv, AddsDetailInv, WritesInv,
     WritesNowhereInv, RemovesInv, ReadsBackInv, ReadsBackNothingInv, FailsInv DEF Step
<1>2. CASE UNCHANGED vars
  <2>1. /\ UNCHANGED hubVars /\ UNCHANGED <<calls, call, pc, skip, answer>>
        /\ UNCHANGED historyVars
    BY <1>2 DEF vars
  <2>2. /\ steady' = steady /\ behind' = behind /\ disturbed' = disturbed
        /\ absent' = absent /\ acked' = acked /\ due' = due
    BY <2>1 DEF historyVars
  <2>3. /\ side' = side /\ imported' = imported /\ identities' = identities
        /\ listing' = listing /\ made' = made /\ gone' = gone
    BY <2>1 DEF hubVars
  <2>4. TypeOK'
    BY <2>1, <2>3 DEF IdentityInv, TypeOK
  <2>5. HistoryOK' /\ AckedHeld'
    BY <2>2, <2>3 DEF IdentityInv, HistoryOK, AckedHeld, ReportedAsSet
  <2>6. \A v \in Workers : Fits(v)'
    BY <2>1, <2>2, QuietFits DEF IdentityInv
  <2> QED
    BY <2>4, <2>5, <2>6 DEF IdentityInv
<1> QED
  BY <1>1, <1>2, ChangeInv DEF Next

(***************************************************************************)
(* The theorems.                                                           *)
(***************************************************************************)
LEMMA IdentityAlwaysInv == Spec => []IdentityInv
  BY IdentityInitInv, IdentityStepInv, PTL DEF Spec

\* Whatever the workers do and whoever comes and goes, Hub holds only what it
\* may hold: nobody is listed twice, and every identity is of somebody listed.
THEOREM IdentityTypeCorrect == Spec => []TypeOK
<1>1. IdentityInv => TypeOK
  BY DEF IdentityInv
<1> QED
  BY <1>1, IdentityAlwaysInv, PTL

\* FindUserByAuthIdentifier and FindGroupByIDPGroupID return nil only when
\* nobody carried the identifier from the first page to the last, as long as
\* nothing left the part of the listing they had read; and what they return
\* carries the identifier at the module asked for.
THEOREM FindsAlwaysTrue == Spec => []FindIsTrue
<1>1. IdentityInv => FindIsTrue
  BY DEF IdentityInv, Fits, ScanFits, FindIsTrue
<1> QED
  BY <1>1, IdentityAlwaysInv, PTL

\* AddUserDetail, SetGroupIdentity, UpdateUserDetailAttributes and
\* RemoveUserDetail report what became of the very identity they wrote.
THEOREM WritesAlwaysTrue == Spec => []WriteIsTrue
<1>1. IdentityInv => WriteIsTrue
  BY DEF IdentityInv, Fits, WrittenFits, WriteIsTrue
<1> QED
  BY <1>1, IdentityAlwaysInv, PTL

\* A tag that a call reported set is found by a redelivered event, unless
\* somebody has undone it or the group was imported from another module.
THEOREM RedeliveryAlwaysSettles == Spec => []RedeliverySettles
<1>1. IdentityInv => RedeliverySettles
  <2> SUFFICES ASSUME IdentityInv, NEW w \in Workers, pc[w] = "absent", ~behind[w],
                      NEW t \in due[w]
               PROVE  call[w].module # AnyModule /\ imported[t.owner] \notin {None, t.module}
    BY DEF RedeliverySettles
  <2>1. call[w].op = "find" /\ steady[w] = {}
    BY Context DEF AskedFits, ScanFits
  <2>2. call[w].module # AnyModule /\ ~ReportedAsSet(t)
    BY <2>1, Context DEF DueFits
  <2> QED
    BY <2>2 DEF ReportedAsSet
<1> QED
  BY <1>1, IdentityAlwaysInv, PTL
=============================================================================
