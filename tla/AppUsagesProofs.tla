---------------------------- MODULE AppUsagesProofs ----------------------------
(***************************************************************************)
(* Theorems about the app calls, for any workers, projects, calls and      *)
(* initial usages, and any page size.                                      *)
(***************************************************************************)
EXTENDS AppUsages, PagingProofs

(***************************************************************************)
(* Looking at a list of usages.                                            *)
(***************************************************************************)
StateOf(u) == IF u.enabled THEN "enabled" ELSE "disabled"

LEMMA UsageFields ==
  ASSUME NEW s \in Seq(Usages), NEW i \in 1..Len(s)
  PROVE  /\ s[i] \in Usages /\ s[i] # None
         /\ s[i].id \in 1..MaxUsages /\ s[i].project \in Projects /\ s[i].enabled \in BOOLEAN
<1>1. s[i] \in Usages
  BY ElementOfSeq
<1> QED
  BY <1>1, NilAssumption DEF Usages

LEMMA FirstOfIs ==
  ASSUME NEW s \in Seq(Usages), OneUsageEach(s), NEW i \in 1..Len(s)
  PROVE  FirstOf(s, s[i].project) = s[i]
<1> DEFINE at == At(s, s[i].project)
           k  == CHOOSE j \in at : \A l \in at : j <= l
<1>1. DOMAIN s = 1..Len(s) /\ Len(s) \in Nat
  BY LenProperties
<1>2. i \in at /\ \A j \in at : j = i
  BY <1>1 DEF At, OneUsageEach
<1>3. i <= i
  OBVIOUS
<1>4. k \in at
  BY <1>2, <1>3
<1>5. FirstOf(s, s[i].project) = s[k]
  BY <1>2 DEF FirstOf
<1> HIDE DEF at, k
<1> QED
  BY <1>2, <1>4, <1>5

LEMMA FirstOfCases ==
  ASSUME NEW s \in Seq(Usages), OneUsageEach(s), NEW p
  PROVE  \/ FirstOf(s, p) = None /\ \A i \in 1..Len(s) : s[i].project # p
         \/ \E i \in 1..Len(s) : s[i].project = p /\ FirstOf(s, p) = s[i]
<1>1. DOMAIN s = 1..Len(s)
  BY LenProperties
<1>2. CASE \A i \in 1..Len(s) : s[i].project # p
  BY <1>1, <1>2 DEF FirstOf, At
<1>3. ASSUME NEW i \in 1..Len(s), s[i].project = p
      PROVE  FirstOf(s, p) = s[i]
  BY <1>3, FirstOfIs
<1> QED
  BY <1>2, <1>3

LEMMA StateIs ==
  ASSUME NEW s \in Seq(Usages), OneUsageEach(s)
  PROVE  /\ \A i \in 1..Len(s) : State(s, s[i].project) = StateOf(s[i])
         /\ \A p : State(s, p) = "detached" <=> \A i \in 1..Len(s) : s[i].project # p
         /\ \A p : State(s, p) \in {"enabled", "disabled", "detached"}
<1>1. DOMAIN s = 1..Len(s)
  BY LenProperties
<1>2. ASSUME NEW p, NEW i \in 1..Len(s), s[i].project = p
      PROVE  State(s, p) = StateOf(s[i])
  <2>1. At(s, p) # {}
    BY <1>1, <1>2 DEF At
  <2>2. FirstOf(s, p) = s[i]
    BY <1>2, FirstOfIs
  <2>3. s[i].enabled \in BOOLEAN
    BY UsageFields
  <2> QED
    BY <2>1, <2>2, <2>3, Zenon DEF State, StateOf
<1>3. ASSUME NEW p, \A i \in 1..Len(s) : s[i].project # p
      PROVE  State(s, p) = "detached"
  <2>1. At(s, p) = {}
    BY <1>1, <1>3 DEF At
  <2> QED
    BY <2>1, Zenon DEF State
<1>4. \A i \in 1..Len(s) : StateOf(s[i]) \in {"enabled", "disabled"}
  BY DEF StateOf
<1> QED
  BY <1>2, <1>3, <1>4

\* Two lists with the same usage of a project, or with none.
LEMMA StateSame ==
  ASSUME NEW s \in Seq(Usages), OneUsageEach(s), NEW t \in Seq(Usages), OneUsageEach(t), NEW p,
         \A i \in 1..Len(s) : s[i].project = p => \E j \in 1..Len(t) : t[j] = s[i],
         \A j \in 1..Len(t) : t[j].project = p => \E i \in 1..Len(s) : s[i].project = p
  PROVE  State(t, p) = State(s, p)
<1>1. CASE \A i \in 1..Len(s) : s[i].project # p
  BY <1>1, StateIs
<1>2. ASSUME NEW i \in 1..Len(s), s[i].project = p
      PROVE  State(t, p) = State(s, p)
  <2>1. PICK j \in 1..Len(t) : t[j] = s[i]
    BY <1>2
  <2>2. State(s, s[i].project) = StateOf(s[i]) /\ State(t, t[j].project) = StateOf(t[j])
    BY StateIs
  <2> QED
    BY <1>2, <2>1, <2>2
<1> QED
  BY <1>1, <1>2

(***************************************************************************)
(* What the server does to the list.                                       *)
(***************************************************************************)
\* The list is one a server can have.
ListFits ==
    /\ OneUsageEach(usages)
    /\ Len(usages) < nextId
    /\ \A i \in DOMAIN usages : usages[i].id < nextId

SameUsage(u, v) == u.id = v.id /\ u.project = v.project

\* How the list may change under a call.  An ID names one project for ever:
IdsKept ==
    \A j \in 1..Len(usages') :
        \/ usages'[j].id >= nextId
        \/ \E i \in 1..Len(usages) : SameUsage(usages'[j], usages[i])

\* A usage that is no longer there leaves its project detached:
NothingLost ==
    \A i \in 1..Len(usages) :
        \/ State(usages', usages[i].project) = "detached"
        \/ \E j \in 1..Len(usages') : SameUsage(usages'[j], usages[i])

\* What is in front of a walk stays in front of it, or the walk is known to
\* have lost its place:
PlacesKept ==
    \A w \in Workers, i \in 1..Len(usages) :
        pc[w] \in Walking /\ w \notin shifted' /\ i > page[w] * PageSize =>
            \/ State(usages', usages[i].project) = "detached"
            \/ \E j \in 1..Len(usages') :
                  j > page[w] * PageSize /\ usages'[j].project = usages[i].project

Evolves ==
    /\ usages' \in Seq(Usages) /\ nextId' \in 1..(MaxUsages + 1) /\ shifted' \subseteq Workers
    /\ ListFits'
    /\ nextId <= nextId' /\ shifted \subseteq shifted'
    /\ IdsKept
    /\ NothingLost
    /\ PlacesKept

OnlyTouches(p) == \A q \in Projects \ {p} : State(usages', q) = State(usages, q)

LEMMA StandingStill ==
  ASSUME TypeOK, ListFits, UNCHANGED <<usages, nextId, shifted>>
  PROVE  Evolves /\ \A p : OnlyTouches(p)
<1>1. usages' \in Seq(Usages) /\ nextId' \in 1..(MaxUsages + 1) /\ shifted' \subseteq Workers
  BY DEF TypeOK
<1>2. ListFits' /\ nextId <= nextId'
  BY PageAssumption DEF ListFits, TypeOK
<1>3. IdsKept /\ NothingLost /\ PlacesKept
  BY DEF IdsKept, NothingLost, PlacesKept, SameUsage
<1> QED
  BY <1>1, <1>2, <1>3 DEF Evolves, OnlyTouches

LEMMA AttachEvolves ==
  ASSUME TypeOK, ListFits, NEW p \in Projects, ServerAttaches(p), shifted' = shifted
  PROVE  /\ Evolves
         /\ OnlyTouches(p)
         /\ \E j \in 1..Len(usages') : usages'[j].project = p
<1>1. usages \in Seq(Usages) /\ Len(usages) \in Nat /\ DOMAIN usages = 1..Len(usages)
  BY LenProperties DEF TypeOK
<1>2. CASE At(usages, p) # {} /\ UNCHANGED <<usages, nextId>>
  <2>1. \E j \in 1..Len(usages) : usages[j].project = p
    BY <1>1, <1>2 DEF At
  <2> QED
    BY <1>2, <2>1, StandingStill
<1>3. ASSUME At(usages, p) = {}, nextId <= MaxUsages, NEW on \in BOOLEAN,
             usages' = Append(usages, [id |-> nextId, project |-> p, enabled |-> on]),
             nextId' = nextId + 1
      PROVE  /\ Evolves /\ OnlyTouches(p)
             /\ \E j \in 1..Len(usages') : usages'[j].project = p
  <2> DEFINE new == [id |-> nextId, project |-> p, enabled |-> on]
             n == Len(usages)
  <2>1. /\ nextId \in 1..MaxUsages /\ nextId \in Nat
        /\ new \in Usages /\ new.id = nextId /\ new.project = p
    BY <1>3 DEF TypeOK, Usages
  <2> HIDE DEF new
  <2>2. /\ usages' \in Seq(Usages) /\ Len(usages') = n + 1
        /\ \A i \in 1..n : usages'[i] = usages[i]
        /\ usages'[n + 1] = new
    BY <1>1, <1>3, <2>1, AppendProperties DEF new
  <2>3. /\ \A i \in 1..n : usages[i].id \in Nat /\ usages[i].id < nextId /\ usages[i].project # p
        /\ \A i, j \in 1..n :
              usages[i].id = usages[j].id \/ usages[i].project = usages[j].project => i = j
        /\ n < nextId
    <3>1. \A i \in 1..n : usages[i].id \in Nat
      BY <1>1, UsageFields
    <3> QED
      BY <1>1, <1>3, <3>1 DEF ListFits, OneUsageEach, At
  <2> HIDE DEF n
  <2>4. n \in Nat /\ DOMAIN usages' = 1..(n + 1)
    BY <1>1, <2>2, LenProperties DEF n
  <2>5. OneUsageEach(usages')
    <3> SUFFICES ASSUME NEW i \in 1..(n + 1), NEW j \in 1..(n + 1),
                        usages'[i].id = usages'[j].id \/ usages'[i].project = usages'[j].project
                 PROVE  i = j
      BY <2>4 DEF OneUsageEach
    <3>1. CASE i \in 1..n /\ j \in 1..n
      BY <2>2, <2>3, <3>1
    <3>2. CASE i = n + 1 /\ j \in 1..n
      BY <2>1, <2>2, <2>3, <3>2
    <3>3. CASE i \in 1..n /\ j = n + 1
      BY <2>1, <2>2, <2>3, <3>3
    <3> QED
      BY <2>4, <3>1, <3>2, <3>3
  <2>6. ListFits'
    <3>1. ASSUME NEW i \in 1..(n + 1)
          PROVE  usages'[i].id < nextId + 1
      <4>1. CASE i \in 1..n
        BY <2>1, <2>2, <2>3, <4>1
      <4>2. CASE i = n + 1
        BY <2>1, <2>2, <4>2
      <4> QED
        BY <2>4, <4>1, <4>2
    <3> QED
      BY <1>3, <2>1, <2>2, <2>3, <2>4, <2>5, <3>1 DEF ListFits
  <2>7. \A i \in 1..n : i \in 1..Len(usages') /\ usages'[i] = usages[i]
    BY <2>2, <2>4
  <2>8. \A j \in 1..Len(usages') : usages'[j].id >= nextId \/ (j \in 1..n /\ usages'[j] = usages[j])
    BY <2>1, <2>2, <2>4
  <2>9. Evolves
    <3>1. IdsKept /\ NothingLost /\ PlacesKept
      BY <2>7, <2>8 DEF IdsKept, NothingLost, PlacesKept, SameUsage, n
    <3>2. nextId' \in 1..(MaxUsages + 1) /\ nextId <= nextId' /\ shifted \subseteq shifted'
          /\ shifted' \subseteq Workers
      BY <1>3, <2>1, PageAssumption DEF TypeOK
    <3> QED
      BY <2>2, <2>6, <3>1, <3>2 DEF Evolves
  <2>10. OnlyTouches(p)
    <3> SUFFICES ASSUME NEW q \in Projects, q # p
                 PROVE  State(usages', q) = State(usages, q)
      BY DEF OnlyTouches
    <3>1. \A j \in 1..Len(usages') : usages'[j].project = q => j \in 1..n /\ usages'[j] = usages[j]
      BY <2>1, <2>2, <2>4
    <3> QED
      BY <1>1, <2>2, <2>5, <2>7, <3>1, StateSame DEF ListFits, n
  <2> QED
    BY <2>1, <2>2, <2>4, <2>9, <2>10
<1> QED
  BY <1>2, <1>3 DEF ServerAttaches

LEMMA SetEvolves ==
  ASSUME TypeOK, ListFits, NEW id, NEW on \in BOOLEAN, NEW p, ServerSets(id, on), shifted' = shifted,
         \A i \in DOMAIN usages : usages[i].id = id => usages[i].project = p
  PROVE  /\ Evolves
         /\ OnlyTouches(p)
         /\ WithId(usages, id) # {} => State(usages', p) = IF on THEN "enabled" ELSE "disabled"
<1> DEFINE n == Len(usages)
<1>1. /\ usages \in Seq(Usages) /\ n \in Nat /\ DOMAIN usages = 1..n
      /\ \A i \in 1..n : usages[i] \in Usages
  BY LenProperties, UsageFields DEF TypeOK
<1>2. \A i \in 1..n :
         usages'[i] = IF usages[i].id = id THEN [usages[i] EXCEPT !.enabled = on] ELSE usages[i]
  BY <1>1 DEF ServerSets, WithId
<1>3. \A i \in 1..n :
         /\ usages'[i] \in Usages
         /\ usages'[i].id = usages[i].id /\ usages'[i].project = usages[i].project
         /\ IF usages[i].id = id THEN usages'[i].enabled = on ELSE usages'[i] = usages[i]
  BY <1>1, <1>2 DEF Usages
<1>4. usages' \in Seq(Usages) /\ Len(usages') = n
  <2>1. usages' = [i \in 1..n |-> usages'[i]]
    BY <1>1 DEF ServerSets
  <2>2. usages' \in [1..n -> Usages]
    BY <1>3, <2>1
  <2>3. usages' \in Seq(Usages)
    BY <1>1, <2>2, SeqDef
  <2> QED
    BY <1>1, <2>2, <2>3, LenProperties
<1> HIDE DEF n
<1>5. DOMAIN usages' = 1..n
  BY <1>4, LenProperties
<1>6. OneUsageEach(usages')
  BY <1>1, <1>3, <1>5 DEF ListFits, OneUsageEach
<1>7. ListFits'
  BY <1>1, <1>3, <1>4, <1>5, <1>6 DEF ListFits, ServerSets, n
<1>8. IdsKept /\ NothingLost /\ PlacesKept
  BY <1>3, <1>4 DEF IdsKept, NothingLost, PlacesKept, SameUsage, n
<1>9. Evolves
  BY <1>4, <1>7, <1>8, PageAssumption DEF Evolves, TypeOK, ServerSets
<1>10. OnlyTouches(p)
  <2> SUFFICES ASSUME NEW q \in Projects, q # p
               PROVE  State(usages', q) = State(usages, q)
    BY DEF OnlyTouches
  <2>1. \A i \in 1..n : usages[i].project = q => usages'[i] = usages[i]
    BY <1>1, <1>3
  <2>2. /\ \A i \in 1..Len(usages) : usages[i].project = q =>
              \E j \in 1..Len(usages') : usages'[j] = usages[i]
        /\ \A j \in 1..Len(usages') : usages'[j].project = q =>
              \E i \in 1..Len(usages) : usages[i].project = q
    BY <1>3, <1>4, <2>1 DEF n
  <2> QED
    BY <1>1, <1>4, <1>6, <2>2, StateSame DEF ListFits
<1>11. ASSUME WithId(usages, id) # {}
       PROVE  State(usages', p) = IF on THEN "enabled" ELSE "disabled"
  <2>1. PICK i \in 1..n : usages[i].id = id
    BY <1>1, <1>11 DEF WithId
  <2>2. usages'[i].project = p /\ usages'[i].enabled = on
    BY <1>1, <1>3, <2>1
  <2>3. State(usages', usages'[i].project) = StateOf(usages'[i])
    BY <1>4, <1>6, StateIs
  <2> QED
    BY <2>2, <2>3 DEF StateOf
<1> QED
  BY <1>9, <1>10, <1>11

LEMMA DeleteEvolves ==
  ASSUME TypeOK, ListFits, NEW id, NEW p, ServerDeletes(id),
         \A i \in DOMAIN usages : usages[i].id = id => usages[i].project = p
  PROVE  /\ Evolves
         /\ OnlyTouches(p)
         /\ WithId(usages, id) # {} => State(usages', p) = "detached"
<1> DEFINE n == Len(usages)
<1>1. /\ usages \in Seq(Usages) /\ n \in Nat /\ DOMAIN usages = 1..n
      /\ \A i \in 1..n : usages[i] \in Usages
  BY LenProperties, UsageFields DEF TypeOK
<1>2. CASE WithId(usages, id) = {} /\ UNCHANGED <<usages, shifted>>
  BY <1>2, StandingStill DEF ServerDeletes
<1>3. ASSUME NEW d \in WithId(usages, id), usages' = Without(usages, d),
             shifted' = shifted \union
                {v \in Workers : pc[v] \in Walking /\ d <= page[v] * PageSize},
             nextId' = nextId
      PROVE  Evolves /\ OnlyTouches(p) /\ State(usages', p) = "detached"
  <2>1. d \in 1..n /\ usages[d].id = id /\ usages[d].project = p
    BY <1>1, <1>3 DEF WithId
  <2>2. /\ usages' \in Seq(Usages) /\ Len(usages') = n - 1
        /\ \A k \in 1..(d - 1) : usages'[k] = usages[k]
        /\ \A k \in d..(n - 1) : usages'[k] = usages[k + 1]
    BY <1>1, <1>3, <2>1, WithoutProperties
  <2>3. /\ \A i, j \in 1..n :
              usages[i].id = usages[j].id \/ usages[i].project = usages[j].project => i = j
        /\ \A i \in 1..n : usages[i].id < nextId
        /\ n < nextId /\ nextId \in Nat
    <3>1. OneUsageEach(usages) /\ n < nextId /\ \A i \in 1..n : usages[i].id < nextId
      BY <1>1 DEF ListFits
    <3>2. nextId \in Nat
      BY PageAssumption DEF TypeOK
    <3> QED
      BY <1>1, <3>1, <3>2 DEF OneUsageEach
  <2> HIDE DEF n
  <2>4. DOMAIN usages' = 1..(n - 1)
    BY <2>2, LenProperties
  \* Every place of the new list is an old one's.
  <2>5. ASSUME NEW j \in 1..(n - 1)
        PROVE  \/ j < d /\ j \in 1..n /\ usages'[j] = usages[j]
               \/ j >= d /\ j + 1 \in 1..n /\ usages'[j] = usages[j + 1]
    BY <1>1, <2>1, <2>2
  \* Every old place but one has a new one, in front of d as it was.
  <2>6. ASSUME NEW i \in 1..n, i # d
        PROVE  \E j \in 1..(n - 1) : (j = i \/ (j >= d /\ j = i - 1)) /\ usages'[j] = usages[i]
    <3>1. CASE i < d
      <4>1. i \in 1..(n - 1) /\ usages'[i] = usages[i]
        BY <1>1, <2>1, <2>2, <3>1
      <4> QED
        BY <4>1
    <3>2. CASE i > d
      <4>1. i - 1 \in d..(n - 1) /\ (i - 1) + 1 = i /\ i - 1 \in 1..(n - 1)
        BY <1>1, <2>1, <3>2
      <4>2. usages'[i - 1] = usages[i]
        BY <2>2, <4>1
      <4> QED
        BY <4>1, <4>2
    <3> QED
      BY <2>1, <2>6, <3>1, <3>2
  <2>7. OneUsageEach(usages')
    <3> SUFFICES ASSUME NEW i \in 1..(n - 1), NEW j \in 1..(n - 1),
                        usages'[i].id = usages'[j].id \/ usages'[i].project = usages'[j].project
                 PROVE  i = j
      BY <2>4 DEF OneUsageEach
    <3> QED
      BY <1>1, <2>1, <2>3, <2>5
  <2>8. ListFits'
    <3>1. \A j \in 1..(n - 1) : usages'[j].id < nextId
      BY <2>3, <2>5
    <3> QED
      BY <1>1, <1>3, <2>2, <2>3, <2>4, <2>7, <3>1 DEF ListFits
  <2>9. State(usages', p) = "detached"
    <3>1. \A j \in 1..(n - 1) : usages'[j].project # p
      BY <1>1, <2>1, <2>3, <2>5
    <3> QED
      BY <2>2, <2>7, <3>1, StateIs
  <2>10. IdsKept
    <3>1. \A j \in 1..(n - 1) : \E i \in 1..n : usages'[j] = usages[i]
      BY <2>5
    <3> QED
      BY <2>2, <3>1 DEF IdsKept, SameUsage, n
  <2>11. NothingLost
    <3> SUFFICES ASSUME NEW i \in 1..n, i # d
                 PROVE  \E j \in 1..(n - 1) : usages'[j] = usages[i]
      BY <2>1, <2>2, <2>9 DEF NothingLost, SameUsage, n
    <3> QED
      BY <2>6
  <2>12. PlacesKept
    <3> SUFFICES ASSUME NEW w \in Workers, NEW i \in 1..n, pc[w] \in Walking, w \notin shifted',
                        i > page[w] * PageSize, i # d
                 PROVE  \E j \in 1..(n - 1) : j > page[w] * PageSize /\ usages'[j] = usages[i]
      BY <2>1, <2>2, <2>9 DEF PlacesKept, n
    <3> DEFINE m == page[w] * PageSize
    <3>1. m \in Nat /\ ~(d <= m)
      BY <1>3, PageAssumption DEF TypeOK
    <3>2. i > m
      OBVIOUS
    <3>3. PICK j \in 1..(n - 1) : (j = i \/ (j >= d /\ j = i - 1)) /\ usages'[j] = usages[i]
      BY <2>6
    <3> HIDE DEF m
    <3>4. j > m
      BY <2>1, <3>1, <3>2, <3>3
    <3> QED
      BY <3>3, <3>4 DEF m
  <2>13. Evolves
    <3>1. shifted' \subseteq Workers /\ shifted \subseteq shifted' /\ nextId <= nextId'
          /\ nextId' \in 1..(MaxUsages + 1)
      BY <1>3, PageAssumption DEF TypeOK
    <3> QED
      BY <2>2, <2>8, <2>10, <2>11, <2>12, <3>1 DEF Evolves
  <2>14. OnlyTouches(p)
    <3> SUFFICES ASSUME NEW q \in Projects, q # p
                 PROVE  State(usages', q) = State(usages, q)
      BY DEF OnlyTouches
    <3>1. \A i \in 1..Len(usages) : usages[i].project = q =>
             \E j \in 1..Len(usages') : usages'[j] = usages[i]
      BY <2>1, <2>2, <2>6 DEF n
    <3>2. \A j \in 1..Len(usages') : usages'[j].project = q =>
             \E i \in 1..Len(usages) : usages[i].project = q
      BY <2>2, <2>5 DEF n
    <3> QED
      BY <1>1, <2>2, <2>7, <3>1, <3>2, StateSame DEF ListFits
  <2> QED
    BY <2>9, <2>13, <2>14
<1>4. \/ WithId(usages, id) = {} /\ UNCHANGED <<usages, shifted>>
      \/ \E d \in WithId(usages, id) :
            /\ usages' = Without(usages, d)
            /\ shifted' = shifted \union
                  {v \in Workers : pc[v] \in Walking /\ d <= page[v] * PageSize}
  BY DEF ServerDeletes
<1>5. nextId' = nextId
  BY DEF ServerDeletes
<1> QED
  BY <1>2, <1>3, <1>4, <1>5

(***************************************************************************)
(* What a call knows.  seen are the [project, state] pairs it is a witness *)
(* of.                                                                     *)
(***************************************************************************)
\* u is the usage of p that a page has shown: it had its state then, its ID
\* names no other project, and it is still there unless p was detached since.
FoundIs(s, next, seen, p, u) ==
    /\ u.project = p
    /\ u.id < next
    /\ <<p, StateOf(u)>> \in seen
    /\ \A i \in DOMAIN s : s[i].id = u.id => s[i].project = p
    /\ WithId(s, u.id) # {} \/ <<p, "detached">> \in seen

\* u is a true answer of w's call of this kind about p; lost are the workers
\* whose walks have lost their place.
AnswerIs(w, kind, lost, seen, p, u) ==
    /\ kind = "enable" => u # None /\ u.enabled /\ u.project = p /\ <<p, "enabled">> \in seen
    /\ kind = "disable" /\ w \notin lost => \E state \in {"disabled", "detached"} : <<p, state>> \in seen
    /\ kind = "detach" /\ w \notin lost => <<p, "detached">> \in seen

FoundFits(w) ==
    found[w] # None => FoundIs(usages, nextId, witness[w], Project(w), found[w])

\* A walk that has found nothing so far has it all in front of it.
WalkFits(w) ==
    pc[w] \in Walking /\ w \notin shifted /\ found[w] = None =>
        \/ <<Project(w), "detached">> \in witness[w]
        \/ \E i \in At(usages, Project(w)) : i > page[w] * PageSize

PlaceFits(w) ==
    /\ pc[w] = "idle" => results[w] = <<>> /\ page[w] = 0
    /\ pc[w] \in {"idle"} \union Ended => found[w] = None
    /\ w \in Running => Len(results[w]) < Len(call[w].projects) /\ Holding(usages) \subseteq witness[w]
    /\ pc[w] \in {"set", "delete"} => found[w] # None
    /\ pc[w] = "ok" => Len(results[w]) = Len(call[w].projects)
    /\ pc[w] = "delete" => call[w].kind = "detach"
    /\ pc[w] = "set" => call[w].kind # "detach"
    /\ pc[w] \in {"attach", "refetch"} => call[w].kind = "enable"

ResultsFit(w) ==
    \A i \in 1..Len(results[w]) :
        AnswerIs(w, call[w].kind, shifted, witness[w], call[w].projects[i], results[w][i])

CallFits(w) == FoundFits(w) /\ WalkFits(w) /\ PlaceFits(w) /\ ResultsFit(w)

UsagesInv == TypeOK /\ ListFits /\ \A w \in Workers : CallFits(w)

\* A call that is under way sees the list as it is after a step.
Sees(w) == witness[w] \subseteq witness'[w] /\ Holding(usages') \subseteq witness'[w]

LEMMA HoldingIs ==
  ASSUME NEW s, NEW p \in Projects
  PROVE  /\ <<p, State(s, p)>> \in Holding(s)
         /\ \A state : <<p, state>> \in Holding(s) => state = State(s, p)
  BY DEF Holding

LEMMA InListIsFound ==
  ASSUME NEW s \in Seq(Usages), OneUsageEach(s), NEW next, NEW i \in 1..Len(s), s[i].id < next,
         NEW seen, Holding(s) \subseteq seen
  PROVE  FoundIs(s, next, seen, s[i].project, s[i])
<1>1. DOMAIN s = 1..Len(s)
  BY LenProperties
<1>2. <<s[i].project, StateOf(s[i])>> \in seen
  <2>1. State(s, s[i].project) = StateOf(s[i]) /\ s[i].project \in Projects
    BY StateIs, UsageFields
  <2> QED
    BY <2>1, HoldingIs
<1>3. WithId(s, s[i].id) # {}
  BY <1>1 DEF WithId
<1>4. \A j \in DOMAIN s : s[j].id = s[i].id => s[j].project = s[i].project
  BY <1>1 DEF OneUsageEach
<1> QED
  BY <1>2, <1>3, <1>4 DEF FoundIs

\* A walk that begins has everything in front of it.
LEMMA WalkBegins ==
  ASSUME NEW s \in Seq(Usages), OneUsageEach(s), NEW p \in Projects,
         NEW seen, Holding(s) \subseteq seen
  PROVE  \/ <<p, "detached">> \in seen
         \/ \E i \in At(s, p) : i > 0 * PageSize
<1>1. DOMAIN s = 1..Len(s) /\ 0 * PageSize = 0
  BY LenProperties, PageAssumption
<1>2. CASE State(s, p) = "detached"
  BY <1>2, HoldingIs
<1>3. CASE State(s, p) # "detached"
  <2>1. \E i \in 1..Len(s) : s[i].project = p
    BY <1>3, StateIs
  <2> QED
    BY <1>1, <2>1 DEF At
<1> QED
  BY <1>2, <1>3

LEMMA AnswerStays ==
  ASSUME NEW w, NEW kind, NEW lost, NEW lost2, lost \subseteq lost2,
         NEW seen, NEW seen2, seen \subseteq seen2, NEW p, NEW u,
         AnswerIs(w, kind, lost, seen, p, u)
  PROVE  AnswerIs(w, kind, lost2, seen2, p, u)
  BY DEF AnswerIs

LEMMA FoundStays ==
  ASSUME TypeOK, ListFits, Evolves, NEW w \in Workers, Sees(w), NEW p \in Projects, NEW u \in Usages,
         FoundIs(usages, nextId, witness[w], p, u)
  PROVE  FoundIs(usages', nextId', witness'[w], p, u)
<1>1. DOMAIN usages = 1..Len(usages) /\ DOMAIN usages' = 1..Len(usages')
  BY LenProperties DEF TypeOK, Evolves
<1>2. u.id \in Nat /\ nextId \in Nat /\ nextId' \in Nat /\ nextId <= nextId'
  BY PageAssumption DEF Usages, TypeOK, Evolves
<1>3. u.project = p /\ u.id < nextId' /\ <<p, StateOf(u)>> \in witness'[w]
  BY <1>2 DEF FoundIs, Sees
<1>4. ASSUME NEW j \in DOMAIN usages', usages'[j].id = u.id
      PROVE  usages'[j].project = p
  <2>1. ~(usages'[j].id >= nextId)
    BY <1>2, <1>4 DEF FoundIs
  <2>2. PICK i \in 1..Len(usages) : SameUsage(usages'[j], usages[i])
    BY <1>1, <2>1 DEF Evolves, IdsKept
  <2> QED
    BY <1>1, <1>4, <2>2 DEF FoundIs, SameUsage
<1>5. ASSUME WithId(usages, u.id) # {}
      PROVE  WithId(usages', u.id) # {} \/ <<p, "detached">> \in witness'[w]
  <2>1. PICK i \in 1..Len(usages) : usages[i].id = u.id
    BY <1>1, <1>5 DEF WithId
  <2>2. usages[i].project = p
    BY <1>1, <2>1 DEF FoundIs
  <2>3. CASE State(usages', usages[i].project) = "detached"
    BY <2>2, <2>3, HoldingIs DEF Sees
  <2>4. CASE \E j \in 1..Len(usages') : SameUsage(usages'[j], usages[i])
    BY <1>1, <2>1, <2>4 DEF WithId, SameUsage
  <2> QED
    BY <2>3, <2>4 DEF Evolves, NothingLost
<1> QED
  BY <1>3, <1>4, <1>5 DEF FoundIs, Sees

(***************************************************************************)
(* What a step leaves a call with.                                         *)
(***************************************************************************)
LEMMA CallTypes ==
  ASSUME UsagesInv, NEW w \in Workers
  PROVE  /\ call[w].kind \in Kinds
         /\ call[w].projects \in Seq(Projects)
         /\ Len(call[w].projects) \in Nat \ {0}
         /\ results[w] \in Seq(Usages \union {None}) /\ Len(results[w]) \in Nat
         /\ w \in Running => Project(w) \in Projects
<1>1. call[w] \in CallsOfTheClient
  BY CallsAssumption DEF UsagesInv, TypeOK
<1>2. /\ call[w].kind \in Kinds /\ call[w].projects \in Seq(Projects) /\ call[w].projects # <<>>
  BY <1>1 DEF CallsOfTheClient
<1>3. Len(call[w].projects) \in Nat \ {0}
  BY <1>2, LenProperties, EmptySeq
<1>4. results[w] \in Seq(Usages \union {None}) /\ Len(results[w]) \in Nat
  BY LenProperties DEF UsagesInv, TypeOK
<1>5. ASSUME w \in Running
      PROVE  Project(w) \in Projects
  <2>1. Len(results[w]) + 1 \in 1..Len(call[w].projects)
    BY <1>3, <1>4, <1>5 DEF UsagesInv, CallFits, PlaceFits
  <2> QED
    BY <1>2, <2>1, ElementOfSeq DEF Project
<1> QED
  BY <1>2, <1>3, <1>4, <1>5

\* A call that takes no step itself.
LEMMA BystanderFits ==
  ASSUME UsagesInv, Evolves, NEW w \in Workers, call' = call,
         pc'[w] = pc[w], page'[w] = page[w], found'[w] = found[w], results'[w] = results[w],
         pc' \in [Workers -> {"idle", "attach", "set", "delete"} \union Walking \union Ended],
         w \in Running => Sees(w),
         witness[w] \subseteq witness'[w]
  PROVE  CallFits(w)'
<1>1. CallFits(w) /\ TypeOK /\ ListFits
  BY DEF UsagesInv
<1>2. w \in Running' <=> w \in Running
  BY DEF Running
<1>3. Project(w)' = Project(w)
  BY DEF Project
<1>4. FoundFits(w)'
  <2> SUFFICES ASSUME found[w] # None
               PROVE  FoundIs(usages', nextId', witness'[w], Project(w), found[w])
    BY <1>3 DEF FoundFits
  <2>1. w \in Running
    BY <1>1 DEF CallFits, PlaceFits, Running
  <2>2. found[w] \in Usages /\ FoundIs(usages, nextId, witness[w], Project(w), found[w])
    BY <1>1 DEF TypeOK, CallFits, FoundFits
  <2> QED
    BY <1>1, <2>1, <2>2, CallTypes, FoundStays
<1>5. WalkFits(w)'
  <2> SUFFICES ASSUME pc[w] \in Walking, w \notin shifted', found[w] = None
               PROVE  \/ <<Project(w), "detached">> \in witness'[w]
                      \/ \E i \in At(usages', Project(w)) : i > page[w] * PageSize
    BY <1>3 DEF WalkFits
  <2>1. w \in Running /\ w \notin shifted
    BY DEF Running, Walking, Ended, Evolves
  <2>2. Project(w) \in Projects /\ Sees(w)
    BY <2>1, CallTypes
  <2>3. CASE <<Project(w), "detached">> \in witness[w]
    BY <2>3
  <2>4. CASE \E i \in At(usages, Project(w)) : i > page[w] * PageSize
    <3>1. DOMAIN usages = 1..Len(usages) /\ DOMAIN usages' = 1..Len(usages')
      BY <1>1, LenProperties DEF TypeOK, Evolves
    <3>2. PICK i \in 1..Len(usages) : usages[i].project = Project(w) /\ i > page[w] * PageSize
      BY <2>4, <3>1 DEF At
    <3>3. CASE State(usages', Project(w)) = "detached"
      BY <2>2, <3>3, HoldingIs DEF Sees
    <3>4. CASE \E j \in 1..Len(usages') :
                  j > page[w] * PageSize /\ usages'[j].project = Project(w)
      BY <3>1, <3>4 DEF At
    <3> QED
      BY <3>2, <3>3, <3>4 DEF Evolves, PlacesKept
  <2> QED
    BY <1>1, <2>1, <2>3, <2>4 DEF CallFits, WalkFits
<1>6. PlaceFits(w)'
  BY <1>1, <1>2 DEF CallFits, PlaceFits, Sees
<1>7. ResultsFit(w)'
  <2> SUFFICES ASSUME NEW i \in 1..Len(results[w])
               PROVE  AnswerIs(w, call[w].kind, shifted', witness'[w],
                               call[w].projects[i], results[w][i])
    BY DEF ResultsFit
  <2>1. AnswerIs(w, call[w].kind, shifted, witness[w], call[w].projects[i], results[w][i])
    BY <1>1 DEF CallFits, ResultsFit
  <2>2. shifted \subseteq shifted'
    BY DEF Evolves
  <2> QED
    BY <2>1, <2>2, AnswerStays
<1> QED
  BY <1>4, <1>5, <1>6, <1>7 DEF CallFits

\* The results a call has already are as true after a step.
LEMMA OldResultsFit ==
  ASSUME UsagesInv, Evolves, NEW w \in Workers, call' = call, witness[w] \subseteq witness'[w],
         NEW i \in 1..Len(results[w])
  PROVE  AnswerIs(w, call[w].kind, shifted', witness'[w], call[w].projects[i], results[w][i])
<1>1. AnswerIs(w, call[w].kind, shifted, witness[w], call[w].projects[i], results[w][i])
  BY DEF UsagesInv, CallFits, ResultsFit
<1>2. shifted \subseteq shifted'
  BY DEF Evolves
<1> QED
  BY <1>1, <1>2, AnswerStays

\* A call that has answered for a project goes on with the next one, or ends.
LEMMA ReturnFits ==
  ASSUME UsagesInv, Evolves, NEW w \in Running, call' = call, Sees(w),
         NEW u \in Usages \union {None}, Return(w, u),
         AnswerIs(w, call[w].kind, shifted', witness'[w], Project(w), u)
  PROVE  CallFits(w)'
<1> DEFINE n == Len(results[w])
<1>1. w \in Workers /\ TypeOK /\ CallFits(w)
  BY DEF Running, UsagesInv
<1>2. /\ results'[w] = Append(results[w], u)
      /\ pc'[w] = IF n + 1 < Len(call[w].projects) THEN "list" ELSE "ok"
      /\ found'[w] = None /\ page'[w] = 0
  BY <1>1 DEF Return, TypeOK
<1>3. /\ results[w] \in Seq(Usages \union {None}) /\ n \in Nat
      /\ Len(call[w].projects) \in Nat /\ n < Len(call[w].projects)
      /\ call[w].projects \in Seq(Projects)
  BY <1>1, CallTypes DEF CallFits, PlaceFits
<1>4. /\ Len(results'[w]) = n + 1
      /\ \A i \in 1..n : results'[w][i] = results[w][i]
      /\ results'[w][n + 1] = u
  BY <1>2, <1>3, AppendProperties
<1> HIDE DEF n
<1>5. FoundFits(w)'
  BY <1>2 DEF FoundFits
<1>6. PlaceFits(w)'
  <2>1. n + 1 = Len(call[w].projects) \/ n + 1 < Len(call[w].projects)
    BY <1>3
  <2> QED
    BY <1>2, <1>3, <1>4, <2>1 DEF PlaceFits, Sees, Running, Ended
<1>7. WalkFits(w)'
  <2> SUFFICES ASSUME n + 1 < Len(call[w].projects)
               PROVE  \/ <<Project(w)', "detached">> \in witness'[w]
                      \/ \E i \in At(usages', Project(w)') : i > 0 * PageSize
    BY <1>2 DEF WalkFits, Walking
  <2>1. (n + 1) + 1 \in 1..Len(call[w].projects) /\ Project(w)' = call[w].projects[(n + 1) + 1]
    BY <1>3, <1>4 DEF Project
  <2>2. Project(w)' \in Projects
    BY <1>3, <2>1, ElementOfSeq
  <2> QED
    BY <2>2, WalkBegins DEF Evolves, ListFits, Sees
<1>8. ResultsFit(w)'
  <2> SUFFICES ASSUME NEW i \in 1..(n + 1)
               PROVE  AnswerIs(w, call[w].kind, shifted', witness'[w],
                               call[w].projects[i], results'[w][i])
    BY <1>4 DEF ResultsFit
  <2>1. CASE i \in 1..n
    BY <1>1, <1>4, <2>1, OldResultsFit DEF Sees, n
  <2>2. CASE i = n + 1
    BY <1>4, <2>2 DEF Project, n
  <2> QED
    BY <1>3, <2>1, <2>2
<1> QED
  BY <1>5, <1>6, <1>7, <1>8 DEF CallFits

\* A call goes on with a usage it has found, or without one.
LEMMA ContinueFits ==
  ASSUME UsagesInv, Evolves, NEW w \in Running, call' = call, Sees(w),
         NEW to, NEW u, Continue(w, to, u),
         \/ to \in {"attach", "refetch"} /\ u = None /\ call[w].kind = "enable"
         \/ /\ \/ to = "set" /\ call[w].kind # "detach"
               \/ to = "delete" /\ call[w].kind = "detach"
            /\ u \in Usages /\ FoundIs(usages', nextId', witness'[w], Project(w), u)
  PROVE  CallFits(w)'
<1>1. w \in Workers /\ TypeOK /\ CallFits(w)
  BY DEF Running, UsagesInv
<1>2. pc'[w] = to /\ found'[w] = u /\ page'[w] = 0 /\ results' = results
  BY <1>1 DEF Continue, TypeOK
<1>3. Project(w)' = Project(w) /\ Project(w) \in Projects
  BY <1>1, <1>2, CallTypes DEF Project
<1>4. FoundFits(w)'
  BY <1>2, <1>3 DEF FoundFits
<1>5. PlaceFits(w)'
  <2>1. u \in Usages => u # None
    BY NilAssumption
  <2>2. Len(results[w]) < Len(call[w].projects)
    BY <1>1 DEF CallFits, PlaceFits
  <2> QED
    BY <1>2, <2>1, <2>2 DEF PlaceFits, Sees, Ended
<1>6. WalkFits(w)'
  BY <1>2, <1>3, WalkBegins DEF WalkFits, Evolves, ListFits, Sees
<1>7. ResultsFit(w)'
  BY <1>1, <1>2, OldResultsFit DEF ResultsFit, Sees
<1> QED
  BY <1>4, <1>5, <1>6, <1>7 DEF CallFits

LEMMA FailFits ==
  ASSUME UsagesInv, Evolves, NEW w \in Running, call' = call, Sees(w), FailCall(w)
  PROVE  CallFits(w)'
<1>1. w \in Workers /\ TypeOK
  BY DEF Running, UsagesInv
<1>2. pc'[w] = "err" /\ found'[w] = None /\ results' = results
  BY <1>1 DEF FailCall, TypeOK
<1>3. ResultsFit(w)'
  BY <1>1, <1>2, OldResultsFit DEF ResultsFit, Sees
<1> QED
  BY <1>2, <1>3 DEF CallFits, FoundFits, WalkFits, PlaceFits, Walking, Running, Ended

(***************************************************************************)
(* The steps.                                                              *)
(***************************************************************************)
LEMMA InitFits == Init => UsagesInv
<1> SUFFICES ASSUME Init
             PROVE  UsagesInv
  OBVIOUS
<1>1. /\ usages \in Seq(Usages) /\ OneUsageEach(usages) /\ Len(usages) <= MaxUsages
      /\ \A i \in DOMAIN usages : usages[i].id <= Len(usages)
  BY UsagesAssumption DEF Init
<1>2. Len(usages) \in Nat /\ DOMAIN usages = 1..Len(usages)
  BY <1>1, LenProperties
<1>3. nextId \in 1..(MaxUsages + 1)
  BY <1>1, <1>2, PageAssumption DEF Init
<1>4. TypeOK
  BY <1>1, <1>3, PageAssumption, EmptySeq DEF Init, TypeOK
<1>5. ListFits
  <2>1. ASSUME NEW i \in 1..Len(usages)
        PROVE  usages[i].id < nextId
    <3>1. usages[i].id \in Nat
      BY <1>1, UsageFields
    <3> QED
      BY <1>1, <1>2, <3>1 DEF Init
  <2> QED
    BY <1>1, <1>2, <2>1 DEF Init, ListFits
<1>6. ASSUME NEW w \in Workers
      PROVE  CallFits(w)
  <2>1. /\ pc[w] = "idle" /\ found[w] = None /\ page[w] = 0
        /\ results[w] = <<>> /\ Len(results[w]) = 0
    BY <1>6, EmptySeq DEF Init
  <2>2. FoundFits(w) /\ WalkFits(w) /\ ResultsFit(w)
    BY <2>1 DEF FoundFits, WalkFits, ResultsFit, Walking
  <2>3. PlaceFits(w)
    BY <2>1 DEF PlaceFits, Running
  <2> QED
    BY <2>2, <2>3 DEF CallFits
<1> QED
  BY <1>4, <1>5, <1>6 DEF UsagesInv

LEMMA ServedIs ==
  ASSUME TypeOK, ListFits, NEW w \in Workers
  PROVE  /\ page[w] * PageSize \in Nat
         /\ Served(w) \in Seq(Usages) /\ Len(Served(w)) \in 0..PageSize
         /\ OneUsageEach(Served(w))
         /\ \A i \in 1..Len(Served(w)) :
               /\ page[w] * PageSize + i \in 1..Len(usages)
               /\ Served(w)[i] = usages[page[w] * PageSize + i]
         /\ Len(Served(w)) = PageSize \/ Len(usages) <= page[w] * PageSize + Len(Served(w))
<1> DEFINE m == page[w] * PageSize
<1>1. m \in Nat /\ usages \in Seq(Usages) /\ PageSize \in Nat
  BY PageAssumption DEF TypeOK
<1>2. Len(usages) \in Nat /\ DOMAIN usages = 1..Len(usages)
  BY <1>1, LenProperties
<1> HIDE DEF m
<1> DEFINE pg == Page(usages, PageSize, m)
<1>3. /\ pg \in Seq(Usages) /\ Len(pg) \in 0..PageSize
      /\ Len(pg) = 0 \/ m + Len(pg) <= Len(usages)
      /\ Len(pg) = PageSize \/ Len(usages) <= m + Len(pg)
      /\ \A i \in 1..Len(pg) : pg[i] = usages[m + i]
  BY <1>1, PageProperties
<1>4. Served(w) = pg
  BY DEF Served, m
<1> HIDE DEF pg
<1>5. DOMAIN pg = 1..Len(pg)
  BY <1>3, LenProperties
<1>6. \A i \in 1..Len(pg) : m + i \in 1..Len(usages)
  BY <1>1, <1>2, <1>3
<1>7. OneUsageEach(pg)
  <2> SUFFICES ASSUME NEW i \in 1..Len(pg), NEW j \in 1..Len(pg),
                      pg[i].id = pg[j].id \/ pg[i].project = pg[j].project
               PROVE  i = j
    BY <1>5 DEF OneUsageEach
  <2>1. m + i = m + j
    BY <1>2, <1>3, <1>6 DEF ListFits, OneUsageEach
  <2> QED
    BY <1>1, <2>1
<1> QED
  BY <1>1, <1>3, <1>4, <1>6, <1>7 DEF m

LEMMA PageAdvances ==
  ASSUME TypeOK, ListFits, NEW w \in Workers, Len(Served(w)) = PageSize
  PROVE  page[w] + 1 \in 0..MaxUsages
<1>1. page[w] \in Nat /\ PageSize \in Nat /\ PageSize >= 1 /\ MaxUsages \in Nat
      /\ nextId \in 1..(MaxUsages + 1) /\ Len(usages) < nextId /\ Len(usages) \in Nat
  BY PageAssumption, LenProperties DEF TypeOK, ListFits
<1>2. page[w] * PageSize + PageSize \in 1..Len(usages)
  BY <1>1, ServedIs
<1>3. page[w] * PageSize >= page[w]
  BY <1>1
<1> QED
  BY <1>1, <1>2, <1>3

\* What a page adds to what the walk knows: the first usage of the project
\* so far, or that there is none up to here.
LEMMA FoundAfterFits ==
  ASSUME UsagesInv, NEW w \in Running
  PROVE  /\ FoundAfter(w) # None =>
               /\ FoundAfter(w) \in Usages
               /\ FoundIs(usages, nextId, witness[w], Project(w), FoundAfter(w))
         /\ pc[w] \in Walking /\ w \notin shifted /\ FoundAfter(w) = None =>
               \/ <<Project(w), "detached">> \in witness[w]
               \/ /\ Len(Served(w)) = PageSize
                  /\ \E i \in At(usages, Project(w)) : i > (page[w] + 1) * PageSize
<1> DEFINE p == Project(w)
           m == page[w] * PageSize
           s == Served(w)
<1>1. w \in Workers /\ TypeOK /\ ListFits /\ CallFits(w)
  BY DEF Running, UsagesInv
<1>2. /\ usages \in Seq(Usages) /\ DOMAIN usages = 1..Len(usages) /\ Len(usages) \in Nat
      /\ OneUsageEach(usages) /\ \A i \in 1..Len(usages) : usages[i].id < nextId
      /\ Holding(usages) \subseteq witness[w]
  BY <1>1, LenProperties DEF TypeOK, ListFits, CallFits, PlaceFits
<1>3. /\ m \in Nat /\ s \in Seq(Usages) /\ Len(s) \in 0..PageSize /\ OneUsageEach(s)
      /\ \A i \in 1..Len(s) : m + i \in 1..Len(usages) /\ s[i] = usages[m + i]
      /\ Len(s) = PageSize \/ Len(usages) <= m + Len(s)
  BY <1>1, ServedIs
<1>4. (page[w] + 1) * PageSize = m + PageSize
  BY <1>1, PageAssumption DEF TypeOK
<1>5. CASE found[w] # None
  BY <1>1, <1>5 DEF FoundAfter, TypeOK, CallFits, FoundFits
<1>6. CASE found[w] = None
  <2>1. FoundAfter(w) = FirstOf(s, p)
    BY <1>6 DEF FoundAfter
  <2> HIDE DEF s, p, m
  <2>2. ASSUME NEW i \in 1..Len(s), s[i].project = p, FirstOf(s, p) = s[i]
        PROVE  s[i] \in Usages /\ FoundIs(usages, nextId, witness[w], p, s[i])
    <3>1. PICK k \in 1..Len(usages) : s[i] = usages[k]
      BY <1>3
    <3> QED
      BY <1>2, <2>2, <3>1, InListIsFound, UsageFields
  <2>3. ASSUME \A i \in 1..Len(s) : s[i].project # p, pc[w] \in Walking, w \notin shifted
        PROVE  \/ <<p, "detached">> \in witness[w]
               \/ Len(s) = PageSize /\ \E i \in At(usages, p) : i > m + PageSize
    <3>1. CASE <<p, "detached">> \in witness[w]
      BY <3>1
    <3>2. ASSUME NEW i \in At(usages, p), i > m
          PROVE  Len(s) = PageSize /\ i > m + PageSize
      <4>1. i \in 1..Len(usages) /\ usages[i].project = p
        BY <1>2, <3>2 DEF At
      <4>2. ~(i - m \in 1..Len(s))
        <5>1. ASSUME i - m \in 1..Len(s)
              PROVE  FALSE
          <6>1. s[i - m] = usages[m + (i - m)] /\ m + (i - m) = i
            BY <1>3, <4>1, <5>1
          <6> QED
            BY <2>3, <4>1, <5>1, <6>1
        <5> QED
          BY <5>1
      <4> QED
        BY <1>2, <1>3, <3>2, <4>1, <4>2, PageAssumption
    <3> QED
      BY <1>1, <1>6, <2>3, <3>1, <3>2 DEF CallFits, WalkFits, p, m
  <2>4. \A i \in 1..Len(s) : s[i] # None
    BY <1>3, UsageFields
  <2>5. CASE \A i \in 1..Len(s) : s[i].project # p
    <3>1. FirstOf(s, p) = None
      BY <1>3, <2>5, FirstOfCases
    <3> QED
      BY <1>4, <2>1, <2>3, <2>5, <3>1 DEF s, p
  <2>6. ASSUME NEW i \in 1..Len(s), s[i].project = p, FirstOf(s, p) = s[i]
        PROVE  /\ FoundAfter(w) # None /\ FoundAfter(w) \in Usages
               /\ FoundIs(usages, nextId, witness[w], p, FoundAfter(w))
    BY <2>1, <2>2, <2>4, <2>6
  <2> QED
    BY <1>3, <2>5, <2>6, FirstOfCases DEF p
<1> QED
  BY <1>5, <1>6

\* What a call is a witness of after a request that w makes.
WitnessMoves ==
    \/ Witness
    \/ UNCHANGED <<usages, witness>>

LEMMA RunningSees ==
  ASSUME UsagesInv, WitnessMoves, NEW v \in Workers
  PROVE  /\ v \in Running => Sees(v)
         /\ witness[v] \subseteq witness'[v]
<1>1. CASE Witness
  BY <1>1 DEF Witness, Witnessed, Sees
<1>2. CASE UNCHANGED <<usages, witness>>
  BY <1>2 DEF UsagesInv, CallFits, PlaceFits, Sees
<1> QED
  BY <1>1, <1>2 DEF WitnessMoves

LEMMA WitnessTypes ==
  ASSUME TypeOK, Evolves, WitnessMoves
  PROVE  witness' \in [Workers -> SUBSET (Projects \X {"enabled", "disabled", "detached"})]
<1> DEFINE pairs == Projects \X {"enabled", "disabled", "detached"}
<1> SUFFICES witness' \in [Workers -> SUBSET pairs]
  OBVIOUS
<1>1. Holding(usages') \subseteq pairs
  BY StateIs DEF Holding, Evolves, ListFits
<1>2. witness \in [Workers -> SUBSET pairs]
  BY DEF TypeOK
<1> HIDE DEF pairs
<1>3. CASE Witness
  <2>1. witness' = [w \in Workers |->
           IF w \in Running THEN witness[w] \union Holding(usages') ELSE witness[w]]
    BY <1>3 DEF Witness, Witnessed
  <2> QED
    BY <1>1, <1>2, <2>1
<1>4. CASE UNCHANGED <<usages, witness>>
  BY <1>2, <1>4
<1> QED
  BY <1>3, <1>4 DEF WitnessMoves

\* A call goes on: the worker w alone moves.
OnlyMoves(w) ==
    \A v \in Workers \ {w} :
        pc'[v] = pc[v] /\ page'[v] = page[v] /\ found'[v] = found[v] /\ results'[v] = results[v]

ClientTypes ==
    /\ pc' \in [Workers -> {"idle", "attach", "set", "delete"} \union Walking \union Ended]
    /\ page' \in [Workers -> 0..MaxUsages]
    /\ found' \in [Workers -> Usages \union {None}]
    /\ results' \in [Workers -> Seq(Usages \union {None})]

LEMMA ReturnMoves ==
  ASSUME TypeOK, NEW w \in Workers, NEW u \in Usages \union {None}, Return(w, u)
  PROVE  ClientTypes /\ OnlyMoves(w)
<1> DEFINE results2 == Append(results[w], u)
<1>1. results[w] \in Seq(Usages \union {None})
  BY DEF TypeOK
<1>2. results2 \in Seq(Usages \union {None}) /\ results' = [results EXCEPT ![w] = results2]
  BY <1>1, AppendProperties DEF Return
<1> HIDE DEF results2
<1>3. results' \in [Workers -> Seq(Usages \union {None})]
  BY <1>2 DEF TypeOK
<1>4. /\ pc' \in [Workers -> {"idle", "attach", "set", "delete"} \union Walking \union Ended]
      /\ found' \in [Workers -> Usages \union {None}]
  BY DEF Return, TypeOK, Walking, Ended
<1>5. page' \in [Workers -> 0..MaxUsages]
  BY PageAssumption DEF Return, TypeOK
<1>6. OnlyMoves(w)
  BY DEF Return, TypeOK, OnlyMoves
<1> QED
  BY <1>3, <1>4, <1>5, <1>6 DEF ClientTypes

LEMMA ContinueMoves ==
  ASSUME TypeOK, NEW w \in Workers, NEW to \in {"attach", "refetch", "set", "delete"},
         NEW u \in Usages \union {None}, Continue(w, to, u)
  PROVE  ClientTypes /\ OnlyMoves(w)
<1>1. /\ pc' \in [Workers -> {"idle", "attach", "set", "delete"} \union Walking \union Ended]
      /\ found' \in [Workers -> Usages \union {None}]
      /\ results' \in [Workers -> Seq(Usages \union {None})]
  BY DEF Continue, TypeOK, Walking, Ended
<1>2. page' \in [Workers -> 0..MaxUsages]
  BY PageAssumption DEF Continue, TypeOK
<1>3. OnlyMoves(w)
  BY DEF Continue, TypeOK, OnlyMoves
<1> QED
  BY <1>1, <1>2, <1>3 DEF ClientTypes

LEMMA FailMoves ==
  ASSUME TypeOK, NEW w \in Workers, FailCall(w)
  PROVE  ClientTypes /\ OnlyMoves(w)
<1>1. /\ pc' \in [Workers -> {"idle", "attach", "set", "delete"} \union Walking \union Ended]
      /\ found' \in [Workers -> Usages \union {None}]
      /\ results' \in [Workers -> Seq(Usages \union {None})]
  BY DEF FailCall, TypeOK, Walking, Ended
<1>2. page' \in [Workers -> 0..MaxUsages]
  BY PageAssumption DEF FailCall, TypeOK
<1>3. OnlyMoves(w)
  BY DEF FailCall, TypeOK, OnlyMoves
<1> QED
  BY <1>1, <1>2, <1>3 DEF ClientTypes

\* A step keeps the invariant when the list evolves as it may, one worker
\* moves, and that worker's call is left as it should be.
LEMMA MoveFits ==
  ASSUME UsagesInv, Evolves, WitnessMoves, call' = call, NEW w \in Workers,
         ClientTypes, OnlyMoves(w), CallFits(w)'
  PROVE  UsagesInv'
<1>1. TypeOK'
  BY WitnessTypes DEF UsagesInv, TypeOK, ClientTypes, Evolves
<1>2. ASSUME NEW v \in Workers, v # w
      PROVE  CallFits(v)'
  <2>1. pc'[v] = pc[v] /\ page'[v] = page[v] /\ found'[v] = found[v] /\ results'[v] = results[v]
    BY <1>2 DEF OnlyMoves
  <2> QED
    BY <2>1, RunningSees, BystanderFits DEF ClientTypes
<1>3. ListFits'
  BY DEF Evolves
<1> QED
  BY <1>1, <1>2, <1>3 DEF UsagesInv

\* The three ways a call goes on, put together.
LEMMA ReturnStep ==
  ASSUME UsagesInv, Evolves, WitnessMoves, call' = call, NEW w \in Running,
         NEW u \in Usages \union {None}, Return(w, u),
         AnswerIs(w, call[w].kind, shifted', witness'[w], Project(w), u)
  PROVE  UsagesInv'
<1>1. w \in Workers /\ TypeOK
  BY DEF Running, UsagesInv
<1>2. Sees(w)
  BY <1>1, RunningSees
<1>3. CallFits(w)'
  BY <1>2, ReturnFits
<1>4. ClientTypes /\ OnlyMoves(w)
  BY <1>1, ReturnMoves
<1> QED
  BY <1>1, <1>3, <1>4, MoveFits

LEMMA ContinueStep ==
  ASSUME UsagesInv, Evolves, WitnessMoves, call' = call, NEW w \in Running,
         NEW to, NEW u, Continue(w, to, u),
         \/ to \in {"attach", "refetch"} /\ u = None /\ call[w].kind = "enable"
         \/ /\ \/ to = "set" /\ call[w].kind # "detach"
               \/ to = "delete" /\ call[w].kind = "detach"
            /\ u \in Usages /\ FoundIs(usages', nextId', witness'[w], Project(w), u)
  PROVE  UsagesInv'
<1>1. w \in Workers /\ TypeOK
  BY DEF Running, UsagesInv
<1>2. Sees(w)
  BY <1>1, RunningSees
<1>3. CallFits(w)'
  BY <1>2, ContinueFits
<1>4. to \in {"attach", "refetch", "set", "delete"} /\ u \in Usages \union {None}
  OBVIOUS
<1>5. ClientTypes /\ OnlyMoves(w)
  BY <1>1, <1>4, ContinueMoves
<1> QED
  BY <1>1, <1>3, <1>5, MoveFits

LEMMA FailStep ==
  ASSUME UsagesInv, Evolves, WitnessMoves, call' = call, NEW w \in Running, FailCall(w)
  PROVE  UsagesInv'
<1>1. w \in Workers /\ TypeOK
  BY DEF Running, UsagesInv
<1>2. Sees(w)
  BY <1>1, RunningSees
<1>3. CallFits(w)'
  BY <1>2, FailFits
<1>4. ClientTypes /\ OnlyMoves(w)
  BY <1>1, FailMoves
<1> QED
  BY <1>1, <1>3, <1>4, MoveFits

\* What the three requests with an effect have in common.
LEMMA RequestFacts ==
  ASSUME UsagesInv, NEW w \in Workers, AttachApp(w) \/ SetEnabled(w) \/ DeleteUsage(w)
  PROVE  /\ w \in Running /\ call' = call /\ WitnessMoves
         /\ Evolves /\ OnlyTouches(Project(w))
         /\ AttachApp(w) => \E j \in 1..Len(usages') : usages'[j].project = Project(w)
         /\ SetEnabled(w) /\ WithId(usages, found[w].id) # {} =>
               State(usages', Project(w)) = IF Enabling(w) THEN "enabled" ELSE "disabled"
         /\ DeleteUsage(w) /\ WithId(usages, found[w].id) # {} =>
               State(usages', Project(w)) = "detached"
<1>1. TypeOK /\ ListFits /\ CallFits(w)
  BY DEF UsagesInv
<1>2. w \in Running /\ call' = call /\ WitnessMoves
  BY DEF AttachApp, SetEnabled, DeleteUsage, Running, Ended, WitnessMoves
<1>3. Project(w) \in Projects
  BY <1>2, CallTypes
<1>4. CASE AttachApp(w)
  <2>1. pc[w] = "attach" /\ ServerAttaches(Project(w)) /\ shifted' = shifted
    BY <1>4 DEF AttachApp
  <2>2. /\ Evolves /\ OnlyTouches(Project(w))
        /\ \E j \in 1..Len(usages') : usages'[j].project = Project(w)
    BY <1>1, <1>3, <2>1, AttachEvolves
  <2> QED
    BY <1>2, <2>1, <2>2 DEF SetEnabled, DeleteUsage
<1>5. CASE SetEnabled(w) \/ DeleteUsage(w)
  <2>1. pc[w] \in {"set", "delete"}
    BY <1>5 DEF SetEnabled, DeleteUsage
  <2>2. \A i \in DOMAIN usages : usages[i].id = found[w].id => usages[i].project = Project(w)
    BY <1>1, <2>1 DEF CallFits, PlaceFits, FoundFits, FoundIs
  <2>3. ASSUME SetEnabled(w)
        PROVE  /\ Evolves /\ OnlyTouches(Project(w))
               /\ WithId(usages, found[w].id) # {} =>
                     State(usages', Project(w)) = IF Enabling(w) THEN "enabled" ELSE "disabled"
    <3>1. ServerSets(found[w].id, Enabling(w)) /\ shifted' = shifted
      BY <2>3 DEF SetEnabled
    <3>2. Enabling(w) \in BOOLEAN
      BY Zenon DEF Enabling
    <3> QED
      BY <1>1, <2>2, <3>1, <3>2, SetEvolves
  <2>4. ASSUME DeleteUsage(w)
        PROVE  /\ Evolves /\ OnlyTouches(Project(w))
               /\ WithId(usages, found[w].id) # {} => State(usages', Project(w)) = "detached"
    <3>1. ServerDeletes(found[w].id)
      BY <2>4 DEF DeleteUsage
    <3> QED
      BY <1>1, <2>2, <3>1, DeleteEvolves
  <2>5. ~AttachApp(w)
    BY <2>1 DEF AttachApp
  <2>6. ~(SetEnabled(w) /\ DeleteUsage(w))
    BY DEF SetEnabled, DeleteUsage
  <2> QED
    BY <1>2, <1>5, <2>3, <2>4, <2>5, <2>6
<1> QED
  BY <1>4, <1>5

LEMMA BeginStep ==
  ASSUME UsagesInv, NEW w \in Workers, Begin(w)
  PROVE  UsagesInv'
<1>1. /\ TypeOK /\ ListFits /\ CallFits(w)
      /\ pc[w] = "idle" /\ found[w] = None /\ results[w] = <<>> /\ page[w] = 0
  BY DEF UsagesInv, Begin, CallFits, PlaceFits
<1>2. /\ pc' = [pc EXCEPT ![w] = "list"] /\ witness' = [witness EXCEPT ![w] = Holding(usages)]
      /\ UNCHANGED <<usages, nextId, call, page, found, results, shifted>>
  BY DEF Begin
<1>3. pc'[w] = "list" /\ witness'[w] = Holding(usages)
  BY <1>1, <1>2 DEF TypeOK
<1>4. Evolves
  BY <1>1, <1>2, StandingStill
<1>5. TypeOK'
  <2>1. Holding(usages) \subseteq Projects \X {"enabled", "disabled", "detached"}
    BY <1>1, StateIs DEF Holding, ListFits, TypeOK
  <2>2. witness' \in [Workers -> SUBSET (Projects \X {"enabled", "disabled", "detached"})]
    <3> DEFINE pairs == Projects \X {"enabled", "disabled", "detached"}
    <3>1. witness \in [Workers -> SUBSET pairs] /\ Holding(usages) \subseteq pairs
      BY <1>1, <2>1 DEF TypeOK
    <3> SUFFICES witness' \in [Workers -> SUBSET pairs]
      OBVIOUS
    <3> HIDE DEF pairs
    <3> QED
      BY <1>2, <3>1
  <2>3. pc' \in [Workers -> {"idle", "attach", "set", "delete"} \union Walking \union Ended]
    BY <1>1, <1>2 DEF TypeOK, Walking
  <2> QED
    BY <1>1, <1>2, <2>2, <2>3 DEF TypeOK
<1>6. CallFits(w)'
  <2>1. call[w].projects \in Seq(Projects) /\ Len(call[w].projects) \in Nat \ {0}
        /\ Len(results[w]) = 0
    BY <1>1, CallTypes, EmptySeq
  <2>2. Project(w) \in Projects /\ Project(w)' = Project(w)
    <3>1. Len(results[w]) + 1 \in 1..Len(call[w].projects)
      BY <2>1
    <3> QED
      BY <1>2, <2>1, <3>1, ElementOfSeq DEF Project
  <2>3. WalkFits(w)'
    BY <1>1, <1>2, <1>3, <2>2, WalkBegins DEF WalkFits, ListFits, TypeOK
  <2>4. FoundFits(w)' /\ ResultsFit(w)'
    BY <1>1, <1>2, <2>1 DEF FoundFits, ResultsFit
  <2>5. PlaceFits(w)'
    BY <1>2, <1>3, <2>1 DEF PlaceFits, Ended
  <2> QED
    BY <2>3, <2>4, <2>5 DEF CallFits
<1>7. ASSUME NEW v \in Workers, v # w
      PROVE  CallFits(v)'
  <2>1. pc'[v] = pc[v] /\ witness'[v] = witness[v]
    BY <1>1, <1>2, <1>7 DEF TypeOK
  <2>2. v \in Running => Sees(v)
    BY <1>2, <2>1 DEF UsagesInv, CallFits, PlaceFits, Sees
  <2>3. pc' \in [Workers -> {"idle", "attach", "set", "delete"} \union Walking \union Ended]
    BY <1>5 DEF TypeOK
  <2> QED
    BY <1>2, <1>4, <2>1, <2>2, <2>3, BystanderFits
<1>8. ListFits'
  BY <1>4 DEF Evolves
<1> QED
  BY <1>5, <1>6, <1>7, <1>8 DEF UsagesInv

\* The requests without an effect on the server.
LEMMA LookingOn ==
  ASSUME UsagesInv, UNCHANGED <<usages, nextId, call, witness, shifted>>
  PROVE  Evolves /\ WitnessMoves /\ call' = call
  BY StandingStill DEF UsagesInv, WitnessMoves

LEMMA ListMoreStep ==
  ASSUME UsagesInv, NEW w \in Workers, ListMore(w)
  PROVE  UsagesInv'
<1>1. TypeOK /\ ListFits /\ CallFits(w) /\ pc[w] \in Walking /\ w \in Running
  BY DEF UsagesInv, ListMore, Running, Walking, Ended
<1>2. Evolves /\ WitnessMoves /\ call' = call
  BY LookingOn DEF ListMore
<1>3. /\ found'[w] = FoundAfter(w) /\ page'[w] = page[w] + 1
      /\ UNCHANGED <<usages, nextId, call, pc, results, witness, shifted>>
      /\ Len(Served(w)) = PageSize
  BY <1>1 DEF ListMore, TypeOK
<1>4. /\ FoundAfter(w) # None =>
            /\ FoundAfter(w) \in Usages
            /\ FoundIs(usages, nextId, witness[w], Project(w), FoundAfter(w))
      /\ w \notin shifted /\ FoundAfter(w) = None =>
            \/ <<Project(w), "detached">> \in witness[w]
            \/ \E i \in At(usages, Project(w)) : i > (page[w] + 1) * PageSize
  BY <1>1, FoundAfterFits
<1>5. Project(w)' = Project(w)
  BY <1>3 DEF Project
<1>6. FoundFits(w)'
  BY <1>3, <1>4, <1>5 DEF FoundFits
<1>7. WalkFits(w)'
  BY <1>3, <1>4, <1>5 DEF WalkFits
<1>8. PlaceFits(w)'
  BY <1>1, <1>3 DEF CallFits, PlaceFits, Walking, Ended, Running
<1>9. ResultsFit(w)'
  BY <1>1, <1>3 DEF CallFits, ResultsFit
<1>10. ClientTypes
  <2>1. page[w] + 1 \in 0..MaxUsages
    BY <1>1, <1>3, PageAdvances
  <2>2. page' = [page EXCEPT ![w] = page[w] + 1]
    BY DEF ListMore
  <2>3. page' \in [Workers -> 0..MaxUsages]
    BY <1>1, <2>1, <2>2 DEF TypeOK
  <2>4. found' \in [Workers -> Usages \union {None}]
    BY <1>1, <1>4 DEF ListMore, TypeOK
  <2> QED
    BY <1>1, <1>3, <2>3, <2>4 DEF ClientTypes, TypeOK
<1>11. OnlyMoves(w)
  BY <1>1, <1>3 DEF OnlyMoves, ListMore, TypeOK
<1>12. CallFits(w)'
  BY <1>6, <1>7, <1>8, <1>9 DEF CallFits
<1> QED
  BY <1>2, <1>10, <1>11, <1>12, MoveFits

\* EnableAppForProject goes on with a usage it was given.
LEMMA AttachedStep ==
  ASSUME UsagesInv, Evolves, WitnessMoves, call' = call, NEW w \in Running, call[w].kind = "enable",
         NEW u \in Usages, FoundIs(usages', nextId', witness'[w], Project(w), u), Attached(w, u)
  PROVE  UsagesInv'
<1>1. u # None /\ u \in Usages \union {None}
  BY NilAssumption
<1>2. CASE u.enabled /\ Return(w, u)
  <2>1. AnswerIs(w, call[w].kind, shifted', witness'[w], Project(w), u)
    BY <1>1, <1>2 DEF AnswerIs, FoundIs, StateOf
  <2> QED
    BY <1>1, <1>2, <2>1, ReturnStep
<1>3. CASE ~u.enabled /\ Continue(w, "set", u)
  BY <1>3, ContinueStep
<1> QED
  BY <1>2, <1>3 DEF Attached

LEMMA ListLastStep ==
  ASSUME UsagesInv, NEW w \in Workers, ListLast(w)
  PROVE  UsagesInv'
<1> DEFINE u == FoundAfter(w)
<1>1. CallFits(w) /\ pc[w] \in Walking /\ w \in Running
  BY DEF UsagesInv, ListLast, Running, Walking, Ended
<1>2. /\ Evolves /\ WitnessMoves /\ call' = call
      /\ UNCHANGED <<usages, nextId, call, witness, shifted>>
  BY LookingOn DEF ListLast
<1>3. Len(Served(w)) # PageSize
  <2>1. Len(Served(w)) \in Nat /\ PageSize \in Nat
    BY ServedIs, PageAssumption DEF UsagesInv
  <2> QED
    BY <2>1 DEF ListLast
<1>4. /\ u # None =>
            u \in Usages /\ FoundIs(usages', nextId', witness'[w], Project(w), u)
      /\ w \notin shifted' /\ u = None => <<Project(w), "detached">> \in witness'[w]
  BY <1>1, <1>2, <1>3, FoundAfterFits
<1>5. \/ DecideEnable(w, u) \/ DecideDisable(w, u)
      \/ DecideDetach(w, u) \/ DecideRefetch(w, u)
  BY DEF ListLast
<1>6. pc[w] = "refetch" => call[w].kind = "enable"
  BY <1>1 DEF CallFits, PlaceFits
<1> HIDE DEF u
<1>7. u # None => u.enabled \in BOOLEAN /\ StateOf(u) = IF u.enabled THEN "enabled" ELSE "disabled"
  BY <1>4 DEF Usages, StateOf
<1>8. u \in Usages \union {None}
  BY <1>4
<1>9. CASE DecideEnable(w, u)
  <2>1. CASE u = None /\ Continue(w, "attach", None)
    BY <1>1, <1>2, <1>9, <2>1, ContinueStep DEF DecideEnable
  <2>2. CASE u # None /\ u.enabled /\ Return(w, u)
    BY <1>1, <1>2, <1>4, <1>9, <2>2, AttachedStep DEF DecideEnable, Attached
  <2>3. CASE u # None /\ ~u.enabled /\ Continue(w, "set", u)
    BY <1>1, <1>2, <1>4, <1>9, <2>3, AttachedStep DEF DecideEnable, Attached
  <2> QED
    BY <1>9, <2>1, <2>2, <2>3 DEF DecideEnable
<1>10. CASE DecideDisable(w, u)
  <2>1. call[w].kind = "disable"
    BY <1>10 DEF DecideDisable
  <2>2. CASE u = None /\ Return(w, None)
    <3>1. AnswerIs(w, call[w].kind, shifted', witness'[w], Project(w), None)
      BY <1>4, <2>1, <2>2 DEF AnswerIs
    <3> QED
      BY <1>1, <1>2, <2>2, <3>1, ReturnStep
  <2>3. CASE u # None /\ ~u.enabled /\ Return(w, u)
    <3>1. <<Project(w), "disabled">> \in witness'[w]
      BY <1>4, <1>7, <2>3 DEF FoundIs
    <3>2. AnswerIs(w, call[w].kind, shifted', witness'[w], Project(w), u)
      BY <2>1, <3>1 DEF AnswerIs
    <3> QED
      BY <1>1, <1>2, <1>8, <2>3, <3>2, ReturnStep
  <2>4. CASE u # None /\ u.enabled /\ Continue(w, "set", u)
    BY <1>1, <1>2, <1>4, <2>1, <2>4, ContinueStep
  <2> QED
    BY <1>10, <2>2, <2>3, <2>4 DEF DecideDisable
<1>11. CASE DecideDetach(w, u)
  <2>1. call[w].kind = "detach"
    BY <1>11 DEF DecideDetach
  <2>2. CASE u = None /\ Return(w, None)
    <3>1. AnswerIs(w, call[w].kind, shifted', witness'[w], Project(w), None)
      BY <1>4, <2>1, <2>2 DEF AnswerIs
    <3> QED
      BY <1>1, <1>2, <2>2, <3>1, ReturnStep
  <2>3. CASE u # None /\ Continue(w, "delete", u)
    BY <1>1, <1>2, <1>4, <2>1, <2>3, ContinueStep
  <2> QED
    BY <1>11, <2>2, <2>3 DEF DecideDetach
<1>12. CASE DecideRefetch(w, u)
  <2>1. call[w].kind = "enable"
    BY <1>6, <1>12 DEF DecideRefetch
  <2>2. CASE FailCall(w)
    BY <1>1, <1>2, <2>2, FailStep
  <2>3. CASE u # None /\ Attached(w, u)
    BY <1>1, <1>2, <1>4, <2>1, <2>3, AttachedStep
  <2> QED
    BY <1>12, <2>2, <2>3 DEF DecideRefetch
<1> QED
  BY <1>5, <1>9, <1>10, <1>11, <1>12

LEMMA AttachAppStep ==
  ASSUME UsagesInv, NEW w \in Workers, AttachApp(w)
  PROVE  UsagesInv'
<1>1. /\ w \in Running /\ call' = call /\ WitnessMoves /\ Evolves
      /\ \E j \in 1..Len(usages') : usages'[j].project = Project(w)
  BY RequestFacts
<1>2. call[w].kind = "enable"
  BY DEF UsagesInv, CallFits, PlaceFits, AttachApp
<1>3. Sees(w)
  BY <1>1, RunningSees
<1>4. CASE Attached(w, FirstOf(usages', Project(w)))
  <2>1. PICK j \in 1..Len(usages') : usages'[j].project = Project(w)
    BY <1>1
  <2>2. /\ usages' \in Seq(Usages) /\ OneUsageEach(usages')
        /\ DOMAIN usages' = 1..Len(usages') /\ usages'[j].id < nextId'
    BY <1>1, <2>1, LenProperties DEF Evolves, ListFits
  <2>3. FirstOf(usages', Project(w)) = usages'[j]
    BY <2>1, <2>2, FirstOfIs
  <2>4. FoundIs(usages', nextId', witness'[w], Project(w), usages'[j])
    BY <1>3, <2>1, <2>2, InListIsFound DEF Sees
  <2>5. usages'[j] \in Usages
    BY <2>2, UsageFields
  <2> QED
    BY <1>1, <1>2, <1>4, <2>3, <2>4, <2>5, AttachedStep
<1>5. CASE Continue(w, "refetch", None)
  BY <1>1, <1>2, <1>5, ContinueStep
<1>6. CASE FailCall(w)
  BY <1>1, <1>6, FailStep
<1> QED
  BY <1>4, <1>5, <1>6 DEF AttachApp

LEMMA SetEnabledStep ==
  ASSUME UsagesInv, NEW w \in Workers, SetEnabled(w)
  PROVE  UsagesInv'
<1>1. /\ w \in Running /\ call' = call /\ WitnessMoves /\ Evolves
      /\ WithId(usages, found[w].id) # {} =>
            State(usages', Project(w)) = IF Enabling(w) THEN "enabled" ELSE "disabled"
  BY RequestFacts
<1>2. /\ found[w] # None /\ found[w] \in Usages /\ found[w].project = Project(w)
      /\ call[w].kind # "detach"
  BY DEF UsagesInv, TypeOK, CallFits, PlaceFits, FoundFits, FoundIs, SetEnabled
<1>3. Sees(w) /\ Project(w) \in Projects
  BY <1>1, RunningSees, CallTypes
<1>4. ASSUME WithId(usages, found[w].id) # {},
             Return(w, [found[w] EXCEPT !.enabled = Enabling(w)])
      PROVE  UsagesInv'
  <2> DEFINE u == [found[w] EXCEPT !.enabled = Enabling(w)]
  <2>1. Enabling(w) \in BOOLEAN
    BY Zenon DEF Enabling
  <2>2. u \in Usages /\ u.project = Project(w) /\ u.enabled = Enabling(w)
    BY <1>2, <2>1 DEF Usages
  <2> HIDE DEF u
  <2>3. u # None /\ u \in Usages \union {None}
    BY <2>2, NilAssumption
  <2>4. <<Project(w), State(usages', Project(w))>> \in witness'[w]
    BY <1>3, HoldingIs DEF Sees
  <2>5. CASE call[w].kind = "enable"
    <3>1. Enabling(w)
      BY <2>5 DEF Enabling
    <3>2. AnswerIs(w, call[w].kind, shifted', witness'[w], Project(w), u)
      BY <1>1, <1>4, <2>2, <2>3, <2>4, <2>5, <3>1 DEF AnswerIs
    <3> QED
      BY <1>1, <1>4, <2>3, <3>2, ReturnStep DEF u
  <2>6. CASE call[w].kind # "enable"
    <3>1. ~Enabling(w)
      BY <2>6 DEF Enabling
    <3>2. <<Project(w), "disabled">> \in witness'[w]
      BY <1>1, <1>4, <2>4, <3>1
    <3>3. AnswerIs(w, call[w].kind, shifted', witness'[w], Project(w), u)
      BY <1>2, <2>6, <3>2 DEF AnswerIs
    <3> QED
      BY <1>1, <1>4, <2>3, <3>3, ReturnStep DEF u
  <2> QED
    BY <2>5, <2>6
<1>5. CASE FailCall(w)
  BY <1>1, <1>5, FailStep
<1> QED
  BY <1>4, <1>5 DEF SetEnabled

LEMMA DeleteUsageStep ==
  ASSUME UsagesInv, NEW w \in Workers, DeleteUsage(w)
  PROVE  UsagesInv'
<1>1. /\ w \in Running /\ call' = call /\ WitnessMoves /\ Evolves
      /\ WithId(usages, found[w].id) # {} => State(usages', Project(w)) = "detached"
  BY RequestFacts
<1>2. /\ FoundIs(usages, nextId, witness[w], Project(w), found[w])
      /\ call[w].kind = "detach"
  BY DEF UsagesInv, CallFits, PlaceFits, FoundFits, DeleteUsage
<1>3. Sees(w) /\ Project(w) \in Projects
  BY <1>1, RunningSees, CallTypes
\* 404: the usage that was there is gone, its project was detached.
<1>4. <<Project(w), "detached">> \in witness'[w]
  BY <1>1, <1>2, <1>3, HoldingIs DEF FoundIs, Sees
<1>5. AnswerIs(w, call[w].kind, shifted', witness'[w], Project(w), None)
  BY <1>2, <1>4 DEF AnswerIs
<1>6. CASE Return(w, None)
  BY <1>1, <1>5, <1>6, ReturnStep
<1>7. CASE FailCall(w)
  BY <1>1, <1>7, FailStep
<1> QED
  BY <1>6, <1>7 DEF DeleteUsage

LEMMA UsagesStep ==
  ASSUME UsagesInv, [Next]_vars
  PROVE  UsagesInv'
<1>1. ASSUME NEW w \in Workers, RequestFails(w)
      PROVE  UsagesInv'
  BY <1>1, LookingOn, FailStep DEF RequestFails
<1>2. CASE UNCHANGED vars
  BY <1>2 DEF vars, UsagesInv, TypeOK, ListFits, CallFits, FoundFits, WalkFits, PlaceFits,
              ResultsFit, Running, Project
<1>3. ASSUME NEW w \in Workers, Step(w)
      PROVE  UsagesInv'
  BY <1>1, <1>3, BeginStep, ListMoreStep, ListLastStep, AttachAppStep, SetEnabledStep,
     DeleteUsageStep DEF Step
<1> QED
  BY <1>2, <1>3 DEF Next

LEMMA UsagesInvariance == Spec => []UsagesInv
<1>1. Init => UsagesInv
  BY InitFits
<1>2. UsagesInv /\ [Next]_vars => UsagesInv'
  BY UsagesStep
<1> QED
  BY <1>1, <1>2, PTL DEF Spec

(***************************************************************************)
(* The theorems.                                                           *)
(***************************************************************************)
\* Every variable of the app calls keeps its type: no page walk goes beyond
\* the list, no usage is created under an ID that was used, and whatever the
\* requests bring, a call's state is one of the code's.
THEOREM UsagesTypeCorrect == Spec => []TypeOK
<1>1. UsagesInv => TypeOK
  BY DEF UsagesInv
<1> QED
  BY <1>1, UsagesInvariance, PTL

\* What an app call answers was true at some moment of the call, for any
\* number of workers, calls and usages and any page size: an enable always,
\* a disable and a detach unless a deletion made the walk lose its place
\* (apps.go: EnableAppForProject, DisableAppForProject, DetachAppFromProject,
\* EnableAppForAllProjects).
THEOREM AnswersAlwaysTrue == Spec => []AnswersAreTrue
<1>1. UsagesInv => AnswersAreTrue
  <2> SUFFICES ASSUME UsagesInv, NEW w \in Workers
               PROVE  EnableIsTrue(w) /\ (w \notin shifted => WasDisabled(w) /\ WasDetached(w))
    BY DEF AnswersAreTrue
  <2>1. CallFits(w) /\ DOMAIN results[w] = 1..Len(results[w])
    BY LenProperties DEF UsagesInv, TypeOK
  <2>2. \A i \in 1..Len(results[w]) :
           AnswerIs(w, call[w].kind, shifted, witness[w], call[w].projects[i], results[w][i])
    BY <2>1 DEF CallFits, ResultsFit
  <2>3. EnableIsTrue(w)
    BY <2>1, <2>2 DEF EnableIsTrue, AnswerIs
  <2>4. ASSUME pc[w] = "ok"
        PROVE  1 \in 1..Len(results[w])
    BY <2>1, <2>4, CallTypes DEF CallFits, PlaceFits
  <2>5. ASSUME w \notin shifted
        PROVE  WasDisabled(w) /\ WasDetached(w)
    BY <2>2, <2>4, <2>5 DEF WasDisabled, WasDetached, Succeeded, AnswerIs
  <2> QED
    BY <2>3, <2>5
<1> QED
  BY <1>1, UsagesInvariance, PTL

\* No attach, update or delete changes the state of a project its call was
\* not asked about: a usage ID read some requests earlier never names
\* another project's usage (apps.go: SetAppUsageEnabled, DeleteAppUsage).
THEOREM OthersAlwaysUntouched == Spec => OthersUntouched
<1>1. UsagesInv /\ [Next]_vars =>
         [\A w \in Workers : AttachApp(w) \/ SetEnabled(w) \/ DeleteUsage(w) =>
             \A p \in Projects \ {Project(w)} : State(usages', p) = State(usages, p)]_vars
  BY RequestFacts DEF OnlyTouches
<1> QED
  BY <1>1, UsagesInvariance, PTL DEF Spec, OthersUntouched

\* How far a call has got never goes back, and its work is seen by itself.
StepIs(w) ==
    /\ call' = call
    /\ pc'[w] # "idle"
    /\ \A v \in Workers \ {w} : pc'[v] = pc[v]
    /\ Len(results[w]) <= Len(results'[w])
    /\ witness'[w] \subseteq witness[w] \union Holding(usages')
    /\ usages' = usages \/ (w \in Running /\ OnlyTouches(Project(w)))

LEMMA GoingOnIs ==
  ASSUME TypeOK, NEW w \in Workers,
         \/ \E u \in Usages \union {None} : Return(w, u)
         \/ \E to \in {"attach", "refetch", "set", "delete"} : \E u : Continue(w, to, u)
         \/ FailCall(w)
  PROVE  /\ pc'[w] # "idle"
         /\ \A v \in Workers \ {w} : pc'[v] = pc[v]
         /\ Len(results[w]) <= Len(results'[w])
<1>1. results[w] \in Seq(Usages \union {None}) /\ Len(results[w]) \in Nat
  BY LenProperties DEF TypeOK
<1>2. CASE \E u \in Usages \union {None} : Return(w, u)
  <2>1. PICK u \in Usages \union {None} : Return(w, u)
    BY <1>2
  <2>2. results'[w] = Append(results[w], u)
    BY <2>1 DEF Return, TypeOK
  <2>3. Len(results'[w]) = Len(results[w]) + 1
    BY <1>1, <2>2, AppendProperties
  <2> QED
    BY <1>1, <2>1, <2>3 DEF Return, TypeOK
<1>3. CASE \E to \in {"attach", "refetch", "set", "delete"} : \E u : Continue(w, to, u)
  BY <1>1, <1>3 DEF Continue, TypeOK
<1>4. CASE FailCall(w)
  BY <1>1, <1>4 DEF FailCall, TypeOK
<1> QED
  BY <1>2, <1>3, <1>4

LEMMA StepFacts ==
  ASSUME UsagesInv, NEW w \in Workers, Step(w)
  PROVE  StepIs(w)
<1>1. TypeOK /\ found[w] \in Usages \union {None} /\ Len(results[w]) \in Nat
  BY CallTypes DEF UsagesInv, TypeOK
<1>2. CASE Begin(w)
  BY <1>1, <1>2 DEF Begin, TypeOK, StepIs
<1>3. CASE ListMore(w)
  BY <1>1, <1>3 DEF ListMore, StepIs, Walking
<1>4. CASE ListLast(w)
  <2>1. w \in Running
    BY <1>4 DEF ListLast, Running, Walking, Ended
  <2>2. FoundAfter(w) \in Usages \union {None}
    BY <2>1, FoundAfterFits
  <2>3. \/ \E u \in Usages \union {None} : Return(w, u)
        \/ \E to \in {"attach", "refetch", "set", "delete"} : \E u : Continue(w, to, u)
        \/ FailCall(w)
    BY <1>4, <2>2 DEF ListLast, DecideEnable, DecideDisable, DecideDetach, DecideRefetch, Attached
  <2> QED
    BY <1>1, <1>4, <2>3, GoingOnIs DEF ListLast, StepIs
<1>5. CASE RequestFails(w)
  BY <1>1, <1>5, GoingOnIs DEF RequestFails, StepIs
<1>6. CASE AttachApp(w) \/ SetEnabled(w) \/ DeleteUsage(w)
  <2>1. w \in Running /\ OnlyTouches(Project(w)) /\ call' = call /\ Evolves
    BY <1>6, RequestFacts
  <2>2. witness'[w] \subseteq witness[w] \union Holding(usages')
    BY <1>6 DEF AttachApp, SetEnabled, DeleteUsage, Witness, Witnessed
  <2>3. FirstOf(usages', Project(w)) \in Usages \union {None}
    <3>1. usages' \in Seq(Usages) /\ OneUsageEach(usages')
      BY <2>1 DEF Evolves, ListFits
    <3> QED
      BY <3>1, FirstOfCases, UsageFields
  <2>4. [found[w] EXCEPT !.enabled = Enabling(w)] \in Usages \/ ~SetEnabled(w)
    <3>1. Enabling(w) \in BOOLEAN
      BY Zenon DEF Enabling
    <3>2. SetEnabled(w) => found[w] \in Usages
      BY <1>1 DEF SetEnabled, UsagesInv, CallFits, PlaceFits
    <3> QED
      BY <3>1, <3>2 DEF Usages
  <2>5. \/ \E u \in Usages \union {None} : Return(w, u)
        \/ \E to \in {"attach", "refetch", "set", "delete"} : \E u : Continue(w, to, u)
        \/ FailCall(w)
    BY <1>6, <2>3, <2>4 DEF AttachApp, SetEnabled, DeleteUsage, Attached
  <2> QED
    BY <1>1, <2>1, <2>2, <2>5, GoingOnIs DEF StepIs
<1> QED
  BY <1>2, <1>3, <1>4, <1>5, <1>6 DEF Step

\* EnableAppForAllProjects reports every project it enabled but the one it
\* failed at: with nobody else at work, a project it has not reached is
\* still detached, disabled or enabled as it was when the call began (apps.go).
THEOREM AtMostOneAlwaysUnreported == Spec => []AtMostOneUnreported
<1>1. Init => AtMostOneUnreported
  BY DEF Init, AtMostOneUnreported
<1>2. UsagesInv /\ AtMostOneUnreported /\ [Next]_vars => AtMostOneUnreported'
  <2> SUFFICES ASSUME UsagesInv, AtMostOneUnreported, [Next]_vars
               PROVE  AtMostOneUnreported'
    OBVIOUS
  <2>1. CASE UNCHANGED vars
    BY <2>1 DEF vars, AtMostOneUnreported, Reached
  <2>2. ASSUME NEW v \in Workers, Step(v)
        PROVE  AtMostOneUnreported'
    <3>1. StepIs(v)
      BY <2>2, StepFacts
    <3> SUFFICES ASSUME NEW w \in Workers, call'[w].kind = "enable",
                        \A x \in Workers \ {w} : pc'[x] = "idle",
                        NEW p \in Projects, p \notin Reached(w)',
                        NEW state \in {"enabled", "disabled", "detached"},
                        <<p, state>> \in witness'[w]
                 PROVE  State(usages', p) = state
      BY DEF AtMostOneUnreported
    <3>2. v = w
      BY <3>1 DEF StepIs
    <3>3. \A x \in Workers \ {w} : pc[x] = "idle"
      BY <3>1, <3>2 DEF StepIs
    <3>4. call' = call /\ call[w].kind = "enable"
      BY <3>1 DEF StepIs
    <3>5. /\ call[w].projects \in Seq(Projects) /\ Len(results[w]) \in Nat
          /\ DOMAIN call[w].projects = 1..Len(call[w].projects)
      BY CallTypes, LenProperties
    <3>6. Len(results'[w]) \in Nat /\ Len(results[w]) <= Len(results'[w])
      <4>1. UsagesInv'
        BY UsagesStep
      <4>2. results'[w] \in Seq(Usages \union {None})
        BY <4>1 DEF UsagesInv, TypeOK
      <4> QED
        BY <3>1, <3>2, <4>2, LenProperties DEF StepIs
    <3>7. p \notin Reached(w)
      BY <3>4, <3>5, <3>6 DEF Reached
    <3>8. State(usages', p) = State(usages, p)
      <4>1. CASE usages' = usages
        BY <4>1
      <4>2. CASE w \in Running /\ OnlyTouches(Project(w))
        <5>1. Len(results[w]) < Len(call[w].projects)
          BY <4>2 DEF UsagesInv, CallFits, PlaceFits
        <5>2. Len(results[w]) + 1 \in DOMAIN call[w].projects
          BY <3>5, <5>1, LenProperties
        <5>3. Project(w) \in Reached(w)
          BY <3>5, <5>2 DEF Reached, Project
        <5> QED
          BY <3>7, <4>2, <5>3 DEF OnlyTouches
      <4> QED
        BY <3>1, <3>2, <4>1, <4>2 DEF StepIs
    <3>9. CASE <<p, state>> \in witness[w]
      BY <3>3, <3>4, <3>7, <3>8, <3>9 DEF AtMostOneUnreported
    <3>10. CASE <<p, state>> \in Holding(usages')
      BY <3>10 DEF Holding
    <3> QED
      BY <3>1, <3>2, <3>9, <3>10 DEF StepIs
  <2> QED
    BY <2>1, <2>2 DEF Next
<1> QED
  BY <1>1, <1>2, UsagesInvariance, PTL DEF Spec
=============================================================================
