---------------------------- MODULE MembershipProofs ----------------------------
(***************************************************************************)
(* Theorems about the endpoint chains, for any number of workers and any   *)
(* servers.                                                                *)
(***************************************************************************)
EXTENDS Membership, TLAPS

(***************************************************************************)
(* The inductive invariant, worker by worker.  A worker on its way has     *)
(* seen what holds now, and wherever it went on from an endpoint that the  *)
(* server does have, there was nothing to act on at that moment.           *)
(***************************************************************************)
\* What it takes for an endpoint that is there to answer 404.
SawNothing(w) ==
    IF call[w] = "remove" THEN "stranger" \in witness[w] ELSE "nogroup" \in witness[w]

OnItsWay(w) ==
    /\ pc[w] = "idle" => at[w] = 1
    /\ pc[w] = "try" =>
          /\ call[w] \in Kinds
          /\ Holding(member, hub) \subseteq witness[w]
          /\ \A i \in 1..(at[w] - 1) : Chain(call[w])[i] \in endpoints => SawNothing(w)

Answered(w) ==
    /\ Succeeded(w, "add") => "member" \in witness[w]
    /\ Succeeded(w, "remove") =>
          "stranger" \in witness[w] \/ Variants("remove") \intersect endpoints = {}
    /\ pc[w] = "exhausted" =>
          "nogroup" \in witness[w] \/ Variants(call[w]) \intersect endpoints = {}

MembershipInv == TypeOK /\ \A w \in Workers : OnItsWay(w) /\ Answered(w)

\* Every chain has an attempt to begin with.
LEMMA ChainFacts ==
  ASSUME NEW kind \in Kinds
  PROVE  Len(Chain(kind)) \in Nat \ {0} /\ DOMAIN Chain(kind) = 1..Len(Chain(kind))
<1>1. CASE kind = "add"
  <2>1. Chain(kind) = AddChain
    BY <1>1 DEF Chain
  <2>2. Len(AddChain) = 17 /\ DOMAIN AddChain = 1..17
    BY DEF AddChain
  <2> QED
    BY <2>1, <2>2
<1>2. CASE kind = "remove"
  <2>1. Chain(kind) = RemoveChain
    BY <1>2 DEF Chain
  <2>2. Len(RemoveChain) = 5 /\ DOMAIN RemoveChain = 1..5
    BY DEF RemoveChain
  <2> QED
    BY <2>1, <2>2
<1>3. CASE kind = "delete"
  <2>1. Chain(kind) = DeleteGroupChain
    BY <1>3 DEF Chain
  <2>2. Len(DeleteGroupChain) = 3 /\ DOMAIN DeleteGroupChain = 1..3
    BY DEF DeleteGroupChain
  <2> QED
    BY <2>1, <2>2
<1> QED
  BY <1>1, <1>2, <1>3 DEF Kinds

\* Once every attempt was skipped, the server has no variant or had nothing.
LEMMA AllSkipped ==
  ASSUME NEW w \in Workers, call[w] \in Kinds,
         \A i \in 1..Len(Chain(call[w])) : Chain(call[w])[i] \in endpoints => SawNothing(w)
  PROVE  SawNothing(w) \/ Variants(call[w]) \intersect endpoints = {}
<1>1. DOMAIN Chain(call[w]) = 1..Len(Chain(call[w]))
  BY ChainFacts
<1> QED
  BY <1>1 DEF Variants

\* A step of another worker leaves what a worker knows as it was, or adds to it.
LEMMA OthersKeepKnowing ==
  ASSUME NEW v \in Workers, OnItsWay(v), Answered(v),
         pc'[v] = pc[v], call'[v] = call[v], at'[v] = at[v], endpoints' = endpoints,
         witness[v] \subseteq witness'[v],
         pc[v] = "try" => Holding(member', hub') \subseteq witness'[v]
  PROVE  OnItsWay(v)' /\ Answered(v)'
<1>1. SawNothing(v) => SawNothing(v)'
  BY DEF SawNothing
<1>2. OnItsWay(v)'
  BY <1>1 DEF OnItsWay, Holding
<1>3. Answered(v)'
  BY DEF Answered, Succeeded
<1> QED
  BY <1>2, <1>3

LEMMA MembershipInitially ==
  ASSUME Init
  PROVE  MembershipInv
<1>1. /\ endpoints \subseteq Endpoints /\ member \in BOOLEAN /\ hub = TRUE /\ row = TRUE
      /\ call = [w \in Workers |-> "none"] /\ at = [w \in Workers |-> 1]
      /\ pc = [w \in Workers |-> "idle"] /\ witness = [w \in Workers |-> {}]
  BY ServersAssumption DEF Init
<1>2. TypeOK
  BY <1>1 DEF TypeOK
<1>3. \A w \in Workers : pc[w] = "idle" /\ at[w] = 1
  BY <1>1
<1> QED
  BY <1>2, <1>3 DEF MembershipInv, OnItsWay, Answered, Succeeded

(***************************************************************************)
(* The actions.                                                            *)
(***************************************************************************)
LEMMA BeginKeepsInv ==
  ASSUME MembershipInv, NEW w \in Workers, Begin(w)
  PROVE  MembershipInv'
<1>1. PICK kind \in Calls : call' = [call EXCEPT ![w] = kind]
  BY DEF Begin
<1>2. kind \in Kinds /\ kind # "none"
  BY CallsAssumption DEF Kinds
<1>3. /\ pc[w] = "idle" /\ pc' = [pc EXCEPT ![w] = "try"]
      /\ witness' = [witness EXCEPT ![w] = Holding(member, hub)]
      /\ UNCHANGED <<endpoints, member, hub, row, at>>
  BY DEF Begin
<1>4. TypeOK /\ \A v \in Workers : OnItsWay(v) /\ Answered(v)
  BY DEF MembershipInv
<1>5. at[w] = 1
  BY <1>3, <1>4 DEF OnItsWay
<1>6. \A v \in Workers :
         v # w => call'[v] = call[v] /\ pc'[v] = pc[v] /\ witness'[v] = witness[v]
  BY <1>1, <1>3, <1>4 DEF TypeOK
<1>7. call'[w] = kind /\ pc'[w] = "try" /\ witness'[w] = Holding(member, hub) /\ at'[w] = 1
  BY <1>1, <1>3, <1>4, <1>5 DEF TypeOK
<1>8. TypeOK'
  <2>1. \A v \in Workers : call'[v] # "none" => at'[v] <= Len(Chain(call'[v]))
    <3> TAKE v \in Workers
    <3>1. CASE v = w
      <4>1. Len(Chain(kind)) \in Nat \ {0}
        BY <1>2, ChainFacts
      <4> QED
        BY <1>7, <3>1, <4>1
    <3>2. CASE v # w
      BY <1>3, <1>4, <1>6, <3>2 DEF TypeOK
    <3> QED
      BY <3>1, <3>2
  <2>2. witness' \in [Workers -> SUBSET {"member", "stranger", "group", "nogroup"}]
    <3>1. Holding(member, hub) \subseteq {"member", "stranger", "group", "nogroup"}
      BY DEF Holding
    <3> QED
      BY <1>3, <1>4, <3>1 DEF TypeOK
  <2>3. call' \in [Workers -> Kinds \union {"none"}]
    BY <1>1, <1>2, <1>4 DEF TypeOK
  <2>4. pc' \in [Workers -> {"idle", "try", "nil", "error", "exhausted"}]
    BY <1>3, <1>4 DEF TypeOK
  <2> QED
    BY <1>3, <1>4, <2>1, <2>2, <2>3, <2>4 DEF TypeOK
<1>9. ASSUME NEW v \in Workers
      PROVE  OnItsWay(v)' /\ Answered(v)'
  <2>1. CASE v # w
    <3>1. pc[v] = "try" => Holding(member', hub') \subseteq witness'[v]
      BY <1>3, <1>4, <1>6, <2>1 DEF OnItsWay
    <3> QED
      BY <1>3, <1>4, <1>6, <2>1, <3>1, OthersKeepKnowing
  <2>2. CASE v = w
    <3>1. OnItsWay(w)'
      BY <1>2, <1>3, <1>7 DEF OnItsWay
    <3>2. Answered(w)'
      BY <1>7 DEF Answered, Succeeded
    <3> QED
      BY <2>2, <3>1, <3>2
  <2> QED
    BY <2>1, <2>2
<1> QED
  BY <1>8, <1>9 DEF MembershipInv

LEMMA SkipsKeepsInv ==
  ASSUME MembershipInv, NEW w \in Workers, Skips(w)
  PROVE  MembershipInv'
<1>1. /\ pc[w] = "try" /\ (Has(w) => Nothing(w))
      /\ UNCHANGED <<endpoints, member, hub, row, call, witness>>
  BY DEF Skips, Trying
<1>2. TypeOK /\ \A v \in Workers : OnItsWay(v) /\ Answered(v)
  BY DEF MembershipInv
<1>3. /\ call[w] \in Kinds /\ call[w] # "none" /\ Holding(member, hub) \subseteq witness[w]
      /\ \A i \in 1..(at[w] - 1) : Chain(call[w])[i] \in endpoints => SawNothing(w)
  BY <1>1, <1>2 DEF OnItsWay, Kinds
<1>4. at[w] \in Nat \ {0} /\ at[w] <= Len(Chain(call[w])) /\ Len(Chain(call[w])) \in Nat \ {0}
  BY <1>2, <1>3, ChainFacts DEF TypeOK
<1>5. Chain(call[w])[at[w]] \in endpoints => SawNothing(w)
  <2>1. Nothing(w) => SawNothing(w)
    BY <1>2, <1>3 DEF Nothing, SawNothing, Holding, TypeOK, Kinds
  <2> QED
    BY <1>1, <2>1 DEF Has, Attempt
<1>6. \A i \in 1..at[w] : Chain(call[w])[i] \in endpoints => SawNothing(w)
  <2> TAKE i \in 1..at[w]
  <2>1. i \in 1..(at[w] - 1) \/ i = at[w]
    BY <1>4
  <2> QED
    BY <1>3, <1>5, <2>1
<1>7. CASE at[w] < Len(Chain(call[w]))
  <2>1. at' = [at EXCEPT ![w] = @ + 1] /\ pc' = pc
    BY <1>7 DEF Skips
  <2>2. \A v \in Workers : at'[v] = IF v = w THEN at[w] + 1 ELSE at[v]
    BY <1>2, <2>1 DEF TypeOK
  <2>3. TypeOK'
    <3>1. at' \in [Workers -> Nat \ {0}]
      BY <1>2, <1>4, <2>1 DEF TypeOK
    <3>2. \A v \in Workers : call'[v] # "none" => at'[v] <= Len(Chain(call'[v]))
      BY <1>1, <1>2, <1>4, <1>7, <2>2 DEF TypeOK
    <3> QED
      BY <1>1, <1>2, <2>1, <3>1, <3>2 DEF TypeOK
  <2>4. ASSUME NEW v \in Workers
        PROVE  OnItsWay(v)' /\ Answered(v)'
    <3>1. CASE v # w
      BY <1>1, <1>2, <2>1, <2>2, <3>1, OthersKeepKnowing DEF OnItsWay
    <3>2. CASE v = w
      <4>1. at'[w] - 1 = at[w] /\ pc'[w] = "try"
        BY <1>1, <1>4, <2>1, <2>2
      <4>2. SawNothing(w)' <=> SawNothing(w)
        BY <1>1 DEF SawNothing
      <4>3. OnItsWay(w)'
        BY <1>1, <1>3, <1>6, <4>1, <4>2 DEF OnItsWay
      <4>4. Answered(w)'
        BY <4>1 DEF Answered, Succeeded
      <4> QED
        BY <3>2, <4>3, <4>4
    <3> QED
      BY <3>1, <3>2
  <2> QED
    BY <2>3, <2>4 DEF MembershipInv
<1>8. CASE ~(at[w] < Len(Chain(call[w])))
  <2> DEFINE next == IF call[w] = "remove" THEN "nil" ELSE "exhausted"
  <2>1. pc' = [pc EXCEPT ![w] = next] /\ at' = at
    BY <1>8 DEF Skips
  <2>2. \A v \in Workers : pc'[v] = IF v = w THEN next ELSE pc[v]
    BY <1>2, <2>1 DEF TypeOK
  <2>3. TypeOK'
    BY <1>1, <1>2, <2>1 DEF TypeOK
  <2>4. SawNothing(w) \/ Variants(call[w]) \intersect endpoints = {}
    <3>1. at[w] = Len(Chain(call[w]))
      BY <1>4, <1>8
    <3> QED
      BY <1>3, <1>6, <3>1, AllSkipped
  <2>5. ASSUME NEW v \in Workers
        PROVE  OnItsWay(v)' /\ Answered(v)'
    <3>1. CASE v # w
      BY <1>1, <1>2, <2>1, <2>2, <3>1, OthersKeepKnowing DEF OnItsWay
    <3>2. CASE v = w
      <4>1. pc'[w] = next /\ next \in {"nil", "exhausted"}
        BY <2>2
      <4>2. OnItsWay(w)'
        BY <4>1 DEF OnItsWay
      <4>3. Answered(w)'
        BY <1>1, <2>4, <4>1 DEF Answered, Succeeded, SawNothing
      <4> QED
        BY <3>2, <4>2, <4>3
    <3> QED
      BY <3>1, <3>2
  <2> QED
    BY <2>3, <2>5 DEF MembershipInv
<1> QED
  BY <1>7, <1>8

\* An attempt that ends the call, with or without its effect.
LEMMA EndKeepsInv ==
  ASSUME MembershipInv, NEW w \in Workers, pc[w] = "try", NEW end \in {"nil", "error"},
         pc' = [pc EXCEPT ![w] = end], Observe, UNCHANGED <<endpoints, call, at>>,
         UNCHANGED <<member, hub, row>> \/ (Effect(w) /\ (call[w] = "add" => hub)),
         end = "nil" => Effect(w)
  PROVE  MembershipInv'
<1>1. TypeOK /\ \A v \in Workers : OnItsWay(v) /\ Answered(v)
  BY DEF MembershipInv
<1>2. \A v \in Workers :
         /\ pc'[v] = IF v = w THEN end ELSE pc[v]
         /\ witness'[v] = IF pc[v] = "try" THEN witness[v] \union Holding(member', hub') ELSE witness[v]
  BY <1>1 DEF TypeOK, Observe
<1>3. member' \in BOOLEAN /\ hub' \in BOOLEAN /\ row' \in BOOLEAN /\ (member' => hub')
  <2>1. CASE UNCHANGED <<member, hub, row>>
    BY <1>1, <2>1 DEF TypeOK
  <2>2. CASE Effect(w) /\ (call[w] = "add" => hub)
    BY <1>1, <2>2 DEF TypeOK, Effect
  <2> QED
    BY <2>1, <2>2
<1>4. TypeOK'
  <2>1. Holding(member', hub') \subseteq {"member", "stranger", "group", "nogroup"}
    BY DEF Holding
  <2>2. witness' \in [Workers -> SUBSET {"member", "stranger", "group", "nogroup"}]
    BY <1>1, <2>1 DEF Observe, TypeOK
  <2>3. pc' \in [Workers -> {"idle", "try", "nil", "error", "exhausted"}]
    BY <1>1 DEF TypeOK
  <2> QED
    BY <1>1, <1>3, <2>2, <2>3 DEF TypeOK
<1>5. ASSUME NEW v \in Workers
      PROVE  OnItsWay(v)' /\ Answered(v)'
  <2>1. CASE v # w
    BY <1>1, <1>2, <2>1, OthersKeepKnowing
  <2>2. CASE v = w
    <3>1. pc'[w] = end /\ Holding(member', hub') \subseteq witness'[w]
      BY <1>2
    <3>2. end = "nil" /\ call[w] = "add" => "member" \in witness'[w]
      BY <3>1 DEF Effect, Holding
    <3>3. end = "nil" /\ call[w] = "remove" => "stranger" \in witness'[w]
      BY <3>1 DEF Effect, Holding
    <3>4. OnItsWay(w)'
      BY <3>1 DEF OnItsWay
    <3>5. Answered(w)'
      BY <3>1, <3>2, <3>3 DEF Answered, Succeeded
    <3> QED
      BY <2>2, <3>4, <3>5
  <2> QED
    BY <2>1, <2>2
<1> QED
  BY <1>4, <1>5 DEF MembershipInv

LEMMA MembershipStep ==
  ASSUME MembershipInv, [Next]_vars
  PROVE  MembershipInv'
<1>1. ASSUME NEW w \in Workers, Step(w)
      PROVE  MembershipInv'
  <2>1. CASE Begin(w)
    BY <2>1, BeginKeepsInv
  <2>2. CASE Skips(w)
    BY <2>2, SkipsKeepsInv
  <2>3. CASE Succeeds(w)
    <3>1. call[w] = "add" => hub
      BY <2>3 DEF Succeeds, Nothing
    <3> QED
      BY <2>3, <3>1, EndKeepsInv DEF Succeeds, Trying
  <2>4. CASE Fails(w)
    <3>1. UNCHANGED <<member, hub, row>> \/ (Effect(w) /\ (call[w] = "add" => hub))
      BY <2>4 DEF Fails, Nothing
    <3> QED
      BY <2>4, <3>1, EndKeepsInv DEF Fails, Trying
  <2> QED
    BY <1>1, <2>1, <2>2, <2>3, <2>4 DEF Step
<1>2. CASE UNCHANGED vars
  BY <1>2 DEF vars, MembershipInv, TypeOK, OnItsWay, Answered, Succeeded, SawNothing
<1> QED
  BY <1>1, <1>2 DEF Next

(***************************************************************************)
(* The theorems.                                                           *)
(***************************************************************************)
LEMMA MembershipAlways == Spec => []MembershipInv
  BY MembershipInitially, MembershipStep, PTL DEF Spec

\* The calls stay within their chains and in their types.
THEOREM MembershipTypeCorrect == Spec => []TypeOK
<1>1. MembershipInv => TypeOK
  BY DEF MembershipInv
<1> QED
  BY <1>1, MembershipAlways, PTL

\* AddUserToGroup returns nil only if the user was a member during the call,
\* whatever endpoints the server has and whoever else acts on the group.
THEOREM AddAlwaysTrue == Spec => []AddIsTrue
<1>1. MembershipInv => AddIsTrue
  BY DEF MembershipInv, Answered, AddIsTrue
<1> QED
  BY <1>1, MembershipAlways, PTL

\* RemoveUserFromGroup returns nil only if the user was no member at some
\* moment of the call, at a server that has one of its endpoints.
THEOREM RemoveAlwaysTrue == Spec => []RemoveIsTrue
<1>1. MembershipInv => RemoveIsTrue
  BY DEF MembershipInv, Answered, RemoveIsTrue
<1> QED
  BY <1>1, MembershipAlways, PTL

\* A chain that ends without an answer has tried every endpoint the server has,
\* and found the group gone at one of them.
THEOREM ChainAlwaysReachesServer == Spec => []ChainReachesServer
<1>1. MembershipInv => ChainReachesServer
  BY DEF MembershipInv, Answered, ChainReachesServer
<1> QED
  BY <1>1, MembershipAlways, PTL
=============================================================================
