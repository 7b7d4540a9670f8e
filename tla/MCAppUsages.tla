---------------------------- MODULE MCAppUsages ----------------------------
(***************************************************************************)
(* Instances of AppUsages for TLC: two workers, three projects.            *)
(***************************************************************************)
EXTENDS AppUsages, TLC

CONSTANTS w1, w2, p1, p2, p3

On(kind, ps) == [kind |-> kind, projects |-> ps]

Usage(i, p, on) == [id |-> i, project |-> p, enabled |-> on]

Pair(a, b) == w1 :> a @@ w2 :> b

\* One worker works on p1, the other does anything on p1 or p2, or
\* EnableAppForAllProjects runs beside it.
Colliding ==
    {Pair(On(k, <<p1>>), On(l, <<p>>)) : k, l \in Kinds, p \in {p1, p2}} \union
    {Pair(On("enable", <<p1, p2, p3>>), On(l, <<p>>)) : l \in Kinds, p \in {p1, p2}}

Detaching == {Pair(On("detach", <<p1>>), On("detach", <<p2>>))}

\* Lists that hold p1 and p2 in either order, one of them, or none.
SomeUsages ==
    {<<>>} \union
    {<<Usage(1, p, on)>> : p \in {p1, p2}, on \in BOOLEAN} \union
    {<<Usage(1, p1, on1), Usage(2, p2, on2)>> : on1, on2 \in BOOLEAN} \union
    {<<Usage(1, p2, on1), Usage(2, p1, on2)>> : on1, on2 \in BOOLEAN}
=============================================================================
