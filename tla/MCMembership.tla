---------------------------- MODULE MCMembership ----------------------------
(***************************************************************************)
(* Instances of Membership for TLC: which endpoints a server has.          *)
(***************************************************************************)
EXTENDS Membership, TLC

CONSTANTS w1, w2

\* Nothing tells one worker from another.
Interchangeable == Permutations({w1, w2})

\* Servers with one endpoint of each chain, or none to add with, or none to
\* remove with.
SomeServers ==
    {{a, r, d} : a \in Variants("add"), r \in Variants("remove"), d \in Variants("delete")}
    \union {{r, d} : r \in Variants("remove"), d \in Variants("delete")}
    \union {{a, d} : a \in Variants("add"), d \in Variants("delete")}
=============================================================================
