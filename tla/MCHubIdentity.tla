---------------------------- MODULE MCHubIdentity ----------------------------
(***************************************************************************)
(* Instances of HubIdentity for TLC: a user, or one or two groups, and     *)
(* another that may come; two modules that use the same identifiers.       *)
(***************************************************************************)
EXTENDS HubIdentity, TLC

CONSTANTS w1, w2, h1, h2, mA, mB, x, y

Interchangeable == Permutations(Workers)

Of(id, h, module, ident) ==
    [id |-> id, owner |-> h, module |-> module, ident |-> ident, label |-> Blank]

\* A user who is x at one module.
OneUser ==
    [side |-> "user", listing |-> <<h1>>,
     imported |-> [h \in Holders |-> None],
     identities |-> {Of(1, h1, mA, x)},
     made |-> <<h1>>]

\* A group imported from a module; another one may be created.
OneGroup ==
    [side |-> "group", listing |-> <<h1>>,
     imported |-> [h \in Holders |-> IF h = h1 THEN mA ELSE None],
     identities |-> {Of(0, h1, mA, None)},
     made |-> <<>>]

\* A group without a tag, and one that is tagged.
TwoGroups ==
    [side |-> "group", listing |-> <<h1, h2>>,
     imported |-> [h \in Holders |-> None],
     identities |-> {Of(0, h1, None, None), Of(0, h2, mB, y)},
     made |-> <<>>]

Situations == {OneUser, OneGroup, TwoGroups}
=============================================================================
