---------------------------- MODULE MCAsyncDelete ----------------------------
(***************************************************************************)
(* Instances of AsyncDelete for TLC: who deletes what.                     *)
(***************************************************************************)
EXTENDS AsyncDelete, TLC

CONSTANTS c1, c2

\* A controller that removes a value and its bundle, beside another: two
\* deletes of the same thing, or a value's and its bundle's.
Pairs ==
    {c1 :> "value" @@ c2 :> "bundle"} \union
    {c1 :> o @@ c2 :> o : o \in Ops}
=============================================================================
