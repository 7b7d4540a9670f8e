----------------------------- MODULE MCListWalk -----------------------------
(***************************************************************************)
(* Instances of ListWalk for TLC.  Entities are numbers, and a collection  *)
(* starts as <<1, ..., n>>: only whether two entities are equal matters.   *)
(***************************************************************************)
EXTENDS ListWalk

CONSTANTS MaxItems, MinInitial, MaxInitial

\* MaxItems leaves room for entities that appear during the walk.
MCItems == 1..MaxItems

\* From full pages to one page more; smaller collections, and the empty one,
\* come about by deletions before a page is read.
MCCollections == {[i \in 1..n |-> i] : n \in MinInitial..MaxInitial}
=============================================================================
