---------------------------- MODULE MCNameLookup ----------------------------
(***************************************************************************)
(* Instances of NameLookup for TLC.  A collection starts as <<1, ..., n>>, *)
(* with every way of naming the entities.                                  *)
(***************************************************************************)
EXTENDS NameLookup

CONSTANTS MaxItems, MaxInitial

MCItems == 1..MaxItems

MCCollections == {[i \in 1..n |-> i] : n \in 0..MaxInitial}

MCNames == [MCItems -> NameKinds]
=============================================================================
