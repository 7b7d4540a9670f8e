-------------------------------- MODULE Paging --------------------------------
(***************************************************************************)
(* One page of a collection, as the list endpoints serve it: $top entities *)
(* after the first $skip.  The server is not part of this repository; this *)
(* is what every paging loop of the client relies on.                      *)
(***************************************************************************)
EXTENDS Integers, Sequences, Functions

\* The index of the last entity of the page, or of the collection.
PageEnd(coll, top, skip) ==
    IF skip + top <= Len(coll) THEN skip + top ELSE Len(coll)

Page(coll, top, skip) == SubSeq(coll, skip + 1, PageEnd(coll, top, skip))

\* The collection without its i-th entity: all later ones move up by one.
Without(coll, i) == SubSeq(coll, 1, i - 1) \o SubSeq(coll, i + 1, Len(coll))

\* The collection with x before its i-th entity: all later ones move down.
WithAt(coll, i, x) == SubSeq(coll, 1, i - 1) \o <<x>> \o SubSeq(coll, i, Len(coll))
=============================================================================
