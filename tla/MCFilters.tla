------------------------------- MODULE MCFilters -------------------------------
(* Three of the seven filtered columns, and every kind of caller: an options *)
(* list (no argument of its own), the search for launches (1), a breakdown   *)
(* (2), the logistics with its search (2), a comparison of two periods (4),  *)
(* the summary per kanal (4, kanal unfiltered), the new products (12).       *)
EXTENDS Filters

\* "a", "a b" and "b".
ThreeWords == <<<<"a">>, <<"a", "b">>, <<"b">>>>

ThreeColumns == <<"channel", "kanal", "toko">>

Caller(n, column, searches) ==
  [fixed |-> n, start |-> n + 1, own |-> column, search |-> searches]

AllCallers ==
  { Caller(n, None, FALSE) : n \in {1, 2, 4, 12} }
    \cup { Caller(0, "channel", FALSE), Caller(0, "toko", FALSE),
           Caller(4, "kanal", FALSE), Caller(2, None, TRUE) }

=============================================================================
