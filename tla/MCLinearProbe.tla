--------------------------- MODULE MCLinearProbe ---------------------------
(* Instances of LinearProbe: a page is a pair <<hash, n>>.                  *)
EXTENDS LinearProbe

MCHash == [p \in Page |-> p[1]]

(* Three buckets and four pages, so that a page can meet a full table.  Two *)
(* pages share home 2 and wrap; the others get in the way of the wrapped    *)
(* part of their chain.                                                     *)
Four == {<<2, 1>>, <<2, 2>>, <<0, 1>>, <<1, 1>>}
=============================================================================
