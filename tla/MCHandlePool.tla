---------------------------- MODULE MCHandlePool ----------------------------
(* Instances of HandlePool: which outcomes the two reallocs may have.       *)
EXTENDS HandlePool

Any == Realloc \X Realloc
Moving == {<<"moves", "moves">>}
HalfMoved == {<<"moves", "fails">>}
=============================================================================
