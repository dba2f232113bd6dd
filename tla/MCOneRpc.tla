------------------------------ MODULE MCOneRpc ------------------------------
(* Values for the constants of OneRpc, for TLC.                            *)
EXTENDS OneRpc, TLC

CONSTANTS c1, w1, w2, t1

MCScheme == [eth |-> "https"]

Shape(kind, size, token) ==
  [path |-> "eth", len |-> 1, kind |-> kind, size |-> size, token |-> token]

\* One to forward, and one that is refused.
MCShapes == {Shape("batch", 1, t1), Shape("batch", 2, t1)}

MCOneShape == {Shape("single", 1, t1)}

MCCommandLines == {<<[opt |-> "r", val |-> "demo.json"]>>}

Symmetry == Permutations(WsIds)
=============================================================================
