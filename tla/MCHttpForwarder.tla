-------------------------- MODULE MCHttpForwarder --------------------------
(* Values for the constants of HttpForwarder, for TLC.                     *)
EXTENDS HttpForwarder, TLC

CONSTANTS c1, c2

\* Two routes that serve HTTP requests and one that does not.
MCScheme == [eth |-> "https", poly |-> "https", dot |-> "wss"]

Shape(path, len, kind, size) ==
  [path |-> path, len |-> len, kind |-> kind, size |-> size]

\* Two requests that are forwarded, to different remotes, and one refused.
MCFewShapes ==
  {Shape("eth", 1, "single", 1), Shape("poly", 1, "batch", 2),
   Shape("dot", 1, "single", 1)}

\* One request per outcome of on_new_http_request, at both sides of each limit.
MCAllShapes ==
  MCFewShapes \cup
  {Shape("eth", 2, "single", 1), Shape("eth", 1, "batch", 3),
   Shape("eth", 1, "garbage", 1), Shape("btc", 1, "single", 1),
   Shape(NoPath, 1, "single", 1)}

\* A forwarded request and a refused one, on a single route.
MCOneScheme == [eth |-> "https"]
MCTwoShapes == {Shape("eth", 1, "single", 1), Shape("btc", 1, "single", 1)}

\* The routes of config-relay-example.json.
MCExampleScheme == [eth |-> "http", dot |-> "wss"]

Symmetry == Permutations(Conns)
=============================================================================
