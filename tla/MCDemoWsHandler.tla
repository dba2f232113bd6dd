-------------------------- MODULE MCDemoWsHandler --------------------------
(* Values for the constants of DemoWsHandler, for TLC.                     *)
EXTENDS DemoWsHandler

CONSTANTS c1, c2, c3, t1, t2
=============================================================================
