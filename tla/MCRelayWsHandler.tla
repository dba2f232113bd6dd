-------------------------- MODULE MCRelayWsHandler --------------------------
(* Values for the constants of RelayWsHandler, for TLC.                    *)
EXTENDS RelayWsHandler

CONSTANTS c1, c2
=============================================================================
