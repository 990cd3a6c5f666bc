--------------------------- MODULE MCAgentTrader ---------------------------
(* Small instances of AgentTrader for TLC.                                  *)
EXTENDS AgentTrader

CONSTANTS a
=============================================================================
