------------------------------ MODULE MCAccount ------------------------------
(* A small instance of Account for TLC: two games, one whose order fills at  *)
(* its limit and one whose order fills a cent better, for another fee.       *)
EXTENDS Account

CONSTANTS g1, g2

MCPaid == [g \in Games |-> IF g = g1 THEN 2 ELSE 3]
MCFee == <<0, 1, 2>>
=============================================================================
