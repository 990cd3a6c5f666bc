--------------------------- MODULE MCGameSchedule ---------------------------
(* A small instance of GameSchedule for TLC: two days of eight instants.    *)
EXTENDS GameSchedule

CONSTANTS first, second

\* Two games of the second day, one due at the end of the first day.
TwoTips == [g \in {first, second} |-> IF g = first THEN 10 ELSE 11]
=============================================================================
