-------------------------- MODULE MCOrderLifecycle --------------------------
(* Small instances of OrderLifecycle for TLC. *)
EXTENDS OrderLifecycle, TLC

CONSTANTS g1, home, away

\* One game, both of its teams, or one.
OneGame == [t \in {home, away} |-> g1]
OneHome == [t \in {home} |-> g1]

\* Nothing tells the two teams apart.
Teams == Permutations({home, away})
=============================================================================
