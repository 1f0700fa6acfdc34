----------------------------- MODULE MCAppTasks -----------------------------
(* Instances of AppTasks for TLC: two games with a mod each, archives to    *)
(* add, and a game of the console that is not on the card.                  *)
EXTENDS AppTasks

CONSTANTS g1, g2, g3, m1, m2, z1, z2

TwoMods == {<<g1, m1>>, <<g2, m2>>}
OneMod  == {<<g1, m1>>}
=============================================================================
