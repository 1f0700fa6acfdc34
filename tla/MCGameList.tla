----------------------------- MODULE MCGameList -----------------------------
EXTENDS GameList, TLC
CONSTANTS g1, g2, v1, n1

TwoDirs == {<<g1, NoVersion>>, <<g2, NoVersion>>}
(* g1 a favourite, g2 named. *)
OneFile == {<<<<Favorites, <<<<<<g1, NoVersion>>, n1>>>>>>, <<<<g2, NoVersion>>, n1>>>>}
=============================================================================
