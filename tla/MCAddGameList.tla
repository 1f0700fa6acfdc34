--------------------------- MODULE MCAddGameList ---------------------------
EXTENDS AddGameList
CONSTANTS g1, g2, g3

OneGame    == <<g1>>
ThreeGames == <<g1, g2, g3>>
(* g2 and g3 begin with one letter, before that of g1. *)
Initials == g1 :> 2 @@ g2 :> 1 @@ g3 :> 1
=============================================================================
