--------------------------- MODULE MCModManager ---------------------------
(***************************************************************************)
(* Small instances of ModManager: three mods around one shared file.       *)
(***************************************************************************)
EXTENDS ModManagerInv, TLC

CONSTANTS m1, m2, m3, user, shared, own1, own2, own3, x, y, g1, g2

MCMods == {m1, m2, m3}
MCFiles == {shared, own1, own2, own3}
MCContents == {x, y}

Carry(files) == [f \in MCFiles |-> IF f \in files THEN x ELSE Missing]

(* Every mod shares one file and has one of its own.                       *)
CrcShared == (m1 :> Carry({shared, own1})) @@ (m2 :> Carry({shared, own2}))
             @@ (m3 :> Carry({shared, own3})) @@ (user :> Carry({}))

(* The user has put own3 there; m2 is a part of m1; m3 disagrees about a   *)
(* file of m1.                                                             *)
CrcClash == (m1 :> Carry({shared, own1, own3})) @@ (m2 :> Carry({shared}))
            @@ (m3 :> [Carry({shared, own2}) EXCEPT ![own1] = y])
            @@ (user :> Carry({own3}))

OneGame == [m \in MCMods |-> g1]
TwoGames == [m \in MCMods |-> IF m = m1 THEN g1 ELSE g2]

Mixed == (m1 :> "folder") @@ (m2 :> "zip") @@ (m3 :> "zip")
Refused == (m1 :> "zip") @@ (m2 :> "stray") @@ (m3 :> "neither")

NoFaults == {}
InstallFaults == {"cancel", "exit", "io", "rename"} \X {"install"}
AllFaults == FaultKinds \X Ops
=============================================================================
