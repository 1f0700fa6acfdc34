----------------------------- MODULE MCModList -----------------------------
(* Five mods, more than fit on the screen, one typed, one installed and one  *)
(* a folder, and a file that names one of them or holds what it should not. *)
EXTENDS ModList

CONSTANTS m1, m2, m3, m4, m5, m6, tF, tG, t

FiveMods == <<m1, NoType, FALSE>> :> 1 @@ <<m2, tF, FALSE>> :> 1 @@ <<m3, NoType, TRUE>> :> 1
            @@ <<m4, NoType, FALSE>> :> 2 @@ <<m5, tG, FALSE>> :> 1
OneFile == {<<<<<<m2, tF, FALSE>>, <<<<"display_name", t>>>>>>,
              <<<<m1, NoType, FALSE>>, t>>>>}

Order == <<tF, tG, NoType>>
Places == [k \in Dirs |->
  (IF k[3] THEN 0 ELSE 100) + 10 * SelectInSeq(Order, LAMBDA x : x = k[2])
  + SelectInSeq(<<m1, m2, m3, m4, m5, m6>>, LAMBDA x : x = k[1])]
=============================================================================
