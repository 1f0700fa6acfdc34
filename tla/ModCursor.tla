----------------------------- MODULE ModCursor -----------------------------
(***************************************************************************)
(* The cursor of the list of mods, four of which fit between the pixels 86 *)
(* and 646.  c.index is the selected mod and c.start the first one drawn,  *)
(* both counted from 0; c.ypos is the pixel of the selected row and c.yoff *)
(* that of the first.  n is the length of the list, which is not empty.    *)
(***************************************************************************)
EXTENDS Integers

Box      == 120    \* BOX_HEIGHT
FirstRow == 130
Top      == 86
Bottom   == 646
Rows     == 4

Cursor(index, start, ypos, yoff) ==
  [index |-> index, start |-> start, ypos |-> ypos, yoff |-> yoff]
Row(index, start) == FirstRow + (index - start) * Box
AtTop == Cursor(0, 0, FirstRow, FirstRow)
At(index, start) == Cursor(index, start, Row(index, start), FirstRow)

Down(c, n) ==
  IF c.index >= n - 1 THEN c
  ELSE IF (c.ypos + Box) + Box <= Bottom
  THEN Cursor(c.index + 1, c.start, c.ypos + Box, c.yoff)
  ELSE Cursor(c.index + 1, c.start + 1, c.ypos, c.ypos - (c.index - c.start) * Box)

Up(c) ==
  IF c.index = 0 THEN c
  ELSE IF c.ypos - Box >= Top
  THEN Cursor(c.index - 1, c.start, c.ypos - Box, c.yoff)
  ELSE Cursor(c.index - 1, c.start - 1, c.ypos, c.ypos)

Back(i) == IF i >= Rows THEN i - Rows ELSE 0

(* L: the index is brought into the page that is shown then.                *)
PageBack(c, n) ==
  LET start == Back(c.start)
      index == IF Back(c.index) < start THEN start ELSE Back(c.index)
      last  == start + Rows - 1
  IN  At(IF index > last /\ last < n THEN last ELSE index, start)

(* R: past the last page the cursor goes to the end of the list.            *)
PageOn(c, n) ==
  LET index == IF c.index + Rows >= n THEN n - 1 ELSE c.index + Rows
  IN  IF n <= Rows THEN At(index, 0)
      ELSE IF c.start + Rows > n - Rows THEN At(n - 1, n - Rows)
      ELSE At(index, c.start + Rows)

Moves(c, n) == {Down(c, n), Up(c), PageBack(c, n), PageOn(c, n)}

(* Mutation of Shrunk: the first line stays.                                *)
ShrunkUnscrolled(c, n) ==
  LET index == IF c.index >= n THEN n - 1 ELSE c.index
  IN  Cursor(index, c.start, Row(index, c.start), c.yoff)
(* RemoveMod: n mods are left; yoff is not set.                             *)
Shrunk(c, n) ==
  LET index == IF c.index >= n THEN n - 1 ELSE c.index
      start == IF n <= Rows THEN 0
               ELSE IF c.start > n - Rows THEN n - Rows ELSE c.start
  IN  Cursor(index, start, Row(index, start), c.yoff)

-----------------------------------------------------------------------------
(* The selected mod exists and is among the rows drawn, the pixels agree    *)
(* with the indices, and no row is left empty while mods are hidden above.  *)
Shown(c, n) ==
  /\ c.index < n /\ c.start <= c.index /\ c.index < c.start + Rows
  /\ c.ypos = Row(c.index, c.start) /\ c.yoff = FirstRow
  /\ c.start = 0 \/ c.start + Rows <= n
=============================================================================
