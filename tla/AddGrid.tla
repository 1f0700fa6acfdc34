------------------------------- MODULE AddGrid -------------------------------
(***************************************************************************)
(* The cursor of the grid of games to add.  i is index_AddGame, counted    *)
(* from 0, in a list of n > i games shown Rows * Cols at a time, row by    *)
(* row.                                                                    *)
(***************************************************************************)
EXTENDS Integers

CONSTANTS Cols, Rows   \* GRID_COLS, GRID_ROWS

ASSUME GridAssumption == Cols \in Nat \ {0} /\ Rows \in Nat \ {0}

Page         == Cols * Rows
PageStart(i) == (i \div Page) * Page
Row(i)       == (i % Page) \div Cols
Column(i)    == (i % Page) % Cols

DownUnchecked(i, n) ==
  LET next == PageStart(i) + Page
  IN  IF Row(i) < Rows - 1 THEN i + Cols
      ELSE IF next < n THEN next + Column(i) ELSE i

Down(i, n) ==
  LET next == PageStart(i) + Page
  IN  IF Row(i) < Rows - 1
        THEN IF i + Cols < n THEN i + Cols ELSE i
        ELSE IF next + Column(i) < n THEN next + Column(i)
        ELSE IF next < n THEN n - 1 ELSE i

Up(i) ==
  IF Row(i) > 0 THEN i - Cols
  ELSE IF i >= Page THEN PageStart(i) - Page + (Rows - 1) * Cols + Column(i)
  ELSE i

Left(i)        == IF i > 0 THEN i - 1 ELSE i
Right(i, n)    == IF i + 1 < n THEN i + 1 ELSE i
PageBack(i)    == IF i >= Page THEN i - Page ELSE 0
PageOn(i, n)   == IF i + Page < n THEN i + Page ELSE n - 1

Moves(i, n) ==
  {Down(i, n), Up(i), Left(i), Right(i, n), PageBack(i), PageOn(i, n)}
=============================================================================
