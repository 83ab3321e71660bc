----------------------------- MODULE StripIndex -----------------------------
(***************************************************************************)
(* How render.hpp turns a logical coordinate of a panel into a position in *)
(* its array of LEDs.  The physical panel has W columns and H rows.  A     *)
(* StripRotateHelper first undoes the rotation and the flips, then asks    *)
(* the layout for the position: a WS2811Strip is wired as a snake (every   *)
(* odd row runs backwards), a Pixmap or a Window is stored row by row.     *)
(***************************************************************************)
EXTENDS Integers

CONSTANTS W, H   (* the panel: columns and rows, as the strip is wired *)

ASSUME PanelAssumption == W \in Nat \ {0} /\ H \in Nat \ {0}

Positions == 0 .. W * H - 1          (* the subscripts of the LED array *)

(* The degrees set_rotate accepts; it throws on any other. *)
Degrees == {0, 90, 180, 270}

(* One instantiation of the template StripRotateHelper. *)
Rotations == [degree : Degrees, flip_x : BOOLEAN, flip_y : BOOLEAN]

Upright == [degree |-> 0, flip_x |-> FALSE, flip_y |-> FALSE]

SnakeIndex(x, y) == IF y % 2 = 0 THEN y * W + x ELSE y * W + (W - x - 1)

VectorIndex(x, y) == y * W + x

(* The physical coordinate of the logical (x, y): first the rotation ...   *)
TurnX(d, x, y) == CASE d = 0   -> x
                    [] d = 90  -> y
                    [] d = 180 -> W - x - 1
                    [] d = 270 -> W - y - 1

TurnY(d, x, y) == CASE d = 0   -> y
                    [] d = 90  -> H - x - 1
                    [] d = 180 -> H - y - 1
                    [] d = 270 -> x

(* ... then the flips, of the physical axes.                               *)
PhysicalX(r, x, y) == LET tx == TurnX(r.degree, x, y)
                      IN  IF r.flip_x THEN W - tx - 1 ELSE tx

PhysicalY(r, x, y) == LET ty == TurnY(r.degree, x, y)
                      IN  IF r.flip_y THEN H - ty - 1 ELSE ty

SnakeLed(r, x, y)  == SnakeIndex(PhysicalX(r, x, y), PhysicalY(r, x, y))

VectorLed(r, x, y) == VectorIndex(PhysicalX(r, x, y), PhysicalY(r, x, y))

(* Mutant: takes the largest coordinate for the size. *)
LogicWidthMaxX(r) == IF r.degree \in {90, 270} THEN H - 1 ELSE W - 1

(* The size set_rotate announces: a quarter turn exchanges the axes. *)
QuarterTurn(r) == r.degree \in {90, 270}

LogicWidth(r)  == IF QuarterTurn(r) THEN H ELSE W

LogicHeight(r) == IF QuarterTurn(r) THEN W ELSE H

Logical(r) == (0 .. LogicWidth(r) - 1) \X (0 .. LogicHeight(r) - 1)
=============================================================================
