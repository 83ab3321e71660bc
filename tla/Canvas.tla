------------------------------- MODULE Canvas -------------------------------
(***************************************************************************)
(* What an IRotatablePaintDevice promises, wherever it keeps its pixels: a *)
(* picture on a panel, painted on in the logical coordinates of a view     *)
(* that set_rotate turns without touching the picture.                     *)
(***************************************************************************)
EXTENDS StripIndex

CONSTANTS Color, Black,
          Sources,      (* what is drawn: records of width, height and led *)
          Offsets

VARIABLES picture,      (* the colour of each place of the panel *)
          view,         (* the rotation and the flips of the logical coordinates *)
          transparent, back

canvasVars == <<picture, view, transparent, back>>

Panel == (0 .. W - 1) \X (0 .. H - 1)

Place(x, y) == <<PhysicalX(view, x, y), PhysicalY(view, x, y)>>

(* The logical coordinate that is seen at a place. *)
Seen(p) == CHOOSE c \in Logical(view) : Place(c[1], c[2]) = p

Init ==
  /\ picture = [p \in Panel |-> Black]
  /\ view = Upright
  /\ transparent = FALSE /\ back = Black

Wiped == [p \in Panel |-> back]

(* The source appears at the offset, mirrored as asked, cut off at the      *)
(* lower and the right edge; its background colour may be see-through.      *)
Covered(s, o, flip_x, flip_y) ==
  LET cell(p) == <<IF flip_x THEN s.width - 1 - (Seen(p)[1] - o[1]) ELSE Seen(p)[1] - o[1],
                   IF flip_y THEN s.height - 1 - (Seen(p)[2] - o[2]) ELSE Seen(p)[2] - o[2]>>
      covers(p) == cell(p) \in DOMAIN s.led /\ ~(transparent /\ s.led[cell(p)] = back)
  IN  [p \in Panel |-> IF covers(p) THEN s.led[cell(p)] ELSE picture[p]]

(* flip(true, false) mirrors the picture left to right; flip(true, true)    *)
(* turns it by 180 degrees, all but the middle column of an odd width.      *)
(* Without flip_x nothing changes, whatever flip_y is.                      *)
Mirrored(flip_x, flip_y) ==
  LET width == LogicWidth(view)
      turned(c) == flip_y /\ 2 * c[1] + 1 # width
      from(c) == Place(width - c[1] - 1, IF turned(c) THEN LogicHeight(view) - c[2] - 1 ELSE c[2])
  IN  IF flip_x THEN [p \in Panel |-> picture[from(Seen(p))]] ELSE picture
-----------------------------------------------------------------------------
Pixel ==
  /\ \E p \in Panel, c \in Color : picture' = [picture EXCEPT ![p] = c]
  /\ UNCHANGED <<view, transparent, back>>

Clear ==
  /\ picture' = Wiped
  /\ UNCHANGED <<view, transparent, back>>

Draw ==
  /\ \E s \in Sources, o \in Offsets, flip_x, flip_y \in BOOLEAN :
       picture' = Covered(s, o, flip_x, flip_y)
  /\ UNCHANGED <<view, transparent, back>>

Flip ==
  /\ \E flip_x, flip_y \in BOOLEAN : picture' = Mirrored(flip_x, flip_y)
  /\ UNCHANGED <<view, transparent, back>>

SetRotate ==
  /\ view' \in Rotations
  /\ UNCHANGED <<picture, transparent, back>>

SetTransparent == transparent' \in BOOLEAN /\ UNCHANGED <<picture, view, back>>

SetBackground == back' \in Color /\ UNCHANGED <<picture, view, transparent>>

Next == Pixel \/ Clear \/ Draw \/ Flip \/ SetRotate \/ SetTransparent \/ SetBackground

Spec == Init /\ [][Next]_canvasVars
=============================================================================
