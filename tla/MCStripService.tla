--------------------------- MODULE MCStripService ---------------------------
(* Small instances of StripService: a strip of two or three columns, texts *)
(* of one or two cells.                                                    *)
EXTENDS StripService, TLC

CONSTANTS t1, t2   (* io threads *)

Symmetry == Permutations(IoThreads)

(* A glyph of one lit cell, and one of two rows with a lit and an unlit cell. *)
Dot  == [width |-> 1, height |-> 1, lit |-> {<<0, 0>>}]
Tall == [width |-> 1, height |-> 2, lit |-> {<<0, 0>>}]
Wide == [width |-> 2, height |-> 1, lit |-> {<<0, 0>>}]

MCDots == {Dot}
MCWide == {Wide}
MCShapes == {Tall, Wide}

AtOrigin == {<<0, 0>>}
AtEnds == {<<0, 0>>, <<MaxInt, 0>>}
AtEdge == {<<-1, 0>>, <<1, 0>>}
MCOffsets == {<<-1, 0>>, <<0, -1>>, <<0, 0>>, <<1, 0>>, <<2, 1>>, <<MaxInt, 0>>}

(* On the strip in one orientation, in both, in none. *)
NoPixels == {}
AnyPixel == {<<-1, 0>>, <<0, 0>>, <<1, 0>>}
MCPixels == {<<0, 0>>, <<2, 1>>, <<1, 2>>, <<-1, 0>>}

Turn(d, fx, fy) == [degree |-> d, flip_x |-> fx, flip_y |-> fy]

TwoTurns == {Upright, Turn(90, FALSE, FALSE)}

PaintOps == {"clear", "draw_text", "draw_number", "draw_pixel", "pixel",
             "set_rotate", "set_background", "set_transparent"}
RotateOps == {"clear", "draw_text", "draw_pixel", "pixel", "set_rotate"}
AutoOps == {"draw_pixel", "render", "set_auto_render"}
ReturnOps == {"clear", "draw_text", "set_transparent", "set_rotate"}
=============================================================================
