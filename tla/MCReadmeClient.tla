--------------------------- MODULE MCReadmeClient ---------------------------
(* The strip of main.cpp, 16 by 32, at an eighth: 2 by 4, and texts of one *)
(* cell for texts of 20 by 8.                                              *)
EXTENDS ReadmeClient

Letter == [width |-> 1, height |-> 1, lit |-> {<<0, 0>>}]

Texts == {Letter}

Calls == {"clear", "set_auto_render", "set_rotate", "draw_text"}

ClientTurns == {[degree |-> 270, flip_x |-> FALSE, flip_y |-> FALSE]}

NoPixels == {}

ClientOffsets == {<<0, 0>>, <<0, H \div 2>>}
=============================================================================
