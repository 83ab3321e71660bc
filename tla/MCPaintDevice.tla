--------------------------- MODULE MCPaintDevice ---------------------------
(* A panel of three by two, and a source of two cells that sticks out of   *)
(* it at some of the offsets.                                              *)
EXTENDS PaintDevice

CONSTANTS red

MCColor == {Black, red}

Bar == [width |-> 2, height |-> 1, led |-> (<<0, 0>> :> red @@ <<1, 0>> :> Black)]

Bend == [width |-> 2, height |-> 2,
         led |-> [c \in (0 .. 1) \X (0 .. 1) |-> IF c = <<0, 0>> THEN Black ELSE red]]

MCSources == {Bar, Bend}

MCOffsets == {<<0, 0>>, <<1, 1>>, <<2, 0>>}
=============================================================================
