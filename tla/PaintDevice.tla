----------------------------- MODULE PaintDevice -----------------------------
(***************************************************************************)
(* IPaintDevice and IRotatablePaintDevice, used by one thread: the loops   *)
(* of clear, draw and flip over an array of LEDs, laid out as a snake (a   *)
(* WS2811Strip) or row by row (a Pixmap, a Window without children).       *)
(***************************************************************************)
EXTENDS StripIndex, SequencesExt

CONSTANTS Color, Black, Sources, Offsets

VARIABLES leds,
          snake,                        (* which layout indexes the array *)
          helper,                       (* the rotation of rotate_helper_ *)
          logic_width, logic_height,
          transparent, back

deviceVars == <<leds, snake, helper, logic_width, logic_height, transparent, back>>

ASSUME DeviceAssumption ==
  /\ Black \in Color
  /\ Offsets \subseteq Nat \X Nat
  /\ \A s \in Sources :
       /\ s.width \in Nat /\ s.height \in Nat
       /\ s.led \in [(0 .. s.width - 1) \X (0 .. s.height - 1) -> Color]

Index(x, y) == IF snake THEN SnakeLed(helper, x, y) ELSE VectorLed(helper, x, y)

(* A write beyond the last LED leaves an array that has more than the LEDs. *)
Set(array, x, y, color) ==
  LET led == Index(x, y)
  IN  [p \in DOMAIN array \cup {led} |-> IF p = led THEN color ELSE array[p]]

(* for (y below height) for (x below width): the pairs, in that order.     *)
RowMajor(width, height) ==
  [i \in 1 .. width * height |-> <<(i - 1) % width, (i - 1) \div width>>]

Cleared(array) ==
  LET cell(a, c) == Set(a, c[1], c[2], back)
  IN  FoldLeft(cell, array, RowMajor(logic_width, logic_height))

(* Mutant: draw() without the test of the right edge.                       *)
DrawnUnclipped(array, src, x, y, flip_x, flip_y) ==
  LET cell(a, s) ==
        LET dx == IF flip_x THEN src.width - s[1] - 1 ELSE s[1]
            dy == IF flip_y THEN src.height - s[2] - 1 ELSE s[2]
            skipped == y + dy >= logic_height \/ (transparent /\ src.led[s] = back)
        IN  IF skipped THEN a ELSE Set(a, x + dx, y + dy, src.led[s])
  IN  FoldLeft(cell, array, RowMajor(src.width, src.height))

Drawn(array, src, x, y, flip_x, flip_y) ==
  LET cell(a, s) ==
        LET dx == IF flip_x THEN src.width - s[1] - 1 ELSE s[1]
            dy == IF flip_y THEN src.height - s[2] - 1 ELSE s[2]
            skipped == \/ y + dy >= logic_height
                       \/ x + dx >= logic_width
                       \/ transparent /\ src.led[s] = back
        IN  IF skipped THEN a ELSE Set(a, x + dx, y + dy, src.led[s])
  IN  FoldLeft(cell, array, RowMajor(src.width, src.height))

(* Mutant: the loop runs over the whole width and exchanges twice.          *)
FlippedWhole(array, flip_x, flip_y) ==
  LET cell(a, c) ==
        LET dx == IF flip_x THEN logic_width - c[1] - 1 ELSE c[1]
            dy == IF flip_y THEN logic_height - c[2] - 1 ELSE c[2]
        IN  Set(Set(a, c[1], c[2], a[Index(dx, dy)]), dx, dy, a[Index(c[1], c[2])])
  IN  FoldLeft(cell, array, RowMajor(logic_width, logic_height))

(* Each pair is exchanged where the loop meets it, over half the width.    *)
Flipped(array, flip_x, flip_y) ==
  LET cell(a, c) ==
        LET dx == IF flip_x THEN logic_width - c[1] - 1 ELSE c[1]
            dy == IF flip_y THEN logic_height - c[2] - 1 ELSE c[2]
        IN  Set(Set(a, c[1], c[2], a[Index(dx, dy)]), dx, dy, a[Index(c[1], c[2])])
  IN  FoldLeft(cell, array, RowMajor(logic_width \div 2, logic_height))
-----------------------------------------------------------------------------
Init ==
  /\ leds = [p \in Positions |-> Black]
  /\ snake \in BOOLEAN
  /\ helper = Upright /\ logic_width = W /\ logic_height = H
  /\ transparent = FALSE /\ back = Black

DrawPixel ==
  /\ \E x \in 0 .. logic_width - 1, y \in 0 .. logic_height - 1, c \in Color : leds' = Set(leds, x, y, c)
  /\ UNCHANGED <<snake, helper, logic_width, logic_height, transparent, back>>

Clear ==
  /\ leds' = Cleared(leds)
  /\ UNCHANGED <<snake, helper, logic_width, logic_height, transparent, back>>

Draw ==
  /\ \E s \in Sources, o \in Offsets, flip_x, flip_y \in BOOLEAN :
       leds' = Drawn(leds, s, o[1], o[2], flip_x, flip_y)
  /\ UNCHANGED <<snake, helper, logic_width, logic_height, transparent, back>>

Flip ==
  /\ \E flip_x, flip_y \in BOOLEAN : leds' = Flipped(leds, flip_x, flip_y)
  /\ UNCHANGED <<snake, helper, logic_width, logic_height, transparent, back>>

SetRotate ==
  /\ \E r \in Rotations :
       /\ helper' = r
       /\ logic_width' = LogicWidth(r) /\ logic_height' = LogicHeight(r)
  /\ UNCHANGED <<leds, snake, transparent, back>>

SetTransparent ==
  /\ transparent' \in BOOLEAN
  /\ UNCHANGED <<leds, snake, helper, logic_width, logic_height, back>>

SetBackground ==
  /\ back' \in Color
  /\ UNCHANGED <<leds, snake, helper, logic_width, logic_height, transparent>>

Next == DrawPixel \/ Clear \/ Draw \/ Flip \/ SetRotate \/ SetTransparent \/ SetBackground

Spec == Init /\ [][Next]_deviceVars
-----------------------------------------------------------------------------
(* Every variable has its type: no loop writes outside the array, and no    *)
(* pixel gets a colour that nobody asked for.                               *)
TypeOK ==
  /\ leds \in [Positions -> Color]
  /\ snake \in BOOLEAN
  /\ helper \in Rotations
  /\ logic_width = LogicWidth(helper) /\ logic_height = LogicHeight(helper)
  /\ transparent \in BOOLEAN /\ back \in Color

(* What an array of LEDs shows: a snake runs every other row backwards.     *)
PictureOf(array) ==
  [p \in (0 .. W - 1) \X (0 .. H - 1) |->
     array[IF snake THEN SnakeIndex(p[1], p[2]) ELSE VectorIndex(p[1], p[2])]]

Promise == INSTANCE Canvas WITH picture <- PictureOf(leds), view <- helper

(* In whatever state the device is, the loops of clear, draw and flip would *)
(* leave the picture that Canvas asks for: also where KeepsPromise would    *)
(* take a flip that undoes itself for no step at all.                       *)
LoopsPaint ==
  /\ PictureOf(Cleared(leds)) = Promise!Wiped
  /\ \A flip_x, flip_y \in BOOLEAN :
       /\ PictureOf(Flipped(leds, flip_x, flip_y)) = Promise!Mirrored(flip_x, flip_y)
       /\ \A s \in Sources, o \in Offsets :
            PictureOf(Drawn(leds, s, o[1], o[2], flip_x, flip_y)) = Promise!Covered(s, o, flip_x, flip_y)

(* The device implements Canvas: whatever sequence of calls it is given,    *)
(* set_rotate among them, the picture goes through the steps of a canvas.   *)
(* The clipping of draw, and the exchange of half the pixels by flip, come  *)
(* to that on either layout and in every rotation.                          *)
KeepsPromise == Promise!Spec
=============================================================================
