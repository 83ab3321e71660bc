-------------------------- MODULE StripIndexProofs --------------------------
(***************************************************************************)
(* For every size of the panel, the map from logical coordinates to        *)
(* positions is a bijection onto the LED array: no LED is out of reach, no *)
(* two coordinates share one, no coordinate falls outside.                 *)
(***************************************************************************)
EXTENDS StripIndex, TLAPS, WellFoundedInduction

(* Rows do not overlap: y * W + k with 0 <= k < W determines y and k. *)
LEMMA RowBase ==
  ASSUME NEW y1 \in Nat, NEW y2 \in Nat, NEW k1 \in 0 .. W - 1, NEW k2 \in 0 .. W - 1,
         y1 * W + k1 = y2 * W + k2
  PROVE  y1 = y2 /\ k1 = k2
<1> USE PanelAssumption
<1>1. ASSUME NEW a \in Nat, NEW b \in Nat, a < b PROVE a * W + W <= b * W
  <2>1. PICK d \in Nat : b = a + 1 + d
    <3>1. b - a - 1 \in Nat /\ b = a + 1 + (b - a - 1)
      BY <1>1
    <3> QED BY <3>1
  <2>2. b * W = a * W + W + d * W
    BY <2>1
  <2>3. d * W >= 0
    BY <2>1
  <2> QED BY <2>2, <2>3
<1>2. ~(y1 < y2)
  BY <1>1
<1>3. ~(y2 < y1)
  BY <1>1
<1> QED BY <1>2, <1>3

(* Every row lies inside the array. *)
LEMMA RowInside ==
  ASSUME NEW y \in 0 .. H - 1, NEW k \in 0 .. W - 1
  PROVE  y * W + k \in Positions
<1> USE PanelAssumption
<1>1. PICK d \in Nat : H = y + 1 + d
  <2>1. H - y - 1 \in Nat /\ H = y + 1 + (H - y - 1)
    OBVIOUS
  <2> QED BY <2>1
<1>2. H * W = y * W + W + d * W
  BY <1>1
<1>3. d * W >= 0 /\ y * W >= 0 /\ W * H = H * W
  BY <1>1
<1>4. y * W \in Int /\ W * H \in Int
  OBVIOUS
<1> QED BY <1>2, <1>3, <1>4 DEF Positions

(* The physical coordinate of a logical one lies on the panel. *)
LEMMA PhysicalOnPanel ==
  ASSUME NEW r \in Rotations, NEW x \in 0 .. LogicWidth(r) - 1, NEW y \in 0 .. LogicHeight(r) - 1
  PROVE  PhysicalX(r, x, y) \in 0 .. W - 1 /\ PhysicalY(r, x, y) \in 0 .. H - 1
BY PanelAssumption DEF Rotations, Degrees, LogicWidth, LogicHeight, QuarterTurn,
   PhysicalX, PhysicalY, TurnX, TurnY

(* A set of natural numbers has a least element.                           *)
LEMMA LeastNat ==
  ASSUME NEW T \in SUBSET Nat, T # {}
  PROVE  \E n \in T : \A m \in T : n <= m
<1>1. PICK n \in T : \A m \in T : ~(<<m, n>> \in OpToRel(<, Nat))
  BY NatLessThanWellFounded, WFMin
<1>2. \A m \in T : ~(m < n)
  BY <1>1 DEF OpToRel
<1> QED BY <1>2

(* The rows cover the array: a position lies in the row before the first   *)
(* one that begins beyond it.                                              *)
LEMMA RowCover ==
  ASSUME NEW p \in Positions
  PROVE  \E y \in 0 .. H - 1, k \in 0 .. W - 1 : p = y * W + k
<1> USE PanelAssumption DEF Positions
<1> DEFINE T == {n \in Nat : p < n * W}
<1>1. T \in SUBSET Nat /\ H \in T
  <2>1. p < H * W
    OBVIOUS
  <2> QED BY <2>1
<1> HIDE DEF T
<1>2. PICK n \in T : \A m \in T : n <= m
  BY <1>1, LeastNat
<1> USE DEF T
<1>3. n \in Nat /\ n # 0 /\ n <= H /\ p < n * W
  BY <1>1, <1>2
<1>4. n - 1 \in 0 .. H - 1 /\ (n - 1) * W <= p
  <2>1. n - 1 \in 0 .. H - 1 /\ ~(n <= n - 1)
    BY <1>3
  <2>2. n - 1 \notin T
    BY <1>2, <2>1
  <2> QED BY <2>1, <2>2
<1>5. n * W = (n - 1) * W + W
  BY <1>3
<1> DEFINE k == p - (n - 1) * W
<1>6. k \in 0 .. W - 1
  BY <1>3, <1>4, <1>5
<1>7. (n - 1) * W \in Int /\ p \in Int
  BY <1>3
<1>8. p = (n - 1) * W + k
  BY <1>7
<1> HIDE DEF k
<1> QED BY <1>4, <1>6, <1>8

(* Every place of the panel has a logical coordinate.                      *)
LEMMA PhysicalOnto ==
  ASSUME NEW r \in Rotations, NEW px \in 0 .. W - 1, NEW py \in 0 .. H - 1
  PROVE  \E x \in 0 .. LogicWidth(r) - 1, y \in 0 .. LogicHeight(r) - 1 :
           PhysicalX(r, x, y) = px /\ PhysicalY(r, x, y) = py
<1> DEFINE tx == IF r.flip_x THEN W - px - 1 ELSE px
           ty == IF r.flip_y THEN H - py - 1 ELSE py
<1>0. W \in Nat /\ H \in Nat /\ r.flip_x \in BOOLEAN /\ r.flip_y \in BOOLEAN
  BY PanelAssumption DEF Rotations
<1>1. tx \in 0 .. W - 1 /\ ty \in 0 .. H - 1
  BY <1>0
<1>2. SUFFICES \E x \in 0 .. LogicWidth(r) - 1, y \in 0 .. LogicHeight(r) - 1 :
                 TurnX(r.degree, x, y) = tx /\ TurnY(r.degree, x, y) = ty
  BY <1>0 DEF PhysicalX, PhysicalY
<1> HIDE DEF tx, ty
<1>3. CASE r.degree = 0
  BY <1>0, <1>1, <1>3 DEF TurnX, TurnY, LogicWidth, LogicHeight, QuarterTurn
<1>4. CASE r.degree = 90
  <2> DEFINE x == H - ty - 1
  <2>1. x \in 0 .. H - 1 /\ H - x - 1 = ty
    BY <1>0, <1>1
  <2> HIDE DEF x
  <2> QED BY <1>0, <1>1, <1>4, <2>1 DEF TurnX, TurnY, LogicWidth, LogicHeight, QuarterTurn
<1>5. CASE r.degree = 180
  <2> DEFINE x == W - tx - 1
             y == H - ty - 1
  <2>1. x \in 0 .. W - 1 /\ W - x - 1 = tx /\ y \in 0 .. H - 1 /\ H - y - 1 = ty
    BY <1>0, <1>1
  <2> HIDE DEF x, y
  <2> QED BY <1>0, <1>1, <1>5, <2>1 DEF TurnX, TurnY, LogicWidth, LogicHeight, QuarterTurn
<1>6. CASE r.degree = 270
  <2> DEFINE y == W - tx - 1
  <2>1. y \in 0 .. W - 1 /\ W - y - 1 = tx
    BY <1>0, <1>1
  <2> HIDE DEF y
  <2> QED BY <1>0, <1>1, <1>6, <2>1 DEF TurnX, TurnY, LogicWidth, LogicHeight, QuarterTurn
<1> QED BY <1>3, <1>4, <1>5, <1>6 DEF Rotations, Degrees

(* No two logical coordinates share a place of the panel.                  *)
LEMMA PhysicalInjective ==
  ASSUME NEW r \in Rotations,
         NEW x1 \in 0 .. LogicWidth(r) - 1, NEW y1 \in 0 .. LogicHeight(r) - 1,
         NEW x2 \in 0 .. LogicWidth(r) - 1, NEW y2 \in 0 .. LogicHeight(r) - 1,
         PhysicalX(r, x1, y1) = PhysicalX(r, x2, y2),
         PhysicalY(r, x1, y1) = PhysicalY(r, x2, y2)
  PROVE  x1 = x2 /\ y1 = y2
BY PanelAssumption DEF Rotations, Degrees, LogicWidth, LogicHeight, QuarterTurn,
   PhysicalX, PhysicalY, TurnX, TurnY

(* The LED of a logical coordinate of a strip exists: ISnakeStripIndex and *)
(* the rotate helpers never index outside channel[0].leds.                 *)
THEOREM SnakeLedInside ==
  ASSUME NEW r \in Rotations, NEW x \in 0 .. LogicWidth(r) - 1, NEW y \in 0 .. LogicHeight(r) - 1
  PROVE  SnakeLed(r, x, y) \in Positions
<1> DEFINE px == PhysicalX(r, x, y)
           py == PhysicalY(r, x, y)
<1>1. px \in 0 .. W - 1 /\ py \in 0 .. H - 1
  BY PhysicalOnPanel
<1> HIDE DEF px, py
<1>2. W - px - 1 \in 0 .. W - 1
  BY <1>1, PanelAssumption
<1>3. SnakeIndex(px, py) \in Positions
  BY <1>1, <1>2, RowInside DEF SnakeIndex
<1> QED BY <1>3 DEF SnakeLed, px, py

(* Two logical coordinates never share a LED of a strip. *)
THEOREM SnakeLedInjective ==
  ASSUME NEW r \in Rotations,
         NEW x1 \in 0 .. LogicWidth(r) - 1, NEW y1 \in 0 .. LogicHeight(r) - 1,
         NEW x2 \in 0 .. LogicWidth(r) - 1, NEW y2 \in 0 .. LogicHeight(r) - 1,
         SnakeLed(r, x1, y1) = SnakeLed(r, x2, y2)
  PROVE  x1 = x2 /\ y1 = y2
<1> DEFINE px1 == PhysicalX(r, x1, y1)
           py1 == PhysicalY(r, x1, y1)
           px2 == PhysicalX(r, x2, y2)
           py2 == PhysicalY(r, x2, y2)
           k1 == IF py1 % 2 = 0 THEN px1 ELSE W - px1 - 1
           k2 == IF py2 % 2 = 0 THEN px2 ELSE W - px2 - 1
<1>1. /\ px1 \in 0 .. W - 1 /\ py1 \in 0 .. H - 1
      /\ px2 \in 0 .. W - 1 /\ py2 \in 0 .. H - 1
  BY PhysicalOnPanel
<1>2. py1 * W + k1 = py2 * W + k2
  BY DEF SnakeLed, SnakeIndex
<1>3. k1 \in 0 .. W - 1 /\ k2 \in 0 .. W - 1 /\ py1 \in Nat /\ py2 \in Nat
  BY <1>1, PanelAssumption
<1>4. py1 = py2 /\ k1 = k2
  <2> HIDE DEF px1, py1, px2, py2, k1, k2
  <2> QED BY <1>2, <1>3, RowBase
<1>5. px1 = px2
  <2> HIDE DEF px1, py1, px2, py2
  <2> QED BY <1>1, <1>4, PanelAssumption
<1> QED BY <1>4, <1>5, PhysicalInjective

(* The same of a Pixmap or a Window, which are stored row by row: led_ref() *)
(* never leaves the vector leds_ ...                                        *)
THEOREM VectorLedInside ==
  ASSUME NEW r \in Rotations, NEW x \in 0 .. LogicWidth(r) - 1, NEW y \in 0 .. LogicHeight(r) - 1
  PROVE  VectorLed(r, x, y) \in Positions
BY PhysicalOnPanel, RowInside DEF VectorLed, VectorIndex

(* ... and two logical coordinates never share an element of it.           *)
THEOREM VectorLedInjective ==
  ASSUME NEW r \in Rotations,
         NEW x1 \in 0 .. LogicWidth(r) - 1, NEW y1 \in 0 .. LogicHeight(r) - 1,
         NEW x2 \in 0 .. LogicWidth(r) - 1, NEW y2 \in 0 .. LogicHeight(r) - 1,
         VectorLed(r, x1, y1) = VectorLed(r, x2, y2)
  PROVE  x1 = x2 /\ y1 = y2
<1> DEFINE px1 == PhysicalX(r, x1, y1)
           py1 == PhysicalY(r, x1, y1)
           px2 == PhysicalX(r, x2, y2)
           py2 == PhysicalY(r, x2, y2)
<1>1. /\ px1 \in 0 .. W - 1 /\ py1 \in Nat
      /\ px2 \in 0 .. W - 1 /\ py2 \in Nat
  BY PhysicalOnPanel, PanelAssumption
<1>2. py1 * W + px1 = py2 * W + px2
  BY DEF VectorLed, VectorIndex
<1>3. py1 = py2 /\ px1 = px2
  <2> HIDE DEF px1, py1, px2, py2
  <2> QED BY <1>1, <1>2, RowBase
<1> QED BY <1>3, PhysicalInjective

(* A strip has no LED that no logical coordinate reaches: what clear()     *)
(* goes over is all of it.                                                 *)
THEOREM SnakeLedOnto ==
  ASSUME NEW r \in Rotations, NEW p \in Positions
  PROVE  \E x \in 0 .. LogicWidth(r) - 1, y \in 0 .. LogicHeight(r) - 1 : SnakeLed(r, x, y) = p
<1>1. PICK py \in 0 .. H - 1, k \in 0 .. W - 1 : p = py * W + k
  BY RowCover
<1> DEFINE px == IF py % 2 = 0 THEN k ELSE W - k - 1
<1>2. px \in 0 .. W - 1 /\ p = SnakeIndex(px, py)
  <2>1. W - k - 1 \in 0 .. W - 1 /\ W - (W - k - 1) - 1 = k
    BY PanelAssumption
  <2> QED BY <1>1, <2>1 DEF SnakeIndex
<1> HIDE DEF px
<1>3. PICK x \in 0 .. LogicWidth(r) - 1, y \in 0 .. LogicHeight(r) - 1 :
             PhysicalX(r, x, y) = px /\ PhysicalY(r, x, y) = py
  BY <1>2, PhysicalOnto
<1> QED BY <1>2, <1>3 DEF SnakeLed

(* Nor has a Pixmap or a Window.                                           *)
THEOREM VectorLedOnto ==
  ASSUME NEW r \in Rotations, NEW p \in Positions
  PROVE  \E x \in 0 .. LogicWidth(r) - 1, y \in 0 .. LogicHeight(r) - 1 : VectorLed(r, x, y) = p
<1>1. PICK py \in 0 .. H - 1, px \in 0 .. W - 1 : p = py * W + px
  BY RowCover
<1>2. PICK x \in 0 .. LogicWidth(r) - 1, y \in 0 .. LogicHeight(r) - 1 :
             PhysicalX(r, x, y) = px /\ PhysicalY(r, x, y) = py
  BY PhysicalOnto
<1> QED BY <1>1, <1>2 DEF VectorLed, VectorIndex
=============================================================================
