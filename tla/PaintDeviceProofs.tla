------------------------- MODULE PaintDeviceProofs -------------------------
(***************************************************************************)
(* The loops of PaintDevice, for every size of the panel, every source and *)
(* offset: they keep the types, and leave the pictures of Canvas.          *)
(***************************************************************************)
EXTENDS PaintDevice, StripIndexProofs

LEMMA MaxIs ==
  ASSUME NEW s, NEW m \in s, s \subseteq Nat, \A k \in s : k <= m
  PROVE  Max(s) = m
<1>1. \A k \in s : m >= k
  OBVIOUS
<1>2. \E x \in s : \A k \in s : x >= k
  BY <1>1
<1>3. Max(s) \in s /\ \A k \in s : Max(s) >= k
  BY <1>2, Zenon DEF Max
<1>4. Max(s) \in Nat /\ m \in Nat /\ Max(s) >= m /\ Max(s) <= m
  BY <1>3
<1> QED
  BY <1>4

LEMMA MaxInside ==
  ASSUME NEW n \in Nat, NEW s \in SUBSET (1 .. n), s # {}
  PROVE  Max(s) \in s
<1> DEFINE T == {n - k : k \in s}
<1>0. \A k \in s : k \in 1 .. n /\ k \in Nat /\ n - k \in Nat
  OBVIOUS
<1>1. T \in SUBSET Nat /\ T # {}
  <2>1. \A d \in T : d \in Nat
    BY <1>0
  <2> QED
    BY <2>1
<1> HIDE DEF T
<1>2. PICK d \in T : \A e \in T : d <= e
  BY <1>1, LeastNat
<1>3. PICK m \in s : d = n - m
  BY <1>2 DEF T
<1>4. \A k \in s : n - m <= n - k
  BY <1>2, <1>3 DEF T
<1>5. s \subseteq Nat /\ m \in Nat /\ \A k \in s : k <= m
  BY <1>0, <1>4
<1> QED
  BY <1>5, MaxIs

(* A loop of n turns from a, whose i-th turn makes step[<<b, i>>] of b,    *)
(* as the fold over 1 .. n that it is.                                     *)
Turns(iter, n, a, step) ==
  iter = [s \in SUBSET (1 .. n) |-> IF s = {} THEN a ELSE step[<<iter[s \ {Max(s)}], Max(s)>>]]

LEMMA TurnsLonger ==
  ASSUME NEW n \in Nat, NEW m \in Nat, m < n, NEW A, NEW a \in A, NEW step \in [A \X (1 .. n) -> A],
         NEW g \in [SUBSET (1 .. m) -> A], Turns(g, m, a, step)
  PROVE  \E h \in [SUBSET (1 .. m + 1) -> A] : Turns(h, m + 1, a, step)
<1> DEFINE h == [s \in SUBSET (1 .. m + 1) |->
                   IF m + 1 \in s THEN step[<<g[s \ {m + 1}], m + 1>>] ELSE g[s]]
<1>0. m + 1 \in 1 .. n
  OBVIOUS
<1>1. ASSUME NEW s \in SUBSET (1 .. m + 1)
      PROVE  h[s] \in A /\ h[s] = IF s = {} THEN a ELSE step[<<h[s \ {Max(s)}], Max(s)>>]
  <2>1. CASE m + 1 \in s
    <3>1. Max(s) = m + 1
      <4>1. s \subseteq Nat /\ m + 1 \in s /\ \A k \in s : k <= m + 1
        BY <2>1
      <4> QED
        BY <4>1, MaxIs
    <3>2. s \ {m + 1} \in SUBSET (1 .. m) /\ s \ {m + 1} \in SUBSET (1 .. m + 1) /\ m + 1 \notin s \ {m + 1}
      OBVIOUS
    <3>3. h[s \ {m + 1}] = g[s \ {m + 1}] /\ g[s \ {m + 1}] \in A
      BY <3>2
    <3>4. h[s] = step[<<g[s \ {m + 1}], m + 1>>]
      BY <2>1
    <3>5. step[<<g[s \ {m + 1}], m + 1>>] \in A
      BY <1>0, <3>3
    <3> QED
      BY <2>1, <3>1, <3>3, <3>4, <3>5
  <2>2. CASE m + 1 \notin s
    <3>1. s \in SUBSET (1 .. m)
      BY <2>2
    <3>2. g[s] = IF s = {} THEN a ELSE step[<<g[s \ {Max(s)}], Max(s)>>]
      BY <3>1 DEF Turns
    <3>3. s \ {Max(s)} \in SUBSET (1 .. m + 1) /\ m + 1 \notin s \ {Max(s)}
      BY <2>2
    <3>4. h[s] = g[s] /\ h[s \ {Max(s)}] = g[s \ {Max(s)}] /\ g[s] \in A
      BY <2>2, <3>1, <3>3
    <3> QED
      BY <3>2, <3>4
  <2> QED
    BY <2>1, <2>2
<1>2. h = [s \in SUBSET (1 .. m + 1) |-> h[s]]
  OBVIOUS
<1> HIDE DEF h
<1>3. h = [s \in SUBSET (1 .. m + 1) |-> IF s = {} THEN a ELSE step[<<h[s \ {Max(s)}], Max(s)>>]]
  BY <1>1, <1>2
<1>4. h \in [SUBSET (1 .. m + 1) -> A]
  BY <1>1, <1>2
<1> QED
  BY <1>3, <1>4 DEF Turns

(* Such a loop comes to something, however many turns it has.              *)
LEMMA TurnsExist ==
  ASSUME NEW n \in Nat, NEW A, NEW a \in A, NEW step \in [A \X (1 .. n) -> A]
  PROVE  \E iter \in [SUBSET (1 .. n) -> A] : Turns(iter, n, a, step)
<1> DEFINE Exists(m) == \E iter \in [SUBSET (1 .. m) -> A] : Turns(iter, m, a, step)
           T == {m \in Nat : m <= n /\ ~Exists(m)}
<1> SUFFICES ASSUME ~Exists(n)
             PROVE  FALSE
  OBVIOUS
<1> HIDE DEF Exists
<1>1. PICK m \in T : \A k \in T : m <= k
  <2>1. T \in SUBSET Nat /\ n \in T
    OBVIOUS
  <2> HIDE DEF T
  <2> QED
    BY <2>1, LeastNat
<1>2. Exists(0)
  <2> DEFINE g == [s \in SUBSET (1 .. 0) |-> a]
  <2>1. \A s \in SUBSET (1 .. 0) : s = {}
    OBVIOUS
  <2>2. g = [s \in SUBSET (1 .. 0) |-> IF s = {} THEN a ELSE step[<<g[s \ {Max(s)}], Max(s)>>]]
    BY <2>1
  <2>3. g \in [SUBSET (1 .. 0) -> A]
    OBVIOUS
  <2> HIDE DEF g
  <2> QED
    BY <2>2, <2>3 DEF Turns, Exists
<1>3. m \in Nat /\ m <= n /\ ~Exists(m)
  BY <1>1
<1>4. m # 0
  BY <1>2, <1>3
<1>5. m - 1 \in Nat /\ m - 1 < n /\ ~(m <= m - 1) /\ (m - 1) + 1 = m
  BY <1>3, <1>4
<1>6. Exists(m - 1)
  BY <1>1, <1>5
<1>7. Exists(m)
  <2>1. PICK g \in [SUBSET (1 .. m - 1) -> A] : Turns(g, m - 1, a, step)
    BY <1>6 DEF Exists
  <2>2. \E h \in [SUBSET (1 .. (m - 1) + 1) -> A] : Turns(h, (m - 1) + 1, a, step)
    BY <1>5, <2>1, TurnsLonger
  <2> QED
    BY <1>5, <2>2 DEF Exists
<1> QED
  BY <1>3, <1>7

LEMMA LastTurn ==
  ASSUME NEW n \in Nat, NEW i \in 1 .. n
  PROVE  /\ 1 .. i \in SUBSET (1 .. n) /\ 1 .. i # {}
         /\ Max(1 .. i) = i /\ (1 .. i) \ {i} = 1 .. i - 1
<1>1. 1 .. i \in SUBSET (1 .. n) /\ i \in 1 .. i /\ (1 .. i) \ {i} = 1 .. i - 1
  OBVIOUS
<1>2. 1 .. i \subseteq Nat /\ \A k \in 1 .. i : k <= i
  OBVIOUS
<1>3. Max(1 .. i) = i
  BY <1>1, <1>2, MaxIs
<1> QED
  BY <1>1, <1>3

LEMMA TurnInduction ==
  ASSUME NEW n \in Nat, NEW Good, 0 \in Good, \A i \in 1 .. n : i - 1 \in Good => i \in Good
  PROVE  n \in Good
<1> DEFINE T == {i \in Nat : i <= n /\ i \notin Good}
<1> SUFFICES ASSUME n \notin Good
             PROVE  FALSE
  OBVIOUS
<1>1. T \in SUBSET Nat /\ n \in T
  OBVIOUS
<1>2. PICK m \in T : \A k \in T : m <= k
  <2> HIDE DEF T
  <2> QED
    BY <1>1, LeastNat
<1>3. m \in 1 .. n /\ m - 1 \in Nat /\ ~(m <= m - 1)
  BY <1>2
<1> QED
  BY <1>2, <1>3
-----------------------------------------------------------------------------
(* The coordinates that the nested loops have met after i turns.           *)
Met(width, height, i) == {RowMajor(width, height)[j] : j \in 1 .. i}

LEMMA Divided ==
  ASSUME NEW w \in Nat \ {0}, NEW k \in Nat
  PROVE  /\ k % w \in 0 .. w - 1 /\ k \div w \in Nat
         /\ k = (k \div w) * w + (k % w)
<1>1. k % w \in 0 .. w - 1
  OBVIOUS
<1>2. k \div w \in Int /\ k = w * (k \div w) + (k % w)
  OBVIOUS
<1>3. k \div w \in Nat
  OBVIOUS
<1> QED
  BY <1>1, <1>2, <1>3

LEMMA Recombined ==
  ASSUME NEW w \in Nat \ {0}, NEW x \in 0 .. w - 1, NEW y \in Nat
  PROVE  (y * w + x) % w = x /\ (y * w + x) \div w = y
  OBVIOUS

LEMMA Multiples ==
  ASSUME NEW w \in Nat, NEW a \in Nat, NEW b \in Nat, a <= b
  PROVE  a * w \in Nat /\ b * w \in Nat /\ a * w <= b * w
<1>1. PICK d \in Nat : b = a + d
  <2>1. b - a \in Nat /\ b = a + (b - a)
    OBVIOUS
  <2> QED
    BY <2>1
<1>2. b * w = a * w + d * w /\ d * w \in Nat /\ a * w \in Nat
  BY <1>1
<1> QED
  BY <1>2

(* The nested loops meet every coordinate, and meet it once.               *)
LEMMA RowMajorIs ==
  ASSUME NEW w \in Nat, NEW h \in Nat
  PROVE  /\ w * h \in Nat /\ DOMAIN RowMajor(w, h) = 1 .. w * h
         /\ \A i \in 1 .. w * h : RowMajor(w, h)[i] \in (0 .. w - 1) \X (0 .. h - 1)
         /\ \A i, j \in 1 .. w * h : RowMajor(w, h)[i] = RowMajor(w, h)[j] => i = j
         /\ \A c \in (0 .. w - 1) \X (0 .. h - 1) : \E i \in 1 .. w * h : RowMajor(w, h)[i] = c
<1>1. w * h \in Nat /\ w * h = h * w
  OBVIOUS
<1>2. DOMAIN RowMajor(w, h) = 1 .. w * h
  BY DEF RowMajor
<1>3. \A i \in 1 .. w * h : RowMajor(w, h)[i] = <<(i - 1) % w, (i - 1) \div w>>
  BY DEF RowMajor
<1>4. w = 0 => w * h = 0
  OBVIOUS
<1>5. ASSUME NEW i \in 1 .. w * h
      PROVE  /\ i - 1 \in Nat /\ w \in Nat \ {0}
             /\ (i - 1) % w \in 0 .. w - 1 /\ (i - 1) \div w \in 0 .. h - 1
             /\ i - 1 = ((i - 1) \div w) * w + ((i - 1) % w)
  <2>1. i - 1 \in Nat /\ w \in Nat \ {0} /\ i - 1 < h * w
    BY <1>1, <1>4
  <2>2. PICK k : k = i - 1
    OBVIOUS
  <2>3. /\ k % w \in 0 .. w - 1 /\ k \div w \in Nat
        /\ k = (k \div w) * w + (k % w)
    BY <2>1, <2>2, Divided
  <2>4. k \div w < h
    <3>1. SUFFICES ASSUME h <= k \div w
                   PROVE  FALSE
      BY <2>3
    <3>2. h * w \in Nat /\ (k \div w) * w \in Nat /\ h * w <= (k \div w) * w
      BY <2>3, <3>1, Multiples
    <3>3. PICK q : q = (k \div w) * w
      OBVIOUS
    <3>4. PICK r : r = k % w
      OBVIOUS
    <3>5. PICK m : m = h * w
      OBVIOUS
    <3> QED
      BY <2>1, <2>2, <2>3, <3>2, <3>3, <3>4, <3>5
  <2> QED
    BY <2>1, <2>2, <2>3, <2>4
<1>6. \A i \in 1 .. w * h : RowMajor(w, h)[i] \in (0 .. w - 1) \X (0 .. h - 1)
  <2> SUFFICES ASSUME NEW i \in 1 .. w * h
               PROVE  RowMajor(w, h)[i] \in (0 .. w - 1) \X (0 .. h - 1)
    OBVIOUS
  <2>1. (i - 1) % w \in 0 .. w - 1 /\ (i - 1) \div w \in 0 .. h - 1
    BY <1>5
  <2>2. RowMajor(w, h)[i] = <<(i - 1) % w, (i - 1) \div w>>
    BY <1>3
  <2>3. PICK x, y : x = (i - 1) % w /\ y = (i - 1) \div w
    OBVIOUS
  <2> QED
    BY <2>1, <2>2, <2>3
<1>7. ASSUME NEW i \in 1 .. w * h, NEW j \in 1 .. w * h, RowMajor(w, h)[i] = RowMajor(w, h)[j]
      PROVE  i = j
  <2>1. (i - 1) % w = (j - 1) % w /\ (i - 1) \div w = (j - 1) \div w
    BY <1>3, <1>7
  <2>2. i - 1 = j - 1
    BY <1>5, <2>1
  <2> QED
    BY <2>2
<1>8. ASSUME NEW c \in (0 .. w - 1) \X (0 .. h - 1)
      PROVE  \E i \in 1 .. w * h : RowMajor(w, h)[i] = c
  <2>1. PICK x \in 0 .. w - 1, y \in 0 .. h - 1 : c = <<x, y>>
    OBVIOUS
  <2>2. w \in Nat \ {0} /\ y \in Nat /\ y + 1 \in Nat /\ y + 1 <= h
    BY <2>1
  <2>3. y * w \in Nat /\ (y + 1) * w <= h * w /\ (y + 1) * w = y * w + w
    BY <2>2, Multiples
  <2>4. PICK k : k = y * w + x
    OBVIOUS
  <2>5. k \in Nat /\ k + 1 \in 1 .. w * h /\ (k + 1) - 1 = k
    <3>1. PICK q : q = y * w
      OBVIOUS
    <3>2. PICK m : m = w * h
      OBVIOUS
    <3> QED
      BY <1>1, <2>1, <2>2, <2>3, <2>4, <3>1, <3>2
  <2>6. k % w = x /\ k \div w = y
    BY <2>2, <2>4, Recombined
  <2>7. RowMajor(w, h)[k + 1] = <<k % w, k \div w>>
    BY <1>3, <2>5
  <2> QED
    BY <2>1, <2>5, <2>6, <2>7
<1> QED
  BY <1>1, <1>2, <1>6, <1>7, <1>8

LEMMA MetNone ==
  ASSUME NEW w, NEW h
  PROVE  Met(w, h, 0) = {}
  BY DEF Met

LEMMA MetMore ==
  ASSUME NEW w \in Nat, NEW h \in Nat, NEW i \in 1 .. w * h
  PROVE  /\ Met(w, h, i) = Met(w, h, i - 1) \cup {RowMajor(w, h)[i]}
         /\ RowMajor(w, h)[i] \notin Met(w, h, i - 1)
<1>1. w * h \in Nat
  OBVIOUS
<1>2. 1 .. i = (1 .. i - 1) \cup {i} /\ 1 .. i - 1 \subseteq 1 .. w * h /\ i \notin 1 .. i - 1
  BY <1>1
<1>3. \A j \in 1 .. i - 1 : RowMajor(w, h)[j] # RowMajor(w, h)[i]
  BY <1>2, RowMajorIs
<1> QED
  BY <1>2, <1>3 DEF Met

LEMMA MetAll ==
  ASSUME NEW w \in Nat, NEW h \in Nat
  PROVE  Met(w, h, w * h) = (0 .. w - 1) \X (0 .. h - 1)
<1>1. /\ \A i \in 1 .. w * h : RowMajor(w, h)[i] \in (0 .. w - 1) \X (0 .. h - 1)
      /\ \A c \in (0 .. w - 1) \X (0 .. h - 1) : \E i \in 1 .. w * h : RowMajor(w, h)[i] = c
  BY RowMajorIs
<1> QED
  BY <1>1 DEF Met
(* All of this for loops whose size and coordinates have names.            *)
Meets(w, h, n, met) ==
  /\ n \in Nat /\ DOMAIN met = 1 .. n
  /\ \A i \in 1 .. n : met[i] \in (0 .. w - 1) \X (0 .. h - 1)
  /\ Met(w, h, 0) = {} /\ Met(w, h, n) = (0 .. w - 1) \X (0 .. h - 1)
  /\ \A i \in 1 .. n : Met(w, h, i) = Met(w, h, i - 1) \cup {met[i]} /\ met[i] \notin Met(w, h, i - 1)

LEMMA Meeting ==
  ASSUME NEW w \in Nat, NEW h \in Nat, NEW n, n = w * h, NEW met, met = RowMajor(w, h)
  PROVE  Meets(w, h, n, met)
<1>1. /\ n \in Nat /\ DOMAIN met = 1 .. n
      /\ \A i \in 1 .. n : met[i] \in (0 .. w - 1) \X (0 .. h - 1)
  BY RowMajorIs
<1>2. Met(w, h, 0) = {} /\ Met(w, h, n) = (0 .. w - 1) \X (0 .. h - 1)
  BY MetNone, MetAll
<1>3. \A i \in 1 .. n : Met(w, h, i) = Met(w, h, i - 1) \cup {met[i]} /\ met[i] \notin Met(w, h, i - 1)
  BY MetMore
<1> QED
  BY <1>1, <1>2, <1>3 DEF Meets
-----------------------------------------------------------------------------
(* The array, seen through Index.                                          *)
Array == [Positions -> Color]

Shaped ==
  /\ snake \in BOOLEAN /\ helper \in Rotations
  /\ logic_width = LogicWidth(helper) /\ logic_height = LogicHeight(helper)

LEMMA Sizes ==
  ASSUME Shaped
  PROVE  /\ logic_width \in Nat \ {0} /\ logic_height \in Nat \ {0}
         /\ Logical(helper) = (0 .. logic_width - 1) \X (0 .. logic_height - 1)
  BY PanelAssumption DEF Shaped, LogicWidth, LogicHeight, Logical

LEMMA PairIs ==
  ASSUME Shaped, NEW x \in 0 .. logic_width - 1, NEW y \in 0 .. logic_height - 1
  PROVE  \E c \in Logical(helper) : c = <<x, y>> /\ c[1] = x /\ c[2] = y
<1>1. PICK w, h : w = logic_width /\ h = logic_height /\ Logical(helper) = (0 .. w - 1) \X (0 .. h - 1)
  BY Sizes
<1>2. <<x, y>>[1] = x /\ <<x, y>>[2] = y
  OBVIOUS
<1>3. x \in 0 .. w - 1 /\ y \in 0 .. h - 1
  BY <1>1
<1>4. <<x, y>> \in (0 .. w - 1) \X (0 .. h - 1)
  BY <1>3
<1>5. PICK c \in Logical(helper) : c = <<x, y>>
  BY <1>1, <1>4
<1> QED
  BY <1>2, <1>5

LEMMA IndexInside ==
  ASSUME Shaped, NEW c \in Logical(helper)
  PROVE  Index(c[1], c[2]) \in Positions
  BY SnakeLedInside, VectorLedInside DEF Shaped, Logical, Index

LEMMA IndexInjective ==
  ASSUME Shaped, NEW c \in Logical(helper), NEW d \in Logical(helper),
         Index(c[1], c[2]) = Index(d[1], d[2])
  PROVE  c = d
<1>1. /\ c[1] \in 0 .. LogicWidth(helper) - 1 /\ c[2] \in 0 .. LogicHeight(helper) - 1
      /\ d[1] \in 0 .. LogicWidth(helper) - 1 /\ d[2] \in 0 .. LogicHeight(helper) - 1
      /\ helper \in Rotations /\ c = <<c[1], c[2]>> /\ d = <<d[1], d[2]>>
  BY DEF Shaped, Logical
<1>2. c[1] = d[1] /\ c[2] = d[2]
  <2>1. CASE snake
    BY <1>1, <2>1, SnakeLedInjective DEF Index
  <2>2. CASE ~snake
    BY <1>1, <2>2, VectorLedInjective DEF Index
  <2> QED
    BY <2>1, <2>2
<1> QED
  BY <1>1, <1>2

LEMMA IndexOnto ==
  ASSUME Shaped, NEW p \in Positions
  PROVE  \E c \in Logical(helper) : Index(c[1], c[2]) = p
<1>1. PICK x \in 0 .. LogicWidth(helper) - 1, y \in 0 .. LogicHeight(helper) - 1 : Index(x, y) = p
  <2>1. CASE snake
    BY <2>1, SnakeLedOnto DEF Index, Shaped
  <2>2. CASE ~snake
    BY <2>2, VectorLedOnto DEF Index, Shaped
  <2> QED
    BY <2>1, <2>2
<1>2. <<x, y>> \in Logical(helper)
  BY <1>1 DEF Logical
<1> QED
  BY <1>1, <1>2

LEMMA SetIs ==
  ASSUME Shaped, NEW a \in Array, NEW c \in Logical(helper), NEW color
  PROVE  Set(a, c[1], c[2], color) = [a EXCEPT ![Index(c[1], c[2])] = color]
<1>1. PICK p : p = Index(c[1], c[2])
  OBVIOUS
<1>2. p \in Positions
  BY <1>1, IndexInside
<1>3. Set(a, c[1], c[2], color) = [q \in DOMAIN a \cup {p} |-> IF q = p THEN color ELSE a[q]]
  BY <1>1 DEF Set
<1>4. DOMAIN a \cup {p} = Positions
  BY <1>2 DEF Array
<1>5. [a EXCEPT ![p] = color] = [q \in Positions |-> IF q = p THEN color ELSE a[q]]
  BY DEF Array
<1> QED
  BY <1>1, <1>3, <1>4, <1>5

LEMMA SetInside ==
  ASSUME Shaped, NEW a \in Array, NEW c \in Logical(helper), NEW color \in Color
  PROVE  Set(a, c[1], c[2], color) \in Array
<1>1. PICK p : p = Index(c[1], c[2])
  OBVIOUS
<1>2. p \in Positions
  BY <1>1, IndexInside
<1>3. Set(a, c[1], c[2], color) = [a EXCEPT ![p] = color]
  BY <1>1, SetIs
<1>4. [a EXCEPT ![p] = color] \in Array
  BY DEF Array
<1> QED
  BY <1>3, <1>4

LEMMA SetShows ==
  ASSUME Shaped, NEW a \in Array, NEW c \in Logical(helper), NEW color, NEW d \in Logical(helper)
  PROVE  Set(a, c[1], c[2], color)[Index(d[1], d[2])] = IF d = c THEN color ELSE a[Index(d[1], d[2])]
<1>1. PICK p, q : p = Index(c[1], c[2]) /\ q = Index(d[1], d[2])
  OBVIOUS
<1>2. p \in Positions /\ q \in Positions /\ (p = q => c = d)
  BY <1>1, IndexInside, IndexInjective
<1>3. Set(a, c[1], c[2], color) = [a EXCEPT ![p] = color]
  BY <1>1, SetIs
<1> QED
  BY <1>1, <1>2, <1>3 DEF Array

(* Two arrays that show the same at every coordinate are the same.         *)
LEMMA ArraysEqual ==
  ASSUME Shaped, NEW a \in Array, NEW b \in Array,
         \A c \in Logical(helper) : a[Index(c[1], c[2])] = b[Index(c[1], c[2])]
  PROVE  a = b
<1>1. ASSUME NEW p \in Positions
      PROVE  a[p] = b[p]
  BY IndexOnto
<1> QED
  BY <1>1 DEF Array
-----------------------------------------------------------------------------
(* The instance brings its own copies of the operators of StripIndex.      *)
LEMMA PromiseIs ==
  /\ Promise!Panel = (0 .. W - 1) \X (0 .. H - 1)
  /\ \A x, y : Promise!Place(x, y) = <<PhysicalX(helper, x, y), PhysicalY(helper, x, y)>>
  /\ Promise!LogicWidth(helper) = LogicWidth(helper)
  /\ Promise!LogicHeight(helper) = LogicHeight(helper)
  /\ Promise!Logical(helper) = Logical(helper)
  /\ \A p : Promise!Seen(p) = CHOOSE c \in Logical(helper) : Promise!Place(c[1], c[2]) = p
<1>1. \A x, y : Promise!PhysicalX(helper, x, y) = PhysicalX(helper, x, y)
  BY DEF Promise!PhysicalX, PhysicalX, Promise!TurnX, TurnX
<1>2. \A x, y : Promise!PhysicalY(helper, x, y) = PhysicalY(helper, x, y)
  BY DEF Promise!PhysicalY, PhysicalY, Promise!TurnY, TurnY
<1>3. \A x, y : Promise!Place(x, y) = <<PhysicalX(helper, x, y), PhysicalY(helper, x, y)>>
  BY <1>1, <1>2 DEF Promise!Place
<1>4. Promise!LogicWidth(helper) = LogicWidth(helper) /\ Promise!LogicHeight(helper) = LogicHeight(helper)
  BY DEF Promise!LogicWidth, LogicWidth, Promise!LogicHeight, LogicHeight, Promise!QuarterTurn, QuarterTurn
<1>5. Promise!Logical(helper) = Logical(helper)
  BY <1>4 DEF Promise!Logical, Logical
<1>6. \A p : Promise!Seen(p) = CHOOSE c \in Logical(helper) : Promise!Place(c[1], c[2]) = p
  BY <1>5 DEF Promise!Seen
<1> QED
  BY <1>3, <1>4, <1>5, <1>6 DEF Promise!Panel

(* The picture, seen through Canvas.                                       *)
LEMMA Places ==
  ASSUME Shaped, NEW c \in Logical(helper)
  PROVE  /\ Promise!Place(c[1], c[2]) \in Promise!Panel
         /\ Promise!Seen(Promise!Place(c[1], c[2])) = c
         /\ \A a : PictureOf(a)[Promise!Place(c[1], c[2])] = a[Index(c[1], c[2])]
<1>1. /\ c[1] \in 0 .. LogicWidth(helper) - 1 /\ c[2] \in 0 .. LogicHeight(helper) - 1
      /\ helper \in Rotations /\ c = <<c[1], c[2]>>
  BY DEF Shaped, Logical
<1>2. PICK x, y : x = PhysicalX(helper, c[1], c[2]) /\ y = PhysicalY(helper, c[1], c[2])
  OBVIOUS
<1>3. Promise!Place(c[1], c[2]) = <<x, y>> /\ x \in 0 .. W - 1 /\ y \in 0 .. H - 1
  BY <1>1, <1>2, PhysicalOnPanel, PromiseIs
<1>4. <<x, y>> \in Promise!Panel
  BY <1>3 DEF Promise!Panel
<1>5. \A d \in Logical(helper) : Promise!Place(d[1], d[2]) = <<x, y>> => d = c
  <2> SUFFICES ASSUME NEW d \in Logical(helper), Promise!Place(d[1], d[2]) = <<x, y>>
               PROVE  d = c
    OBVIOUS
  <2>1. /\ d[1] \in 0 .. LogicWidth(helper) - 1 /\ d[2] \in 0 .. LogicHeight(helper) - 1
        /\ d = <<d[1], d[2]>>
    BY DEF Logical
  <2>2. PhysicalX(helper, d[1], d[2]) = x /\ PhysicalY(helper, d[1], d[2]) = y
    BY PromiseIs
  <2>3. d[1] = c[1] /\ d[2] = c[2]
    BY <1>1, <1>2, <2>1, <2>2, PhysicalInjective
  <2> QED
    BY <1>1, <2>1, <2>3
<1>6. Promise!Seen(<<x, y>>) = c
  BY <1>3, <1>5, PromiseIs
<1>7. ASSUME NEW a
      PROVE  PictureOf(a)[<<x, y>>] = a[Index(c[1], c[2])]
  BY <1>2, <1>3 DEF PictureOf, Index, SnakeLed, VectorLed
<1> QED
  BY <1>3, <1>4, <1>6, <1>7

LEMMA SeenIs ==
  ASSUME Shaped, NEW p \in Promise!Panel
  PROVE  /\ Promise!Seen(p) \in Logical(helper)
         /\ Promise!Place(Promise!Seen(p)[1], Promise!Seen(p)[2]) = p
         /\ \A a : PictureOf(a)[p] = a[Index(Promise!Seen(p)[1], Promise!Seen(p)[2])]
<1>1. PICK px \in 0 .. W - 1, py \in 0 .. H - 1 : p = <<px, py>>
  BY DEF Promise!Panel
<1>2. PICK x \in 0 .. LogicWidth(helper) - 1, y \in 0 .. LogicHeight(helper) - 1 :
        PhysicalX(helper, x, y) = px /\ PhysicalY(helper, x, y) = py
  BY PhysicalOnto DEF Shaped
<1>3. PICK c \in Logical(helper) : Promise!Place(c[1], c[2]) = p
  <2>1. <<x, y>> \in Logical(helper) /\ Promise!Place(x, y) = p
    BY <1>1, <1>2, PromiseIs DEF Logical
  <2> QED
    BY <2>1
<1>4. Promise!Seen(p) = c
  BY <1>3, Places
<1> QED
  BY <1>3, <1>4, Places

LEMMA PictureAt ==
  ASSUME Shaped, NEW a, NEW picture, picture = [p \in Promise!Panel |-> picture[p]],
         \A c \in Logical(helper) :
           a[Index(c[1], c[2])] = picture[Promise!Place(c[1], c[2])]
  PROVE  PictureOf(a) = picture
<1>1. PictureOf(a) = [p \in Promise!Panel |-> PictureOf(a)[p]]
  BY DEF PictureOf, Promise!Panel
<1>2. \A p \in Promise!Panel : PictureOf(a)[p] = picture[p]
  BY SeenIs
<1> QED
  BY <1>1, <1>2
-----------------------------------------------------------------------------
(* The loop of clear(): the arrays it goes through, one for each turn.     *)
LEMMA ClearedLoop ==
  ASSUME Shaped, NEW array \in Array, back \in Color, NEW n, n = logic_width * logic_height,
         NEW met, met = RowMajor(logic_width, logic_height)
  PROVE  \E it : /\ it[0] = array /\ it[n] = Cleared(array)
                 /\ \A i \in 1 .. n : it[i] = Set(it[i - 1], met[i][1], met[i][2], back)
<1>1. /\ n \in Nat /\ DOMAIN met = 1 .. n
      /\ \A i \in 1 .. n : met[i] \in Logical(helper)
  BY Sizes, RowMajorIs
<1> DEFINE op(b, i) == Set(b, met[i][1], met[i][2], back)
           step == [bi \in Array \X (1 .. n) |-> op(bi[1], bi[2])]
           Right(f) == f = [s \in SUBSET (DOMAIN met) |->
                              IF s = {} THEN array ELSE op(f[s \ {Max(s)}], Max(s))]
           F == CHOOSE f : Right(f)
<1>2. Cleared(array) = F[1 .. n]
  <2>1. Cleared(array) = F[DOMAIN met]
    BY DEF Cleared, FoldLeft, MapThenFoldSet
  <2> HIDE DEF F
  <2> QED
    BY <1>1, <2>1
<1>3. \A b \in Array, i \in 1 .. n : op(b, i) \in Array
  BY <1>1, SetInside
<1> HIDE DEF op
<1>4. step \in [Array \X (1 .. n) -> Array] /\ \A b \in Array, i \in 1 .. n : step[<<b, i>>] = op(b, i)
  BY <1>3
<1> HIDE DEF step
<1>5. PICK g \in [SUBSET (1 .. n) -> Array] : Turns(g, n, array, step)
  BY <1>1, <1>4, TurnsExist
<1>6. Right(g)
  <2>1. \A s \in SUBSET (1 .. n) : s # {} => step[<<g[s \ {Max(s)}], Max(s)>>] = op(g[s \ {Max(s)}], Max(s))
    <3> SUFFICES ASSUME NEW s \in SUBSET (1 .. n), s # {}
                 PROVE  step[<<g[s \ {Max(s)}], Max(s)>>] = op(g[s \ {Max(s)}], Max(s))
      OBVIOUS
    <3>1. Max(s) \in 1 .. n /\ s \ {Max(s)} \in SUBSET (1 .. n)
      BY <1>1, MaxInside
    <3>2. g[s \ {Max(s)}] \in Array
      BY <3>1, <1>5
    <3> QED
      BY <3>1, <3>2, <1>4
  <2> QED
    BY <1>1, <1>5, <2>1 DEF Turns
<1>7. Right(F)
  <2> HIDE DEF Right
  <2> QED
    BY <1>6
<1> HIDE DEF F
<1>8. F[{}] = array
  BY <1>7
<1>9. ASSUME NEW i \in 1 .. n
      PROVE  F[1 .. i] = op(F[1 .. i - 1], i)
  <2>0. n \in Nat
    BY <1>1
  <2>1. 1 .. i \in SUBSET (1 .. n) /\ 1 .. i # {} /\ Max(1 .. i) = i /\ (1 .. i) \ {i} = 1 .. i - 1
    BY <2>0, LastTurn
  <2> QED
    BY <1>1, <1>7, <2>1
<1> DEFINE it == [i \in 0 .. n |-> F[1 .. i]]
<1>10. it[0] = array /\ it[n] = Cleared(array)
  <2>1. 1 .. 0 = {} /\ 0 \in 0 .. n /\ n \in 0 .. n
    BY <1>1
  <2> QED
    BY <1>2, <1>8, <2>1
<1>11. ASSUME NEW i \in 1 .. n
       PROVE  it[i] = Set(it[i - 1], met[i][1], met[i][2], back)
  <2>1. i \in 0 .. n /\ i - 1 \in 0 .. n
    BY <1>1
  <2> QED
    BY <1>9, <2>1 DEF op
<1> QED
  BY <1>10, <1>11
(* The loop of draw(): a cell of the source lands at the offset, mirrored  *)
(* as asked, unless it is skipped.                                         *)
LandX(s, o, c, flip_x) == o[1] + (IF flip_x THEN s.width - c[1] - 1 ELSE c[1])

LandY(s, o, c, flip_y) == o[2] + (IF flip_y THEN s.height - c[2] - 1 ELSE c[2])

Skipped(s, o, c, flip_x, flip_y) ==
  \/ LandY(s, o, c, flip_y) >= logic_height
  \/ LandX(s, o, c, flip_x) >= logic_width
  \/ transparent /\ s.led[c] = back

DrawCell(a, s, o, c, flip_x, flip_y) ==
  IF Skipped(s, o, c, flip_x, flip_y) THEN a
  ELSE Set(a, LandX(s, o, c, flip_x), LandY(s, o, c, flip_y), s.led[c])

LEMMA SourceIs ==
  ASSUME NEW s \in Sources, NEW o \in Offsets
  PROVE  /\ s.width \in Nat /\ s.height \in Nat
         /\ s.led \in [(0 .. s.width - 1) \X (0 .. s.height - 1) -> Color]
         /\ o[1] \in Nat /\ o[2] \in Nat
  BY DeviceAssumption

LEMMA LandsInside ==
  ASSUME NEW s \in Sources, NEW o \in Offsets, NEW flip_x \in BOOLEAN, NEW flip_y \in BOOLEAN,
         NEW c \in (0 .. s.width - 1) \X (0 .. s.height - 1)
  PROVE  /\ LandX(s, o, c, flip_x) \in Nat
         /\ LandY(s, o, c, flip_y) \in Nat
<1>1. PICK w, h : w = s.width /\ h = s.height
  OBVIOUS
<1>2. w \in Nat /\ h \in Nat /\ c[1] \in 0 .. w - 1 /\ c[2] \in 0 .. h - 1 /\ o[1] \in Nat /\ o[2] \in Nat
  BY <1>1, SourceIs
<1> QED
  BY <1>1, <1>2 DEF LandX, LandY

(* What is not skipped lands on a logical coordinate.                      *)
LEMMA DrawCellInside ==
  ASSUME Shaped, NEW a \in Array, NEW s \in Sources, NEW o \in Offsets,
         NEW flip_x \in BOOLEAN, NEW flip_y \in BOOLEAN,
         NEW c \in (0 .. s.width - 1) \X (0 .. s.height - 1)
  PROVE  /\ DrawCell(a, s, o, c, flip_x, flip_y) \in Array
         /\ \A d \in Logical(helper) :
              DrawCell(a, s, o, c, flip_x, flip_y)[Index(d[1], d[2])]
                = IF d = <<LandX(s, o, c, flip_x), LandY(s, o, c, flip_y)>> /\ ~(transparent /\ s.led[c] = back)
                  THEN s.led[c] ELSE a[Index(d[1], d[2])]
<1>1. PICK x \in Nat, y \in Nat : x = LandX(s, o, c, flip_x) /\ y = LandY(s, o, c, flip_y)
  BY LandsInside
<1>2. s.led[c] \in Color
  BY SourceIs
<1>3. <<x, y>> \in Logical(helper) <=> ~(y >= logic_height \/ x >= logic_width)
  BY Sizes
<1>4. CASE Skipped(s, o, c, flip_x, flip_y)
  <2>1. <<x, y>> \notin Logical(helper) \/ (transparent /\ s.led[c] = back)
    BY <1>1, <1>3, <1>4 DEF Skipped
  <2> QED
    BY <1>1, <1>4, <2>1 DEF DrawCell
<1>5. CASE ~Skipped(s, o, c, flip_x, flip_y)
  <2>1. <<x, y>> \in Logical(helper) /\ ~(transparent /\ s.led[c] = back)
    BY <1>1, <1>3, <1>5 DEF Skipped
  <2>2. DrawCell(a, s, o, c, flip_x, flip_y) = Set(a, x, y, s.led[c])
    BY <1>1, <1>5 DEF DrawCell
  <2>3. /\ Set(a, x, y, s.led[c]) \in Array
        /\ \A d \in Logical(helper) :
             Set(a, x, y, s.led[c])[Index(d[1], d[2])] = IF d = <<x, y>> THEN s.led[c] ELSE a[Index(d[1], d[2])]
    <3>1. PICK at, color : at = <<x, y>> /\ color = s.led[c]
      OBVIOUS
    <3>2. at \in Logical(helper) /\ color \in Color /\ at[1] = x /\ at[2] = y
      BY <1>2, <2>1, <3>1
    <3>3. /\ Set(a, at[1], at[2], color) \in Array
          /\ \A d \in Logical(helper) :
               Set(a, at[1], at[2], color)[Index(d[1], d[2])] = IF d = at THEN color ELSE a[Index(d[1], d[2])]
      <4>1. Set(a, at[1], at[2], color) \in Array
        BY <3>2, SetInside
      <4>2. ASSUME NEW d \in Logical(helper)
            PROVE  Set(a, at[1], at[2], color)[Index(d[1], d[2])] = IF d = at THEN color ELSE a[Index(d[1], d[2])]
        BY <3>2, SetShows
      <4> QED
        BY <4>1, <4>2
    <3> QED
      BY <3>1, <3>2, <3>3
  <2> QED
    BY <1>1, <2>1, <2>2, <2>3
<1> QED
  BY <1>4, <1>5

LEMMA DrawnLoop ==
  ASSUME Shaped, NEW array \in Array, NEW s \in Sources, NEW o \in Offsets,
         NEW flip_x \in BOOLEAN, NEW flip_y \in BOOLEAN,
         NEW n, n = s.width * s.height, NEW met, met = RowMajor(s.width, s.height)
  PROVE  \E it : /\ it[0] = array /\ it[n] = Drawn(array, s, o[1], o[2], flip_x, flip_y)
                 /\ \A i \in 1 .. n : it[i] = DrawCell(it[i - 1], s, o, met[i], flip_x, flip_y)
<1>1. /\ n \in Nat /\ DOMAIN met = 1 .. n
      /\ \A i \in 1 .. n : met[i] \in (0 .. s.width - 1) \X (0 .. s.height - 1)
  BY SourceIs, RowMajorIs
<1> DEFINE op(b, i) == DrawCell(b, s, o, met[i], flip_x, flip_y)
           step == [bi \in Array \X (1 .. n) |-> op(bi[1], bi[2])]
           Right(f) == f = [t \in SUBSET (DOMAIN met) |->
                              IF t = {} THEN array ELSE op(f[t \ {Max(t)}], Max(t))]
           F == CHOOSE f : Right(f)
<1>2. Drawn(array, s, o[1], o[2], flip_x, flip_y) = F[1 .. n]
  <2>1. Drawn(array, s, o[1], o[2], flip_x, flip_y) = F[DOMAIN met]
    BY DEF Drawn, FoldLeft, MapThenFoldSet, DrawCell, Skipped, LandX, LandY
  <2> HIDE DEF F
  <2> QED
    BY <1>1, <2>1
<1>3. \A b \in Array, i \in 1 .. n : op(b, i) \in Array
  BY <1>1, DrawCellInside
<1> HIDE DEF op
<1>4. step \in [Array \X (1 .. n) -> Array] /\ \A b \in Array, i \in 1 .. n : step[<<b, i>>] = op(b, i)
  BY <1>3
<1> HIDE DEF step
<1>5. PICK g \in [SUBSET (1 .. n) -> Array] : Turns(g, n, array, step)
  BY <1>1, <1>4, TurnsExist
<1>6. Right(g)
  <2>1. \A t \in SUBSET (1 .. n) : t # {} => step[<<g[t \ {Max(t)}], Max(t)>>] = op(g[t \ {Max(t)}], Max(t))
    <3> SUFFICES ASSUME NEW t \in SUBSET (1 .. n), t # {}
                 PROVE  step[<<g[t \ {Max(t)}], Max(t)>>] = op(g[t \ {Max(t)}], Max(t))
      OBVIOUS
    <3>1. Max(t) \in 1 .. n /\ t \ {Max(t)} \in SUBSET (1 .. n)
      BY <1>1, MaxInside
    <3>2. g[t \ {Max(t)}] \in Array
      BY <3>1, <1>5
    <3> QED
      BY <3>1, <3>2, <1>4
  <2> QED
    BY <1>1, <1>5, <2>1 DEF Turns
<1>7. Right(F)
  <2> HIDE DEF Right
  <2> QED
    BY <1>6
<1> HIDE DEF F
<1>8. F[{}] = array
  BY <1>7
<1>9. ASSUME NEW i \in 1 .. n
      PROVE  F[1 .. i] = op(F[1 .. i - 1], i)
  <2>0. n \in Nat
    BY <1>1
  <2>1. 1 .. i \in SUBSET (1 .. n) /\ 1 .. i # {} /\ Max(1 .. i) = i /\ (1 .. i) \ {i} = 1 .. i - 1
    BY <2>0, LastTurn
  <2> QED
    BY <1>1, <1>7, <2>1
<1> DEFINE it == [i \in 0 .. n |-> F[1 .. i]]
<1>10. it[0] = array /\ it[n] = Drawn(array, s, o[1], o[2], flip_x, flip_y)
  <2>1. 1 .. 0 = {} /\ 0 \in 0 .. n /\ n \in 0 .. n
    BY <1>1
  <2> QED
    BY <1>2, <1>8, <2>1
<1>11. ASSUME NEW i \in 1 .. n
       PROVE  it[i] = DrawCell(it[i - 1], s, o, met[i], flip_x, flip_y)
  <2>1. i \in 0 .. n /\ i - 1 \in 0 .. n
    BY <1>1
  <2> QED
    BY <1>9, <2>1 DEF op
<1> QED
  BY <1>10, <1>11
(* The loop of flip(): the coordinate it meets and its partner exchange    *)
(* their colours.                                                          *)
PartnerX(c, flip_x) == IF flip_x THEN logic_width - c[1] - 1 ELSE c[1]

PartnerY(c, flip_y) == IF flip_y THEN logic_height - c[2] - 1 ELSE c[2]

FlipCell(a, c, flip_x, flip_y) ==
  Set(Set(a, c[1], c[2], a[Index(PartnerX(c, flip_x), PartnerY(c, flip_y))]),
      PartnerX(c, flip_x), PartnerY(c, flip_y), a[Index(c[1], c[2])])

Partner(c, flip_x, flip_y) == <<PartnerX(c, flip_x), PartnerY(c, flip_y)>>

(* The partner of the partner is the coordinate itself.                    *)
LEMMA PartnerIs ==
  ASSUME Shaped, NEW c \in Logical(helper), NEW flip_x \in BOOLEAN, NEW flip_y \in BOOLEAN
  PROVE  /\ Partner(c, flip_x, flip_y) \in Logical(helper)
         /\ Partner(Partner(c, flip_x, flip_y), flip_x, flip_y) = c
<1>1. PICK x \in 0 .. logic_width - 1, y \in 0 .. logic_height - 1 : c = <<x, y>>
  BY Sizes
<1>2. PICK px, py : px = PartnerX(c, flip_x) /\ py = PartnerY(c, flip_y)
  OBVIOUS
<1>3. px \in 0 .. logic_width - 1 /\ py \in 0 .. logic_height - 1
  BY <1>1, <1>2, Sizes DEF PartnerX, PartnerY
<1>4. PartnerX(<<px, py>>, flip_x) = x /\ PartnerY(<<px, py>>, flip_y) = y
  BY <1>1, <1>2, Sizes DEF PartnerX, PartnerY
<1> QED
  BY <1>1, <1>2, <1>3, <1>4, Sizes DEF Partner

LEMMA FlipCellInside ==
  ASSUME Shaped, NEW a \in Array, NEW c \in Logical(helper), NEW flip_x \in BOOLEAN, NEW flip_y \in BOOLEAN,
         NEW m, m = Partner(c, flip_x, flip_y)
  PROVE  /\ FlipCell(a, c, flip_x, flip_y) \in Array
         /\ \A d \in Logical(helper) :
              FlipCell(a, c, flip_x, flip_y)[Index(d[1], d[2])]
                = IF d = m THEN a[Index(c[1], c[2])]
                  ELSE IF d = c THEN a[Index(m[1], m[2])] ELSE a[Index(d[1], d[2])]
<1>1. m \in Logical(helper) /\ m[1] = PartnerX(c, flip_x) /\ m[2] = PartnerY(c, flip_y)
  BY PartnerIs DEF Partner
<1>2. PICK here, there : here = a[Index(c[1], c[2])] /\ there = a[Index(m[1], m[2])]
  OBVIOUS
<1>3. here \in Color /\ there \in Color
  BY <1>1, <1>2, IndexInside DEF Array
<1>4. PICK b : b = Set(a, c[1], c[2], there)
  OBVIOUS
<1>5. /\ b \in Array
      /\ \A d \in Logical(helper) : b[Index(d[1], d[2])] = IF d = c THEN there ELSE a[Index(d[1], d[2])]
  <2>1. b \in Array
    BY <1>3, <1>4, SetInside
  <2>2. ASSUME NEW d \in Logical(helper)
        PROVE  b[Index(d[1], d[2])] = IF d = c THEN there ELSE a[Index(d[1], d[2])]
    BY <1>4, SetShows
  <2> QED
    BY <2>1, <2>2
<1>6. /\ Set(b, m[1], m[2], here) \in Array
      /\ \A d \in Logical(helper) :
           Set(b, m[1], m[2], here)[Index(d[1], d[2])] = IF d = m THEN here ELSE b[Index(d[1], d[2])]
  <2>1. Set(b, m[1], m[2], here) \in Array
    BY <1>1, <1>3, <1>5, SetInside
  <2>2. ASSUME NEW d \in Logical(helper)
        PROVE  Set(b, m[1], m[2], here)[Index(d[1], d[2])] = IF d = m THEN here ELSE b[Index(d[1], d[2])]
    BY <1>1, <1>5, SetShows
  <2> QED
    BY <2>1, <2>2
<1>7. FlipCell(a, c, flip_x, flip_y) = Set(b, m[1], m[2], here)
  BY <1>1, <1>2, <1>4 DEF FlipCell
<1> QED
  BY <1>2, <1>5, <1>6, <1>7

LEMMA FlippedLoop ==
  ASSUME Shaped, NEW array \in Array, NEW flip_x \in BOOLEAN, NEW flip_y \in BOOLEAN,
         NEW n, n = (logic_width \div 2) * logic_height, NEW met, met = RowMajor(logic_width \div 2, logic_height)
  PROVE  \E it : /\ it[0] = array /\ it[n] = Flipped(array, flip_x, flip_y)
                 /\ \A i \in 1 .. n : it[i] = FlipCell(it[i - 1], met[i], flip_x, flip_y)
<1>1. /\ n \in Nat /\ DOMAIN met = 1 .. n
      /\ \A i \in 1 .. n : met[i] \in Logical(helper)
  <2>1. PICK half \in Nat : half = logic_width \div 2 /\ half <= logic_width
    BY Sizes
  <2>2. \A c \in (0 .. half - 1) \X (0 .. logic_height - 1) : c \in Logical(helper)
    BY <2>1, Sizes
  <2> QED
    BY <2>1, <2>2, Sizes, RowMajorIs
<1> DEFINE op(b, i) == FlipCell(b, met[i], flip_x, flip_y)
           step == [bi \in Array \X (1 .. n) |-> op(bi[1], bi[2])]
           Right(f) == f = [s \in SUBSET (DOMAIN met) |->
                              IF s = {} THEN array ELSE op(f[s \ {Max(s)}], Max(s))]
           F == CHOOSE f : Right(f)
<1>2. Flipped(array, flip_x, flip_y) = F[1 .. n]
  <2>1. Flipped(array, flip_x, flip_y) = F[DOMAIN met]
    BY DEF Flipped, FoldLeft, MapThenFoldSet, FlipCell, PartnerX, PartnerY
  <2> HIDE DEF F
  <2> QED
    BY <1>1, <2>1
<1>3. \A b \in Array, i \in 1 .. n : op(b, i) \in Array
  BY <1>1, FlipCellInside
<1> HIDE DEF op
<1>4. step \in [Array \X (1 .. n) -> Array] /\ \A b \in Array, i \in 1 .. n : step[<<b, i>>] = op(b, i)
  BY <1>3
<1> HIDE DEF step
<1>5. PICK g \in [SUBSET (1 .. n) -> Array] : Turns(g, n, array, step)
  BY <1>1, <1>4, TurnsExist
<1>6. Right(g)
  <2>1. \A s \in SUBSET (1 .. n) : s # {} => step[<<g[s \ {Max(s)}], Max(s)>>] = op(g[s \ {Max(s)}], Max(s))
    <3> SUFFICES ASSUME NEW s \in SUBSET (1 .. n), s # {}
                 PROVE  step[<<g[s \ {Max(s)}], Max(s)>>] = op(g[s \ {Max(s)}], Max(s))
      OBVIOUS
    <3>1. Max(s) \in 1 .. n /\ s \ {Max(s)} \in SUBSET (1 .. n)
      BY <1>1, MaxInside
    <3>2. g[s \ {Max(s)}] \in Array
      BY <3>1, <1>5
    <3> QED
      BY <3>1, <3>2, <1>4
  <2> QED
    BY <1>1, <1>5, <2>1 DEF Turns
<1>7. Right(F)
  <2> HIDE DEF Right
  <2> QED
    BY <1>6
<1> HIDE DEF F
<1>8. F[{}] = array
  BY <1>7
<1>9. ASSUME NEW i \in 1 .. n
      PROVE  F[1 .. i] = op(F[1 .. i - 1], i)
  <2>0. n \in Nat
    BY <1>1
  <2>1. 1 .. i \in SUBSET (1 .. n) /\ 1 .. i # {} /\ Max(1 .. i) = i /\ (1 .. i) \ {i} = 1 .. i - 1
    BY <2>0, LastTurn
  <2> QED
    BY <1>1, <1>7, <2>1
<1> DEFINE it == [i \in 0 .. n |-> F[1 .. i]]
<1>10. it[0] = array /\ it[n] = Flipped(array, flip_x, flip_y)
  <2>1. 1 .. 0 = {} /\ 0 \in 0 .. n /\ n \in 0 .. n
    BY <1>1
  <2> QED
    BY <1>2, <1>8, <2>1
<1>11. ASSUME NEW i \in 1 .. n
       PROVE  it[i] = FlipCell(it[i - 1], met[i], flip_x, flip_y)
  <2>1. i \in 0 .. n /\ i - 1 \in 0 .. n
    BY <1>1
  <2> QED
    BY <1>9, <2>1 DEF op
<1> QED
  BY <1>10, <1>11
-----------------------------------------------------------------------------
(* clear(): every coordinate shows the background.                         *)
LEMMA ClearedIs ==
  ASSUME Shaped, NEW array \in Array, back \in Color
  PROVE  /\ Cleared(array) \in Array
         /\ \A c \in Logical(helper) : Cleared(array)[Index(c[1], c[2])] = back
<1>1. PICK w, h, n, met :
        /\ w \in Nat /\ h \in Nat /\ n \in Nat
        /\ w = logic_width /\ h = logic_height /\ n = w * h /\ met = RowMajor(w, h)
        /\ Logical(helper) = (0 .. w - 1) \X (0 .. h - 1)
  BY Sizes
<1>t. Meets(w, h, n, met)
  BY <1>1, Meeting
<1>2. PICK it : /\ it[0] = array /\ it[n] = Cleared(array)
                /\ \A i \in 1 .. n : it[i] = Set(it[i - 1], met[i][1], met[i][2], back)
  BY <1>1, ClearedLoop
<1>3. \A i \in 1 .. n : met[i] \in Logical(helper)
  BY <1>1, <1>t DEF Meets
<1> DEFINE Good == {i \in 0 .. n : /\ it[i] \in Array
                                   /\ \A c \in Met(w, h, i) \cap Logical(helper) : it[i][Index(c[1], c[2])] = back}
<1>4. 0 \in Good
  BY <1>2, <1>t DEF Meets
<1>5. ASSUME NEW i \in 1 .. n, i - 1 \in Good
      PROVE  i \in Good
  <2>1. PICK a, m : a = it[i - 1] /\ m = met[i]
    OBVIOUS
  <2>2. a \in Array /\ m \in Logical(helper) /\ it[i] = Set(a, m[1], m[2], back)
    BY <1>2, <1>3, <1>5, <2>1
  <2>3. \A c \in Met(w, h, i - 1) \cap Logical(helper) : a[Index(c[1], c[2])] = back
    BY <1>5, <2>1
  <2>4. it[i] \in Array
    BY <2>2, SetInside
  <2>5. ASSUME NEW c \in Met(w, h, i) \cap Logical(helper)
        PROVE  it[i][Index(c[1], c[2])] = back
    <3>0. Met(w, h, i) = Met(w, h, i - 1) \cup {m}
      BY <1>t, <2>1 DEF Meets
    <3>1. c = m \/ c \in Met(w, h, i - 1)
      BY <3>0
    <3>2. it[i][Index(c[1], c[2])] = IF c = m THEN back ELSE a[Index(c[1], c[2])]
      BY <2>2, SetShows
    <3> QED
      BY <2>3, <3>1, <3>2
  <2> QED
    BY <2>4, <2>5
<1>6. n \in Good
  <2> HIDE DEF Good
  <2>1. n \in Nat
    BY <1>1
  <2> QED
    BY <1>4, <1>5, <2>1, TurnInduction
<1> QED
  BY <1>1, <1>2, <1>6, <1>t DEF Meets

LEMMA ClearedPaints ==
  ASSUME Shaped, leds \in Array, back \in Color
  PROVE  PictureOf(Cleared(leds)) = Promise!Wiped
<1>1. \A c \in Logical(helper) : Cleared(leds)[Index(c[1], c[2])] = Promise!Wiped[Promise!Place(c[1], c[2])]
  BY ClearedIs, Places DEF Promise!Wiped
<1> QED
  BY <1>1, PictureAt DEF Promise!Wiped
-----------------------------------------------------------------------------
(* draw(): the cell of the source that a coordinate gets, if there is one. *)
CellAt(s, o, c, flip_x, flip_y) ==
  <<IF flip_x THEN s.width - 1 - (c[1] - o[1]) ELSE c[1] - o[1],
    IF flip_y THEN s.height - 1 - (c[2] - o[2]) ELSE c[2] - o[2]>>

LEMMA CellLands ==
  ASSUME Shaped, NEW s \in Sources, NEW o \in Offsets, NEW flip_x \in BOOLEAN, NEW flip_y \in BOOLEAN,
         NEW d \in (0 .. s.width - 1) \X (0 .. s.height - 1), NEW c \in Logical(helper)
  PROVE  c = <<LandX(s, o, d, flip_x), LandY(s, o, d, flip_y)>> <=> CellAt(s, o, c, flip_x, flip_y) = d
<1>1. PICK x \in Nat, y \in Nat : c = <<x, y>>
  BY Sizes
<1>2. PICK w \in Nat, h \in Nat, ox \in Nat, oy \in Nat : w = s.width /\ h = s.height /\ ox = o[1] /\ oy = o[2]
  BY SourceIs
<1>3. PICK dx \in 0 .. w - 1, dy \in 0 .. h - 1 : d = <<dx, dy>>
  BY <1>2
<1>4. x = LandX(s, o, d, flip_x) <=> CellAt(s, o, c, flip_x, flip_y)[1] = dx
  BY <1>1, <1>2, <1>3 DEF LandX, CellAt
<1>5. y = LandY(s, o, d, flip_y) <=> CellAt(s, o, c, flip_x, flip_y)[2] = dy
  BY <1>1, <1>2, <1>3 DEF LandY, CellAt
<1>6. PICK ex, ey : CellAt(s, o, c, flip_x, flip_y) = <<ex, ey>>
  BY DEF CellAt
<1> QED
  BY <1>1, <1>3, <1>4, <1>5, <1>6

LEMMA DrawnIs ==
  ASSUME Shaped, NEW array \in Array, NEW s \in Sources, NEW o \in Offsets,
         NEW flip_x \in BOOLEAN, NEW flip_y \in BOOLEAN
  PROVE  /\ Drawn(array, s, o[1], o[2], flip_x, flip_y) \in Array
         /\ \A c \in Logical(helper) :
              LET cell == CellAt(s, o, c, flip_x, flip_y)
              IN  Drawn(array, s, o[1], o[2], flip_x, flip_y)[Index(c[1], c[2])]
                    = IF cell \in (0 .. s.width - 1) \X (0 .. s.height - 1) /\ ~(transparent /\ s.led[cell] = back)
                      THEN s.led[cell] ELSE array[Index(c[1], c[2])]
<1>1. PICK w, h, n, met :
        /\ w \in Nat /\ h \in Nat /\ n \in Nat
        /\ w = s.width /\ h = s.height
        /\ n = w * h /\ met = RowMajor(w, h)
  <2>1. PICK w \in Nat, h \in Nat : w = s.width /\ h = s.height
    BY SourceIs
  <2>2. w * h \in Nat
    OBVIOUS
  <2> QED
    BY <2>1, <2>2
<1>t. Meets(w, h, n, met)
  BY <1>1, Meeting
<1>2. PICK it : /\ it[0] = array /\ it[n] = Drawn(array, s, o[1], o[2], flip_x, flip_y)
                /\ \A i \in 1 .. n : it[i] = DrawCell(it[i - 1], s, o, met[i], flip_x, flip_y)
  BY <1>1, DrawnLoop
<1>3. \A i \in 1 .. n : met[i] \in (0 .. w - 1) \X (0 .. h - 1)
  BY <1>1, <1>t DEF Meets
<1> DEFINE Cell(c) == CellAt(s, o, c, flip_x, flip_y)
           Hidden(d) == transparent /\ s.led[d] = back
           Value(c, seen) == IF Cell(c) \in seen /\ ~Hidden(Cell(c)) THEN s.led[Cell(c)] ELSE array[Index(c[1], c[2])]
           Good == {i \in 0 .. n : /\ it[i] \in Array
                                   /\ \A c \in Logical(helper) : it[i][Index(c[1], c[2])] = Value(c, Met(w, h, i))}
<1>4. 0 \in Good
  BY <1>2, <1>t DEF Meets
<1>5. ASSUME NEW i \in 1 .. n, i - 1 \in Good
      PROVE  i \in Good
  <2>1. PICK a, d : a = it[i - 1] /\ d = met[i]
    OBVIOUS
  <2>2. /\ a \in Array /\ d \in (0 .. s.width - 1) \X (0 .. s.height - 1)
        /\ it[i] = DrawCell(a, s, o, d, flip_x, flip_y)
    BY <1>1, <1>2, <1>3, <1>5, <2>1
  <2>3. \A c \in Logical(helper) : a[Index(c[1], c[2])] = Value(c, Met(w, h, i - 1))
    BY <1>5, <2>1
  <2>4. it[i] \in Array
    BY <2>2, DrawCellInside
  <2>5. ASSUME NEW c \in Logical(helper)
        PROVE  it[i][Index(c[1], c[2])] = Value(c, Met(w, h, i))
    <3>1. Met(w, h, i) = Met(w, h, i - 1) \cup {d}
      BY <1>t, <2>1 DEF Meets
    <3>2. it[i][Index(c[1], c[2])]
            = IF c = <<LandX(s, o, d, flip_x), LandY(s, o, d, flip_y)>> /\ ~Hidden(d)
              THEN s.led[d] ELSE a[Index(c[1], c[2])]
      BY <2>2, DrawCellInside
    <3>3. c = <<LandX(s, o, d, flip_x), LandY(s, o, d, flip_y)>> <=> Cell(c) = d
      BY <2>2, CellLands
    <3>4. a[Index(c[1], c[2])] = Value(c, Met(w, h, i - 1))
      BY <2>3
    <3> HIDE DEF Cell, Hidden
    <3>5. CASE Cell(c) = d /\ ~Hidden(d)
      BY <3>1, <3>2, <3>3, <3>5
    <3>6. CASE Cell(c) = d /\ Hidden(d)
      BY <3>1, <3>2, <3>4, <3>6
    <3>7. CASE Cell(c) # d
      BY <3>1, <3>2, <3>3, <3>4, <3>7
    <3> QED
      BY <3>5, <3>6, <3>7
  <2> QED
    BY <2>4, <2>5
<1>6. n \in Good
  <2> HIDE DEF Good
  <2>1. n \in Nat
    BY <1>1
  <2> QED
    BY <1>4, <1>5, <2>1, TurnInduction
<1>7. Met(w, h, n) = (0 .. s.width - 1) \X (0 .. s.height - 1)
  BY <1>1, <1>t DEF Meets
<1> QED
  BY <1>2, <1>6, <1>7

LEMMA DrawnPaints ==
  ASSUME Shaped, leds \in Array, NEW s \in Sources, NEW o \in Offsets,
         NEW flip_x \in BOOLEAN, NEW flip_y \in BOOLEAN
  PROVE  PictureOf(Drawn(leds, s, o[1], o[2], flip_x, flip_y)) = Promise!Covered(s, o, flip_x, flip_y)
<1> DEFINE covered == Promise!Covered(s, o, flip_x, flip_y)
<1>1. covered = [p \in Promise!Panel |-> covered[p]]
  BY DEF Promise!Covered
<1>2. ASSUME NEW c \in Logical(helper)
      PROVE  Drawn(leds, s, o[1], o[2], flip_x, flip_y)[Index(c[1], c[2])] = covered[Promise!Place(c[1], c[2])]
  <2>1. PICK p \in Promise!Panel : p = Promise!Place(c[1], c[2]) /\ Promise!Seen(p) = c
    BY Places
  <2>2. PictureOf(leds)[p] = leds[Index(c[1], c[2])]
    BY <2>1, Places
  <2>3. PICK cell : cell = CellAt(s, o, c, flip_x, flip_y)
    OBVIOUS
  <2>4. covered[p] = IF cell \in DOMAIN s.led /\ ~(transparent /\ s.led[cell] = back)
                     THEN s.led[cell] ELSE PictureOf(leds)[p]
    BY <2>1, <2>3 DEF Promise!Covered, CellAt
  <2>5. DOMAIN s.led = (0 .. s.width - 1) \X (0 .. s.height - 1)
    BY SourceIs
  <2>6. Drawn(leds, s, o[1], o[2], flip_x, flip_y)[Index(c[1], c[2])]
          = IF cell \in (0 .. s.width - 1) \X (0 .. s.height - 1) /\ ~(transparent /\ s.led[cell] = back)
            THEN s.led[cell] ELSE leds[Index(c[1], c[2])]
    BY <2>3, DrawnIs
  <2> QED
    BY <2>1, <2>2, <2>4, <2>5, <2>6
<1> HIDE DEF covered
<1>3. PictureOf(Drawn(leds, s, o[1], o[2], flip_x, flip_y)) = covered
  BY <1>1, <1>2, PictureAt
<1> QED
  BY <1>3 DEF covered
-----------------------------------------------------------------------------
(* flip(): where a coordinate or its partner has been met, the two have    *)
(* exchanged their colours; where both have, they have done so twice.      *)
LEMMA FlippedIs ==
  ASSUME Shaped, NEW array \in Array, NEW flip_x \in BOOLEAN, NEW flip_y \in BOOLEAN
  PROVE  /\ Flipped(array, flip_x, flip_y) \in Array
         /\ \A c \in Logical(helper) :
              LET m    == Partner(c, flip_x, flip_y)
                  half == (0 .. (logic_width \div 2) - 1) \X (0 .. logic_height - 1)
              IN  Flipped(array, flip_x, flip_y)[Index(c[1], c[2])]
                    = IF (c \in half) # (m \in half) THEN array[Index(m[1], m[2])] ELSE array[Index(c[1], c[2])]
<1>1. PICK w, h, n, met :
        /\ w \in Nat /\ h \in Nat /\ n \in Nat
        /\ w = logic_width \div 2 /\ h = logic_height
        /\ n = w * h /\ met = RowMajor(w, h)
  <2>1. PICK w \in Nat, h \in Nat : w = logic_width \div 2 /\ h = logic_height
    BY Sizes
  <2>2. w * h \in Nat
    OBVIOUS
  <2> QED
    BY <2>1, <2>2
<1>t. Meets(w, h, n, met)
  BY <1>1, Meeting
<1>2. PICK it : /\ it[0] = array /\ it[n] = Flipped(array, flip_x, flip_y)
                /\ \A i \in 1 .. n : it[i] = FlipCell(it[i - 1], met[i], flip_x, flip_y)
  BY <1>1, FlippedLoop
<1>3. \A i \in 1 .. n : met[i] \in Logical(helper)
  <2>1. w <= logic_width
    BY <1>1, Sizes
  <2>2. \A c \in (0 .. w - 1) \X (0 .. h - 1) : c \in Logical(helper)
    BY <1>1, <2>1, Sizes
  <2>3. \A i \in 1 .. n : met[i] \in (0 .. w - 1) \X (0 .. h - 1)
    BY <1>1, <1>t DEF Meets
  <2> QED
    BY <2>2, <2>3
<1> DEFINE M(c) == Partner(c, flip_x, flip_y)
           At(a, c) == a[Index(c[1], c[2])]
           Value(c, met_) == IF (c \in met_) # (M(c) \in met_) THEN At(array, M(c)) ELSE At(array, c)
           Good == {i \in 0 .. n : /\ it[i] \in Array
                                   /\ \A c \in Logical(helper) : At(it[i], c) = Value(c, Met(w, h, i))}
<1>m. \A c \in Logical(helper) : M(c) \in Logical(helper) /\ M(M(c)) = c
  BY PartnerIs
<1>4. 0 \in Good
  BY <1>2, <1>t DEF Meets
<1>5. ASSUME NEW i \in 1 .. n, i - 1 \in Good
      PROVE  i \in Good
  <2>1. PICK a, d : a = it[i - 1] /\ d = met[i]
    OBVIOUS
  <2>2. a \in Array /\ d \in Logical(helper) /\ it[i] = FlipCell(a, d, flip_x, flip_y)
    BY <1>2, <1>3, <1>5, <2>1
  <2>3. \A c \in Logical(helper) : At(a, c) = Value(c, Met(w, h, i - 1))
    BY <1>5, <2>1
  <2>4. it[i] \in Array
    BY <2>2, FlipCellInside
  <2>5. PICK before, after : /\ before = Met(w, h, i - 1) /\ after = Met(w, h, i)
                             /\ after = before \cup {d} /\ d \notin before
    BY <1>t, <2>1 DEF Meets
  <2>6. \A c \in Logical(helper) : At(it[i], c) = IF c = M(d) THEN At(a, d) ELSE IF c = d THEN At(a, M(d)) ELSE At(a, c)
    BY <2>2, FlipCellInside
  <2>7. ASSUME NEW c \in Logical(helper)
        PROVE  At(it[i], c) = Value(c, Met(w, h, i))
    <3>1. /\ At(a, c) = IF (c \in before) # (M(c) \in before) THEN At(array, M(c)) ELSE At(array, c)
          /\ At(a, M(c)) = IF (M(c) \in before) # (c \in before) THEN At(array, c) ELSE At(array, M(c))
      BY <1>m, <2>3, <2>5
    <3>2. c = M(d) <=> M(c) = d
      BY <1>m, <2>2
    <3>3. At(it[i], c) = IF c = M(d) THEN At(a, d) ELSE IF c = d THEN At(a, M(d)) ELSE At(a, c)
      BY <2>6
    <3> HIDE DEF M, At
    <3>4. CASE c = d /\ c = M(c)
      BY <2>5, <3>1, <3>2, <3>3, <3>4
    <3>5. CASE c = d /\ c # M(c)
      BY <2>5, <3>1, <3>2, <3>3, <3>5
    <3>6. CASE c # d /\ M(c) = d
      BY <2>5, <3>1, <3>2, <3>3, <3>6
    <3>7. CASE c # d /\ M(c) # d
      BY <2>5, <3>1, <3>2, <3>3, <3>7
    <3> QED
      BY <3>4, <3>5, <3>6, <3>7
  <2> QED
    BY <2>4, <2>7
<1>6. n \in Good
  <2> HIDE DEF Good
  <2>1. n \in Nat
    BY <1>1
  <2> QED
    BY <1>4, <1>5, <2>1, TurnInduction
<1>7. Met(w, h, n) = (0 .. (logic_width \div 2) - 1) \X (0 .. logic_height - 1)
  BY <1>1, <1>t DEF Meets
<1> QED
  BY <1>2, <1>6, <1>7

LEMMA HalfIs ==
  ASSUME NEW w \in Nat, NEW x \in 0 .. w - 1
  PROVE  /\ w - x - 1 \in 0 .. w - 1
         /\ (x < w \div 2 /\ w - x - 1 < w \div 2) = FALSE
         /\ 2 * x + 1 = w => x >= w \div 2 /\ w - x - 1 = x
         /\ 2 * x + 1 # w => (x < w \div 2 \/ w - x - 1 < w \div 2)
<1>1. PICK half \in Int : half = w \div 2 /\ (w = 2 * half \/ w = 2 * half + 1)
  <2>1. w \div 2 \in Int /\ w % 2 \in 0 .. 1 /\ w = 2 * (w \div 2) + (w % 2)
    OBVIOUS
  <2> QED
    BY <2>1
<1> QED
  BY <1>1

LEMMA FlippedPaints ==
  ASSUME Shaped, leds \in Array, NEW flip_x \in BOOLEAN, NEW flip_y \in BOOLEAN
  PROVE  PictureOf(Flipped(leds, flip_x, flip_y)) = Promise!Mirrored(flip_x, flip_y)
<1> DEFINE mirrored == Promise!Mirrored(flip_x, flip_y)
           At(a, c) == a[Index(c[1], c[2])]
<1>1. mirrored = [p \in Promise!Panel |-> mirrored[p]]
  <2>1. CASE flip_x
    BY <2>1 DEF Promise!Mirrored
  <2>2. CASE ~flip_x
    <3>1. PictureOf(leds) = [p \in Promise!Panel |-> PictureOf(leds)[p]]
      BY PromiseIs DEF PictureOf
    <3>2. mirrored = PictureOf(leds)
      BY <2>2 DEF Promise!Mirrored
    <3> HIDE DEF mirrored
    <3> QED
      BY <3>1, <3>2
  <2> QED
    BY <2>1, <2>2
<1>2. ASSUME NEW c \in Logical(helper)
      PROVE  At(Flipped(leds, flip_x, flip_y), c) = mirrored[Promise!Place(c[1], c[2])]
  <2>1. PICK p \in Promise!Panel : p = Promise!Place(c[1], c[2]) /\ Promise!Seen(p) = c
    BY Places
  <2>2. PictureOf(leds)[p] = At(leds, c)
    BY <2>1, Places
  <2>3. PICK w \in Nat \ {0}, h \in Nat \ {0} : w = logic_width /\ h = logic_height
    BY Sizes
  <2>4. PICK x \in 0 .. w - 1, y \in 0 .. h - 1 : c = <<x, y>>
    BY <2>3, Sizes
  <2> DEFINE m    == Partner(c, flip_x, flip_y)
             half == (0 .. (logic_width \div 2) - 1) \X (0 .. logic_height - 1)
  <2>5. At(Flipped(leds, flip_x, flip_y), c) = IF (c \in half) # (m \in half) THEN At(leds, m) ELSE At(leds, c)
    BY FlippedIs
  <2>6. m \in Logical(helper)
    BY PartnerIs
  <2>7. m = <<IF flip_x THEN w - x - 1 ELSE x, IF flip_y THEN h - y - 1 ELSE y>>
    BY <2>3, <2>4 DEF Partner, PartnerX, PartnerY
  <2>8. m[2] \in 0 .. h - 1 /\ m[1] \in 0 .. w - 1
    BY <2>3, <2>6, Sizes
  <2>9. (c \in half <=> x < w \div 2) /\ (m \in half <=> m[1] < w \div 2)
    BY <2>3, <2>4, <2>7, <2>8
  <2>10. LogicWidth(helper) = w /\ LogicHeight(helper) = h
    BY <2>3 DEF Shaped
  <2> DEFINE q == <<w - x - 1, IF flip_y /\ 2 * x + 1 # w THEN h - y - 1 ELSE y>>
  <2>11. flip_x => mirrored[p] = PictureOf(leds)[Promise!Place(q[1], q[2])]
    BY <2>1, <2>4, <2>10, PromiseIs DEF Promise!Mirrored
  <2>12. ~flip_x => mirrored[p] = PictureOf(leds)[p]
    BY DEF Promise!Mirrored
  <2>13. q \in Logical(helper)
    BY <2>3, <2>4, Sizes
  <2>14. PictureOf(leds)[Promise!Place(q[1], q[2])] = At(leds, q)
    <3> HIDE DEF q
    <3> QED
      BY <2>13, Places
  <2>18. /\ flip_x => m = <<w - x - 1, IF flip_y THEN h - y - 1 ELSE y>> /\ m[1] = w - x - 1
         /\ ~flip_x => m[1] = x
    BY <2>7
  <2>19. /\ 2 * x + 1 # w => q = <<w - x - 1, IF flip_y THEN h - y - 1 ELSE y>>
         /\ 2 * x + 1 = w => q = <<w - x - 1, y>>
    OBVIOUS
  <2> HIDE DEF half, m, q
  <2>15. CASE ~flip_x
    <3>1. m[1] = x
      BY <2>15, <2>18
    <3> QED
      BY <2>1, <2>2, <2>5, <2>9, <2>12, <2>15, <3>1
  <2>16. CASE flip_x /\ 2 * x + 1 = w
    <3>1. m[1] = x /\ q = c /\ ~(x < w \div 2)
      <4>1. w - x - 1 = x /\ x >= w \div 2 /\ w \div 2 \in Int
        BY <2>16, HalfIs
      <4> QED
        BY <2>4, <2>16, <2>18, <2>19, <4>1
    <3>2. mirrored[p] = At(leds, c)
      BY <2>11, <2>14, <2>16, <3>1
    <3>3. At(Flipped(leds, flip_x, flip_y), c) = At(leds, c)
      BY <2>5, <2>9, <3>1
    <3> QED
      BY <2>1, <3>2, <3>3
  <2>17. CASE flip_x /\ 2 * x + 1 # w
    <3>1. m[1] = w - x - 1 /\ q = m
      BY <2>17, <2>18, <2>19
    <3>2. (x < w \div 2) # (w - x - 1 < w \div 2)
      BY <2>17, HalfIs
    <3>3. At(Flipped(leds, flip_x, flip_y), c) = At(leds, m)
      <4>1. (c \in half) # (m \in half)
        BY <2>9, <3>1, <3>2
      <4> QED
        BY <2>5, <4>1
    <3>4. mirrored[p] = At(leds, m)
      BY <2>11, <2>14, <2>17, <3>1
    <3> QED
      BY <2>1, <3>3, <3>4
  <2> QED
    BY <2>15, <2>16, <2>17
<1> HIDE DEF mirrored
<1>3. PictureOf(Flipped(leds, flip_x, flip_y)) = mirrored
  BY <1>1, <1>2, PictureAt
<1> QED
  BY <1>3 DEF mirrored
-----------------------------------------------------------------------------
(* The loops leave the pictures of Canvas, wherever the types are right.   *)
LEMMA ShapedIs ==
  ASSUME TypeOK
  PROVE  Shaped /\ leds \in Array /\ back \in Color
  BY DEF TypeOK, Shaped, Array

(* LoopsPaint holds: clear, draw and flip paint what Canvas says, for every *)
(* size of the panel, every source, offset, rotation and layout.            *)
LEMMA LoopsPaintAnywhere ==
  ASSUME TypeOK
  PROVE  LoopsPaint
<1>1. PictureOf(Cleared(leds)) = Promise!Wiped
  BY ShapedIs, ClearedPaints
<1>2. ASSUME NEW flip_x \in BOOLEAN, NEW flip_y \in BOOLEAN
      PROVE  /\ PictureOf(Flipped(leds, flip_x, flip_y)) = Promise!Mirrored(flip_x, flip_y)
             /\ \A s \in Sources, o \in Offsets :
                  PictureOf(Drawn(leds, s, o[1], o[2], flip_x, flip_y)) = Promise!Covered(s, o, flip_x, flip_y)
  BY ShapedIs, FlippedPaints, DrawnPaints
<1> QED
  BY <1>1, <1>2 DEF LoopsPaint

LEMMA InitTypes ==
  ASSUME Init
  PROVE  TypeOK
<1>1. leds \in [Positions -> Color]
  BY DeviceAssumption DEF Init
<1>2. helper \in Rotations
  BY DEF Init, Upright, Rotations, Degrees
<1>3. logic_width = LogicWidth(helper) /\ logic_height = LogicHeight(helper)
  BY DEF Init, Upright, LogicWidth, LogicHeight, QuarterTurn
<1> QED
  BY <1>1, <1>2, <1>3, DeviceAssumption DEF Init, TypeOK

LEMMA NextTypes ==
  ASSUME TypeOK, [Next]_deviceVars
  PROVE  TypeOK'
<1>0. Shaped /\ leds \in Array /\ back \in Color
  BY ShapedIs
<1>1. CASE DrawPixel
  <2>1. PICK x \in 0 .. logic_width - 1, y \in 0 .. logic_height - 1, c \in Color : leds' = Set(leds, x, y, c)
    BY <1>1 DEF DrawPixel
  <2>2. PICK at \in Logical(helper) : at = <<x, y>> /\ at[1] = x /\ at[2] = y
    BY <1>0, <2>1, PairIs
  <2>3. Set(leds, at[1], at[2], c) \in Array
    BY <1>0, <2>2, SetInside
  <2> QED
    BY <1>1, <2>1, <2>2, <2>3 DEF TypeOK, DrawPixel, Array
<1>2. CASE Clear
  <2>1. leds' \in Array
    BY <1>0, <1>2, ClearedIs DEF Clear
  <2> QED
    BY <1>2, <2>1 DEF TypeOK, Clear, Array
<1>3. CASE Draw
  <2>1. leds' \in Array
    BY <1>0, <1>3, DrawnIs DEF Draw
  <2> QED
    BY <1>3, <2>1 DEF TypeOK, Draw, Array
<1>4. CASE Flip
  <2>1. leds' \in Array
    BY <1>0, <1>4, FlippedIs DEF Flip
  <2> QED
    BY <1>4, <2>1 DEF TypeOK, Flip, Array
<1>5. CASE SetRotate
  BY <1>5 DEF TypeOK, SetRotate
<1>6. CASE SetTransparent
  BY <1>6 DEF TypeOK, SetTransparent
<1>7. CASE SetBackground
  BY <1>7 DEF TypeOK, SetBackground
<1>8. CASE UNCHANGED deviceVars
  BY <1>8 DEF TypeOK, deviceVars
<1> QED
  BY <1>1, <1>2, <1>3, <1>4, <1>5, <1>6, <1>7, <1>8 DEF Next

(* TypeOK always holds: no loop of clear, draw or flip writes outside the   *)
(* array, whatever is drawn at whatever offset.                             *)
THEOREM DeviceTypes == Spec => []TypeOK
<1>1. Init => TypeOK
  BY InitTypes
<1>2. TypeOK /\ [Next]_deviceVars => TypeOK'
  BY NextTypes
<1> QED
  BY <1>1, <1>2, PTL DEF Spec

(* LoopsPaint always holds: in every state the loops of clear, draw and     *)
(* flip would leave the picture that Canvas asks for.                       *)
THEOREM LoopsAlwaysPaint == Spec => []LoopsPaint
<1>1. TypeOK => LoopsPaint
  BY LoopsPaintAnywhere
<1> QED
  BY <1>1, DeviceTypes, PTL
-----------------------------------------------------------------------------
(* The refinement: every step of the device is a step of the canvas.       *)
LEMMA PictureStays ==
  ASSUME UNCHANGED <<leds, snake>>
  PROVE  UNCHANGED PictureOf(leds)
  BY DEF PictureOf

LEMMA PromiseInit ==
  ASSUME Init
  PROVE  Promise!Init
<1>1. Shaped /\ leds = [p \in Positions |-> Black]
  BY InitTypes, ShapedIs DEF Init
<1>2. ASSUME NEW p \in Promise!Panel
      PROVE  PictureOf(leds)[p] = Black
  <2>1. PICK c \in Logical(helper) : PictureOf(leds)[p] = leds[Index(c[1], c[2])]
    BY <1>1, SeenIs
  <2>2. Index(c[1], c[2]) \in Positions
    BY <1>1, IndexInside
  <2> QED
    BY <1>1, <2>1, <2>2
<1>3. PictureOf(leds) = [p \in Promise!Panel |-> PictureOf(leds)[p]]
  BY PromiseIs DEF PictureOf
<1>4. PictureOf(leds) = [p \in Promise!Panel |-> Black]
  BY <1>2, <1>3
<1>5. Promise!Upright = Upright
  BY DEF Promise!Upright, Upright
<1> QED
  BY <1>4, <1>5 DEF Init, Promise!Init

LEMMA PixelStep ==
  ASSUME TypeOK, DrawPixel
  PROVE  Promise!Pixel
<1>0. Shaped /\ leds \in Array
  BY ShapedIs
<1>1. PICK x \in 0 .. logic_width - 1, y \in 0 .. logic_height - 1, color \in Color : leds' = Set(leds, x, y, color)
  BY DEF DrawPixel
<1>2. PICK at \in Logical(helper) : at = <<x, y>> /\ at[1] = x /\ at[2] = y
  BY <1>0, <1>1, PairIs
<1>3. PICK p \in Promise!Panel : p = Promise!Place(at[1], at[2])
  BY <1>0, Places
<1> DEFINE painted == [PictureOf(leds) EXCEPT ![p] = color]
<1>4. painted = [q \in Promise!Panel |-> painted[q]]
  BY PromiseIs DEF PictureOf
<1>5. ASSUME NEW c \in Logical(helper)
      PROVE  leds'[Index(c[1], c[2])] = painted[Promise!Place(c[1], c[2])]
  <2>1. leds'[Index(c[1], c[2])] = IF c = at THEN color ELSE leds[Index(c[1], c[2])]
    BY <1>0, <1>1, <1>2, SetShows
  <2>2. PICK q \in Promise!Panel : q = Promise!Place(c[1], c[2])
    BY <1>0, Places
  <2>3. q = p <=> c = at
    BY <1>0, <1>3, <2>2, Places
  <2>4. PictureOf(leds)[q] = leds[Index(c[1], c[2])]
    BY <1>0, <2>2, Places
  <2>5. painted[q] = IF q = p THEN color ELSE PictureOf(leds)[q]
    BY <1>3, PromiseIs DEF PictureOf
  <2> QED
    BY <2>1, <2>2, <2>3, <2>4, <2>5
<1> HIDE DEF painted
<1>6. PictureOf(leds') = painted
  BY <1>0, <1>4, <1>5, PictureAt
<1>7. PictureOf(leds)' = PictureOf(leds')
  BY DEF DrawPixel, PictureOf
<1> QED
  BY <1>3, <1>6, <1>7 DEF painted, DrawPixel, Promise!Pixel

LEMMA LoopStep ==
  ASSUME TypeOK, NEW array, leds' = array, UNCHANGED snake
  PROVE  PictureOf(leds)' = PictureOf(array)
  BY DEF PictureOf

LEMMA PromiseNext ==
  ASSUME TypeOK, [Next]_deviceVars
  PROVE  [Promise!Next]_<<PictureOf(leds), helper, transparent, back>>
<1>0. LoopsPaint
  BY LoopsPaintAnywhere
<1>1. CASE DrawPixel
  BY <1>1, PixelStep DEF Promise!Next
<1>2. CASE Clear
  <2>1. PictureOf(leds)' = Promise!Wiped
    BY <1>0, <1>2, LoopStep DEF Clear, LoopsPaint
  <2> QED
    BY <1>2, <2>1 DEF Clear, Promise!Clear, Promise!Next
<1>3. CASE Draw
  <2>1. PICK s \in Sources, o \in Offsets, flip_x \in BOOLEAN, flip_y \in BOOLEAN :
          leds' = Drawn(leds, s, o[1], o[2], flip_x, flip_y)
    BY <1>3 DEF Draw
  <2>2. PictureOf(leds)' = Promise!Covered(s, o, flip_x, flip_y)
    <3>1. PictureOf(Drawn(leds, s, o[1], o[2], flip_x, flip_y)) = Promise!Covered(s, o, flip_x, flip_y)
      BY <1>0 DEF LoopsPaint
    <3> QED
      BY <1>3, <2>1, <3>1, LoopStep DEF Draw
  <2> QED
    BY <1>3, <2>2 DEF Draw, Promise!Draw, Promise!Next
<1>4. CASE Flip
  <2>1. PICK flip_x \in BOOLEAN, flip_y \in BOOLEAN : leds' = Flipped(leds, flip_x, flip_y)
    BY <1>4 DEF Flip
  <2>2. PictureOf(leds)' = Promise!Mirrored(flip_x, flip_y)
    <3>1. PictureOf(Flipped(leds, flip_x, flip_y)) = Promise!Mirrored(flip_x, flip_y)
      BY <1>0 DEF LoopsPaint
    <3> QED
      BY <1>4, <2>1, <3>1, LoopStep DEF Flip
  <2> QED
    BY <1>4, <2>2 DEF Flip, Promise!Flip, Promise!Next
<1>5. CASE SetRotate
  <2>1. Promise!Rotations = Rotations
    BY DEF Promise!Rotations, Rotations, Promise!Degrees, Degrees
  <2>2. UNCHANGED PictureOf(leds)
    BY <1>5, PictureStays DEF SetRotate
  <2> QED
    BY <1>5, <2>1, <2>2 DEF SetRotate, Promise!SetRotate, Promise!Next
<1>6. CASE SetTransparent
  BY <1>6, PictureStays DEF SetTransparent, Promise!SetTransparent, Promise!Next
<1>7. CASE SetBackground
  BY <1>7, PictureStays DEF SetBackground, Promise!SetBackground, Promise!Next
<1>8. CASE UNCHANGED deviceVars
  BY <1>8, PictureStays DEF deviceVars
<1> QED
  BY <1>1, <1>2, <1>3, <1>4, <1>5, <1>6, <1>7, <1>8 DEF Next

(* KeepsPromise holds: the device implements Canvas. Whatever sequence of   *)
(* calls it is given, on either layout, the picture goes through the steps  *)
(* of a canvas.                                                             *)
THEOREM ImplementsCanvas == Spec => KeepsPromise
<1>1. Init => Promise!Init
  BY PromiseInit
<1>2. TypeOK /\ [Next]_deviceVars => [Promise!Next]_<<PictureOf(leds), helper, transparent, back>>
  BY PromiseNext
<1> QED
  BY <1>1, <1>2, DeviceTypes, PTL DEF Spec, KeepsPromise, Promise!Spec, Promise!canvasVars
=============================================================================
