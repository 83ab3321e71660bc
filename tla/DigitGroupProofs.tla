--------------------------- MODULE DigitGroupProofs ---------------------------
(***************************************************************************)
(* The digits that a DigitGroup3x5 shows, for an int of any width.         *)
(***************************************************************************)
EXTENDS DigitGroup, TLAPS, WellFoundedInduction

LEMMA LeastNumber ==
  ASSUME NEW T \in SUBSET Nat, T # {}
  PROVE  \E n \in T : \A m \in T : n <= m
<1>1. PICK n \in T : \A m \in T : ~(<<m, n>> \in OpToRel(<, Nat))
  BY NatLessThanWellFounded, WFMin
<1>2. \A m \in T : ~(m < n)
  BY <1>1 DEF OpToRel
<1> QED
  BY <1>2

(* What holds of 0, and of n where it holds below n, holds of every n.     *)
LEMMA Inductively ==
  ASSUME NEW Good, \A n \in Nat : (\A m \in Nat : m < n => m \in Good) => n \in Good
  PROVE  \A n \in Nat : n \in Good
<1> DEFINE Bad == {n \in Nat : n \notin Good}
<1> SUFFICES ASSUME Bad # {}
             PROVE  FALSE
  OBVIOUS
<1>1. PICK n \in Bad : \A m \in Bad : n <= m
  <2>1. Bad \in SUBSET Nat
    OBVIOUS
  <2> HIDE DEF Bad
  <2> QED
    BY <2>1, LeastNumber
<1>2. \A m \in Nat : m < n => m \in Good
  BY <1>1
<1> QED
  BY <1>1, <1>2
-----------------------------------------------------------------------------
(* The powers of ten up to the m-th: Power10 is made of these.             *)
Powers(g, m) == /\ g \in [0 .. m -> Nat \ {0}]
                /\ g[0] = 1 /\ \A i \in 1 .. m : g[i] = 10 * g[i - 1]

LEMMA PowersExist ==
  ASSUME NEW m \in Nat
  PROVE  \E g : Powers(g, m)
<1> DEFINE Good == {k \in Nat : \E g : Powers(g, k)}
<1>1. ASSUME NEW k \in Nat, \A j \in Nat : j < k => j \in Good
      PROVE  k \in Good
  <2>1. CASE k = 0
    <3> DEFINE g == [i \in 0 .. 0 |-> 1]
    <3>1. Powers(g, 0)
      BY DEF Powers
    <3> HIDE DEF g
    <3> QED
      BY <2>1, <3>1
  <2>2. CASE k # 0
    <3>1. k - 1 \in Nat /\ k - 1 < k
      BY <2>2
    <3>2. PICK g : Powers(g, k - 1)
      BY <1>1, <3>1
    <3> DEFINE h == [i \in 0 .. k |-> IF i = k THEN 10 * g[k - 1] ELSE g[i]]
    <3>3. \A i \in 0 .. k - 1 : h[i] = g[i] /\ g[i] \in Nat \ {0}
      BY <3>1, <3>2 DEF Powers
    <3>4. h[k] = 10 * g[k - 1] /\ g[k - 1] \in Nat \ {0}
      BY <3>1, <3>2 DEF Powers
    <3>5. h \in [0 .. k -> Nat \ {0}]
      <4>1. ASSUME NEW i \in 0 .. k
            PROVE  h[i] \in Nat \ {0}
        <5>1. CASE i = k
          BY <3>4, <5>1
        <5>2. CASE i # k
          <6>1. i \in 0 .. k - 1
            BY <5>2
          <6> HIDE DEF h
          <6> QED
            BY <3>3, <6>1
        <5> QED
          BY <5>1, <5>2
      <4>2. h = [i \in 0 .. k |-> h[i]]
        OBVIOUS
      <4> HIDE DEF h
      <4> QED
        BY <4>1, <4>2
    <3>6. \A i \in 1 .. k : h[i] = 10 * h[i - 1]
      <4> SUFFICES ASSUME NEW i \in 1 .. k
                   PROVE  h[i] = 10 * h[i - 1]
        OBVIOUS
      <4>1. CASE i = k
        BY <3>1, <3>3, <3>4, <4>1
      <4>2. CASE i # k
        <5>1. i \in 1 .. k - 1 /\ i \in 0 .. k - 1 /\ i - 1 \in 0 .. k - 1
          BY <4>2
        <5>2. g[i] = 10 * g[i - 1]
          BY <3>2, <5>1 DEF Powers
        <5> HIDE DEF h
        <5> QED
          BY <3>3, <5>1, <5>2
      <4> QED
        BY <4>1, <4>2
    <3>7. h[0] = 1
      BY <3>1, <3>2, <3>3 DEF Powers
    <3> HIDE DEF h
    <3>8. Powers(h, k)
      BY <3>5, <3>6, <3>7 DEF Powers
    <3> QED
      BY <3>8
  <2> QED
    BY <2>1, <2>2
<1>2. \A k \in Nat : k \in Good
  <2> HIDE DEF Good
  <2> QED
    BY <1>1, Inductively
<1> QED
  BY <1>2

LEMMA PowersAgree ==
  ASSUME NEW m \in Nat, NEW k \in Nat, NEW g, NEW h, Powers(g, m), Powers(h, k)
  PROVE  \A i \in Nat : i <= m /\ i <= k => g[i] = h[i]
<1> DEFINE Good == {i \in Nat : i <= m /\ i <= k => g[i] = h[i]}
<1>1. ASSUME NEW i \in Nat, \A j \in Nat : j < i => j \in Good
      PROVE  i \in Good
  <2>1. CASE i = 0
    BY <2>1 DEF Powers
  <2>2. CASE i # 0 /\ i <= m /\ i <= k
    <3>1. i - 1 \in Nat /\ i - 1 < i /\ i \in 1 .. m /\ i \in 1 .. k /\ i - 1 <= m /\ i - 1 <= k
      BY <2>2
    <3>2. g[i - 1] = h[i - 1]
      BY <1>1, <3>1
    <3>3. g[i] = 10 * g[i - 1] /\ h[i] = 10 * h[i - 1]
      BY <3>1 DEF Powers
    <3> QED
      BY <3>2, <3>3
  <2> QED
    BY <2>1, <2>2
<1>2. \A i \in Nat : i \in Good
  <2> HIDE DEF Good
  <2> QED
    BY <1>1, Inductively
<1> QED
  BY <1>2

LEMMA Power10Is ==
  /\ Power10[0] = 1
  /\ \A i \in Nat : Power10[i] \in Nat \ {0} /\ Power10[i + 1] = 10 * Power10[i]
<1> DEFINE Right(f) == f = [i \in Nat |-> IF i = 0 THEN 1 ELSE 10 * f[i - 1]]
           upTo(i) == CHOOSE g : Powers(g, i)
           p == [i \in Nat |-> upTo(i)[i]]
<1>1. \A i \in Nat : Powers(upTo(i), i)
  BY PowersExist
<1> HIDE DEF upTo
<1>2. ASSUME NEW i \in Nat, i # 0
      PROVE  upTo(i)[i] = 10 * upTo(i - 1)[i - 1]
  <2>1. i \in 1 .. i /\ i - 1 \in Nat /\ i - 1 <= i /\ i - 1 <= i - 1
    BY <1>2
  <2>2. Powers(upTo(i), i) /\ Powers(upTo(i - 1), i - 1)
    BY <1>1, <2>1
  <2>3. PICK g, h : g = upTo(i) /\ h = upTo(i - 1)
    OBVIOUS
  <2>4. g[i - 1] = h[i - 1]
    BY <2>1, <2>2, <2>3, PowersAgree
  <2>5. g[i] = 10 * g[i - 1]
    BY <2>1, <2>2, <2>3 DEF Powers
  <2> QED
    BY <2>3, <2>4, <2>5
<1>3. upTo(0)[0] = 1
  BY <1>1 DEF Powers
<1>4. p = [i \in Nat |-> IF i = 0 THEN 1 ELSE 10 * p[i - 1]]
  <2>1. \A i \in Nat : upTo(i)[i] = IF i = 0 THEN 1 ELSE 10 * p[i - 1]
    <3> SUFFICES ASSUME NEW i \in Nat
                 PROVE  upTo(i)[i] = IF i = 0 THEN 1 ELSE 10 * p[i - 1]
      OBVIOUS
    <3>1. CASE i = 0
      BY <1>3, <3>1
    <3>2. CASE i # 0
      <4>1. i - 1 \in Nat
        BY <3>2
      <4> QED
        BY <1>2, <3>2, <4>1
    <3> QED
      BY <3>1, <3>2
  <2> QED
    BY <2>1
<1>5. \E f : Right(f)
  <2> HIDE DEF p
  <2> QED
    BY <1>4
<1>6. Power10 = CHOOSE f : Right(f)
  BY DEF Power10
<1>7. Right(Power10)
  <2> HIDE DEF Right
  <2> QED
    BY <1>5, <1>6
<1>8. Power10[0] = 1 /\ \A i \in Nat : i # 0 => Power10[i] = 10 * Power10[i - 1]
  BY <1>7
<1>9. \A i \in Nat : Power10[i + 1] = 10 * Power10[i]
  <2> SUFFICES ASSUME NEW i \in Nat
               PROVE  Power10[i + 1] = 10 * Power10[i]
    OBVIOUS
  <2>1. i + 1 \in Nat /\ i + 1 # 0 /\ (i + 1) - 1 = i
    OBVIOUS
  <2> QED
    BY <1>8, <2>1
<1> DEFINE Good == {i \in Nat : Power10[i] \in Nat \ {0}}
<1>10. ASSUME NEW i \in Nat, \A j \in Nat : j < i => j \in Good
       PROVE  i \in Good
  <2>1. CASE i = 0
    BY <1>8, <2>1
  <2>2. CASE i # 0
    <3>1. i - 1 \in Nat /\ i - 1 < i
      BY <2>2
    <3> QED
      BY <1>8, <1>10, <2>2, <3>1
  <2> QED
    BY <2>1, <2>2
<1>11. \A i \in Nat : i \in Good
  <2> HIDE DEF Good
  <2> QED
    BY <1>10, Inductively
<1> QED
  BY <1>8, <1>9, <1>11
-----------------------------------------------------------------------------
(* The number of digits of n: the least power of ten beyond n.             *)
Beyond(n) == {k \in Nat : n < Power10[k]}

Needed(n) == CHOOSE k \in Beyond(n) : \A j \in Beyond(n) : k <= j

LEMMA Tenth ==
  ASSUME NEW n \in Nat
  PROVE  /\ n \div 10 \in Nat
         /\ \A p \in Nat : n < 10 * p <=> n \div 10 < p
<1>1. PICK q \in Int, r \in 0 .. 9 : q = n \div 10 /\ n = 10 * q + r
  <2>1. n \div 10 \in Int /\ n % 10 \in 0 .. 9 /\ n = 10 * (n \div 10) + (n % 10)
    OBVIOUS
  <2> QED
    BY <2>1
<1> QED
  BY <1>1

LEMMA SomeBeyond ==
  ASSUME NEW n \in Nat
  PROVE  n \in Beyond(n)
<1> DEFINE Good == {k \in Nat : k < Power10[k]}
<1>1. ASSUME NEW k \in Nat, \A j \in Nat : j < k => j \in Good
      PROVE  k \in Good
  <2>1. CASE k = 0
    BY <2>1, Power10Is
  <2>2. CASE k # 0
    <3>1. PICK j \in Nat : j = k - 1 /\ j < k /\ k = j + 1
      BY <2>2
    <3>2. j < Power10[j] /\ Power10[j] \in Nat
      BY <1>1, <3>1, Power10Is
    <3>3. Power10[k] = 10 * Power10[j]
      BY <3>1, Power10Is
    <3> QED
      BY <3>1, <3>2, <3>3
  <2> QED
    BY <2>1, <2>2
<1>2. \A k \in Nat : k \in Good
  <2> HIDE DEF Good
  <2> QED
    BY <1>1, Inductively
<1> QED
  BY <1>2 DEF Beyond

LEMMA NeededIs ==
  ASSUME NEW n \in Nat
  PROVE  /\ Needed(n) \in Nat /\ n < Power10[Needed(n)]
         /\ \A j \in Nat : n < Power10[j] => Needed(n) <= j
<1>1. Beyond(n) \in SUBSET Nat /\ Beyond(n) # {}
  BY SomeBeyond DEF Beyond
<1>2. \E k \in Beyond(n) : \A j \in Beyond(n) : k <= j
  BY <1>1, LeastNumber
<1>3. Needed(n) \in Beyond(n) /\ \A j \in Beyond(n) : Needed(n) <= j
  BY <1>2 DEF Needed
<1> QED
  BY <1>3 DEF Beyond

LEMMA NeededSteps ==
  /\ Needed(0) = 0
  /\ \A n \in Nat : n # 0 => Needed(n) = 1 + Needed(n \div 10)
<1>1. Needed(0) = 0
  <2>1. Needed(0) \in Nat /\ Needed(0) <= 0
    BY NeededIs, Power10Is
  <2> QED
    BY <2>1
<1>2. ASSUME NEW n \in Nat, n # 0
      PROVE  Needed(n) = 1 + Needed(n \div 10)
  <2>1. PICK q \in Nat : q = n \div 10
    BY Tenth
  <2>2. PICK k \in Nat, j \in Nat : k = Needed(n) /\ j = Needed(q)
    BY NeededIs
  <2>3. k <= j + 1
    <3>0. q < Power10[j]
      BY <2>2, NeededIs
    <3>1. Power10[j] \in Nat /\ Power10[j + 1] = 10 * Power10[j] /\ j + 1 \in Nat
      BY Power10Is
    <3>2. n < Power10[j + 1]
      BY <2>1, <3>0, <3>1, Tenth
    <3> QED
      BY <2>2, <3>1, <3>2, NeededIs
  <2>4. k # 0
    <3>1. n < Power10[k]
      BY <2>2, NeededIs
    <3> QED
      BY <1>2, <3>1, Power10Is
  <2>5. j <= k - 1
    <3>1. PICK i \in Nat : i = k - 1 /\ k = i + 1
      BY <2>4
    <3>2. n < Power10[k] /\ Power10[k] = 10 * Power10[i] /\ Power10[i] \in Nat
      BY <2>2, <3>1, NeededIs, Power10Is
    <3>3. q < Power10[i]
      BY <2>1, <3>2, Tenth
    <3> QED
      BY <2>2, <3>1, <3>3, NeededIs
  <2> QED
    BY <2>1, <2>2, <2>3, <2>5
<1> QED
  BY <1>1, <1>2
-----------------------------------------------------------------------------
LEMMA QuotientIs ==
  ASSUME NEW n \in IntRange
  PROVE  /\ Quotient(n, 10) \in IntRange
         /\ Absolute(n) \in Nat
         /\ Absolute(Quotient(n, 10)) = Absolute(n) \div 10
         /\ n = 0 <=> Absolute(n) = 0
<1> USE LeastAssumption
<1>1. CASE n >= 0
  <2>1. n \in Nat /\ n \div 10 \in Nat /\ n \div 10 <= n
    BY <1>1 DEF IntRange
  <2>2. Quotient(n, 10) = n \div 10 /\ Absolute(n) = n
    BY <1>1 DEF Quotient, Absolute, IntRange
  <2>3. Absolute(n \div 10) = n \div 10
    BY <2>1 DEF Absolute
  <2> QED
    BY <2>1, <2>2, <2>3 DEF IntRange
<1>2. CASE n < 0
  <2>1. PICK m \in Nat : m = -n /\ m # 0 /\ m <= -Least
    BY <1>2 DEF IntRange
  <2>2. PICK q \in Nat : q = m \div 10 /\ q < m
    BY <2>1
  <2>3. Quotient(n, 10) = -q /\ Absolute(n) = m
    BY <1>2, <2>1, <2>2 DEF Quotient, Absolute
  <2>4. Absolute(-q) = q
    BY DEF Absolute
  <2>5. -q \in IntRange
    BY <2>1, <2>2 DEF IntRange
  <2> QED
    BY <2>1, <2>2, <2>3, <2>4, <2>5
<1> QED
  BY <1>1, <1>2 DEF IntRange

(* The loop that counts the digits counts as many as are needed.           *)
LEMMA WidthIs ==
  \A n \in IntRange : n >= 0 => Width[n] = Needed(n)
<1> DEFINE Right(f) == f = [n \in IntRange |-> IF n = 0 THEN 0 ELSE 1 + f[Quotient(n, 10)]]
           w == [n \in IntRange |-> Needed(Absolute(n))]
<1>1. w = [n \in IntRange |-> IF n = 0 THEN 0 ELSE 1 + w[Quotient(n, 10)]]
  <2>1. ASSUME NEW n \in IntRange
        PROVE  Needed(Absolute(n)) = IF n = 0 THEN 0 ELSE 1 + w[Quotient(n, 10)]
    <3>1. PICK m \in Nat : m = Absolute(n) /\ (n = 0 <=> m = 0)
      BY QuotientIs
    <3>2. w[Quotient(n, 10)] = Needed(m \div 10)
      BY <3>1, QuotientIs
    <3> HIDE DEF w
    <3> QED
      BY <3>1, <3>2, NeededSteps
  <2> QED
    BY <2>1
<1>2. \E f : Right(f)
  <2> HIDE DEF w
  <2> QED
    BY <1>1
<1>3. Width = CHOOSE f : Right(f)
  BY DEF Width
<1>4. Right(Width)
  <2> HIDE DEF Right
  <2> QED
    BY <1>2, <1>3
<1>5. \A n \in IntRange : Width[n] = IF n = 0 THEN 0 ELSE 1 + Width[Quotient(n, 10)]
  BY <1>4
<1> DEFINE Good == {n \in Nat : n \in IntRange => Width[n] = Needed(n)}
<1>6. ASSUME NEW n \in Nat, \A m \in Nat : m < n => m \in Good
      PROVE  n \in Good
  <2>1. CASE n \in IntRange /\ n = 0
    BY <1>5, <2>1, NeededSteps
  <2>2. CASE n \in IntRange /\ n # 0
    <3>1. PICK q \in Nat : q = n \div 10 /\ q < n
      BY <2>2
    <3>2. Quotient(n, 10) = q /\ q \in IntRange
      <4>1. Quotient(n, 10) = n \div 10
        BY DEF Quotient
      <4> QED
        BY <2>2, <3>1, <4>1, QuotientIs
    <3>3. Width[q] = Needed(q)
      BY <1>6, <3>1, <3>2
    <3>4. Width[n] = 1 + Width[q]
      BY <1>5, <2>2, <3>2
    <3>5. Needed(n) = 1 + Needed(q)
      BY <2>2, <3>1, NeededSteps
    <3> QED
      BY <3>3, <3>4, <3>5
  <2> QED
    BY <2>1, <2>2
<1>7. \A n \in Nat : n \in Good
  <2> HIDE DEF Good
  <2> QED
    BY <1>6, Inductively
<1> QED
  BY <1>7 DEF IntRange
-----------------------------------------------------------------------------
(* The label holds the absolute value, and as many columns as it needs.    *)
Label == /\ asked \in IntRange
         /\ asked # Least => /\ digits_ = Absolute(asked) /\ digits_ \in Nat
                            /\ digits_width_ = Needed(digits_)

LEMMA LabelStarts ==
  ASSUME LabelInit
  PROVE  Label
<1>1. 0 \in IntRange /\ Absolute(0) = 0
  BY LeastAssumption DEF IntRange, Absolute
<1> QED
  BY <1>1, NeededSteps DEF LabelInit, Label

LEMMA LabelStays ==
  ASSUME Label, [LabelNext]_labelVars
  PROVE  Label'
<1>1. ASSUME NEW n \in IntRange, SetDigits(n)
      PROVE  Label'
  <2>1. asked' = n /\ digits_' = (IF n < 0 THEN Negated(n) ELSE n) /\ digits_width_' = Width[digits_']
    BY <1>1 DEF SetDigits
  <2>2. CASE n = Least
    BY <2>1, <2>2 DEF Label
  <2>3. CASE n # Least
    <3>1. digits_' = Absolute(n) /\ Absolute(n) \in Nat /\ Absolute(n) \in IntRange
      BY <2>1, <2>3, LeastAssumption DEF Negated, Absolute, IntRange
    <3>2. Width[digits_'] = Needed(digits_')
      BY <3>1, WidthIs
    <3> QED
      BY <2>1, <3>1, <3>2 DEF Label
  <2> QED
    BY <2>2, <2>3
<1>2. CASE UNCHANGED labelVars
  BY <1>2 DEF Label, labelVars
<1> QED
  BY <1>1, <1>2 DEF LabelNext

LEMMA Shares ==
  ASSUME NEW n \in Nat, NEW p \in Nat \ {0}
  PROVE  n \div p \in Nat /\ (n \div p) * p <= n /\ n < (n \div p) * p + p
<1>1. n \div p \in Int /\ n % p \in 0 .. p - 1 /\ n = p * (n \div p) + (n % p)
  OBVIOUS
<1>2. n \div p \in Nat
  OBVIOUS
<1>3. PICK q \in Nat, r \in 0 .. p - 1, m \in Int : q = n \div p /\ r = n % p /\ m = q * p
  BY <1>1, <1>2
<1>4. n = m + r
  BY <1>1, <1>3
<1> QED
  BY <1>3, <1>4

LEMMA LabelShows ==
  ASSUME Label
  PROVE  NumberShown
<1> SUFFICES ASSUME asked # Least
             PROVE  /\ \A i \in 0 .. digits_width_ - 1 :
                         Digit(i) = (Absolute(asked) \div Power10[digits_width_ - i - 1]) % 10
                    /\ Absolute(asked) < Power10[digits_width_]
                    /\ digits_width_ > 0 => Digit(0) # 0
  BY DEF NumberShown
<1>1. PICK n \in Nat, k \in Nat : n = digits_ /\ k = digits_width_ /\ n = Absolute(asked) /\ k = Needed(n)
  BY NeededIs DEF Label
<1>2. n < Power10[k] /\ \A j \in Nat : n < Power10[j] => k <= j
  BY <1>1, NeededIs
<1>3. ASSUME NEW i \in 0 .. k - 1
      PROVE  Digit(i) = (n \div Power10[k - i - 1]) % 10
  <2>1. k - i - 1 \in Nat
    OBVIOUS
  <2>2. PICK p \in Nat \ {0} : p = Power10[k - i - 1]
    BY <2>1, Power10Is
  <2>3. PICK q \in Nat : q = n \div p
    BY <2>2, Shares
  <2>4. Digit(i) = Remainder(q, 10)
    <3>1. Quotient(n, p) = n \div p
      BY DEF Quotient
    <3> QED
      BY <1>1, <2>2, <2>3, <3>1 DEF Digit
  <2>5. Remainder(q, 10) = q % 10
    BY DEF Remainder, Quotient
  <2> QED
    BY <2>2, <2>3, <2>4, <2>5
<1>4. ASSUME k > 0
      PROVE  Digit(0) # 0
  <2>1. PICK j \in Nat : j = k - 1 /\ k = j + 1 /\ j = k - 0 - 1 /\ 0 \in 0 .. k - 1 /\ ~(k <= j)
    BY <1>4
  <2>2. PICK p \in Nat \ {0} : p = Power10[j]
    BY Power10Is
  <2>3. p <= n /\ n < 10 * p
    BY <1>2, <2>1, <2>2, Power10Is
  <2>4. PICK q \in Nat, m \in Int : q = n \div p /\ m = q * p /\ m <= n /\ n < m + p
    <3>1. PICK q \in Nat : q = n \div p /\ q * p <= n /\ n < q * p + p
      BY Shares
    <3>2. PICK m \in Int : m = q * p
      OBVIOUS
    <3> QED
      BY <3>1, <3>2
  <2>5. q # 0
    BY <2>3, <2>4
  <2>6. q < 10
    <3>1. SUFFICES ASSUME 10 <= q
                   PROVE  FALSE
      BY <2>4
    <3>2. PICK d \in Nat : q = 10 + d
      <4>1. q - 10 \in Nat /\ q = 10 + (q - 10)
        BY <3>1
      <4> QED
        BY <4>1
    <3>3. m = 10 * p + d * p /\ d * p \in Nat
      BY <2>4, <3>2
    <3> QED
      BY <2>3, <2>4, <3>3
  <2>7. Digit(0) = q % 10
    BY <1>3, <2>1, <2>2, <2>4
  <2> QED
    BY <2>5, <2>6, <2>7
<1> QED
  BY <1>1, <1>2, <1>3, <1>4

(* NumberShown always holds, for an int of any width: a label shows the     *)
(* decimal digits of the absolute value, without leading zeros.             *)
THEOREM NumberAlwaysShown == LabelSpec => []NumberShown
<1>1. LabelInit => Label
  BY LabelStarts
<1>2. Label /\ [LabelNext]_labelVars => Label'
  BY LabelStays
<1>3. Label => NumberShown
  BY LabelShows
<1> QED
  BY <1>1, <1>2, <1>3, PTL DEF LabelSpec
=============================================================================
