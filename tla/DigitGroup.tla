---------------------------- MODULE DigitGroup ----------------------------
(***************************************************************************)
(* DigitGroup3x5: how an int is split into the digits that are shown.      *)
(***************************************************************************)
EXTENDS Integers

CONSTANT Least          (* an int runs from Least to -Least - 1              *)

ASSUME LeastAssumption == Least \in Int /\ Least < 0

IntRange == Least .. -Least - 1

VARIABLES asked,        (* the int given to set_digits()                     *)
          digits_, digits_width_

labelVars == <<asked, digits_, digits_width_>>

(* int arithmetic: division truncates, negation wraps around.              *)
Quotient(a, b) == IF a < 0 THEN -((-a) \div b) ELSE a \div b
Remainder(a, b) == a - b * Quotient(a, b)
NegatedNot(n) == n                                   (* mutant: no negation *)
Negated(n) == IF n = Least THEN Least ELSE -n
Power10[i \in Nat] == IF i = 0 THEN 1 ELSE 10 * Power10[i - 1]

(* while (digits != 0) { digits_width_++; digits /= 10; }                  *)
Width[n \in IntRange] == IF n = 0 THEN 0 ELSE 1 + Width[Quotient(n, 10)]

LabelInit == asked = 0 /\ digits_ = 0 /\ digits_width_ = 0

(* The constructor is a set_digits() as well.                              *)
SetDigits(n) ==
  /\ asked' = n
  /\ digits_' = IF n < 0 THEN Negated(n) ELSE n
  /\ digits_width_' = Width[digits_']

(* The digit shown in column i, an index of the font.                      *)
Digit(i) == Remainder(Quotient(digits_, Power10[digits_width_ - i - 1]), 10)

LabelNext == \E n \in IntRange : SetDigits(n)

LabelSpec == LabelInit /\ [][LabelNext]_labelVars
-----------------------------------------------------------------------------
(* A label shows the decimal digits of the absolute value, without leading *)
(* zeros and nothing for 0; only the least int has no digits.              *)
Absolute(n) == IF n < 0 THEN -n ELSE n

NumberShown ==
  asked # Least =>
    /\ \A i \in 0 .. digits_width_ - 1 :
         Digit(i) = (Absolute(asked) \div Power10[digits_width_ - i - 1]) % 10
    /\ Absolute(asked) < Power10[digits_width_]
    /\ digits_width_ > 0 => Digit(0) # 0
=============================================================================
