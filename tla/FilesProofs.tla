---------------------------- MODULE FilesProofs ----------------------------
(***************************************************************************)
(* What holds of the files that come in and that go out, for any of them.  *)
(* Of the tables that are written for a download, for any number of        *)
(* tables, rows, keys and values and for names of any characters:          *)
(* ExportFaithful.  Of a file that is uploaded, for any pages, rows and    *)
(* limits and whatever the libraries make of it: UploadTrue.               *)
(*                                                                         *)
(* Names, headers, keys and the rows that are kept are made by recursions  *)
(* over data.  What such a recursion computes follows by induction, which  *)
(* is made here of the well-founded order of the naturals: a set of        *)
(* naturals that is not empty has a least element, so one that has 0 and   *)
(* is closed under successors has them all.                                *)
(***************************************************************************)
EXTENDS ExportTables, Upload, Integers, SequenceTheorems, FiniteSetTheorems,
        WellFoundedInduction, TLAPS

-----------------------------------------------------------------------------
(***************************************************************************)
(* Induction, as a fact about sets of naturals, and the existence of the   *)
(* values of a recursion.                                                  *)
(***************************************************************************)

(* A set of naturals that is not empty has a least element, which is what  *)
(* inductions over data are made of here.                                  *)
LEMMA Least == \A T \in SUBSET Nat : T # {} => \E x \in T : \A y \in T : x <= y
<1> SUFFICES ASSUME NEW T \in SUBSET Nat, T # {}
             PROVE  \E x \in T : \A y \in T : x <= y
  OBVIOUS
<1> DEFINE R == {pair \in Nat \X Nat : pair[1] < pair[2]}
<1>1. IsWellFoundedOn(R, Nat)
  BY NatLessThanWellFounded DEF OpToRel
<1>2. \A x, y \in Nat : y < x => <<y, x>> \in R
  OBVIOUS
<1> HIDE DEF R
<1>3. PICK x \in T : \A y \in T : ~ (<<y, x>> \in R)
  BY <1>1, WFMin
<1>4. \A y \in T : ~(y < x)
  BY <1>2, <1>3
<1>5. \A y \in T : x <= y
  BY <1>4
<1> QED  BY <1>5

(* A set that has 0 and the successor of each of its naturals has all.     *)
LEMMA SetInduction ==
    ASSUME NEW S, 0 \in S, \A n \in Nat : n \in S => n + 1 \in S
    PROVE  Nat \subseteq S
<1> SUFFICES ASSUME Nat \ S # {} PROVE FALSE
  OBVIOUS
<1>1. PICK x \in Nat \ S : \A y \in Nat \ S : x <= y
  BY Least
<1>2. x # 0 /\ x - 1 \in Nat /\ x - 1 \in S
  BY <1>1
<1> QED  BY <1>1, <1>2

(* So does one that has each natural of which it has all below.            *)
LEMMA StrongInduction ==
    ASSUME NEW S, \A n \in Nat : (\A k \in 0 .. n - 1 : k \in S) => n \in S
    PROVE  Nat \subseteq S
<1> SUFFICES ASSUME Nat \ S # {} PROVE FALSE
  OBVIOUS
<1>1. PICK x \in Nat \ S : \A y \in Nat \ S : x <= y
  BY Least
<1>2. \A k \in 0 .. x - 1 : k \in S
  BY <1>1
<1> QED  BY <1>1, <1>2

(* g is made from start by m steps: step makes each value of the one       *)
(* before.                                                                 *)
Follows(g, D, start, step, m) ==
    /\ g \in [0 .. m -> D] /\ g[0] = start
    /\ \A n \in 1 .. m : g[n] = step[n][g[n - 1]]

(* Every recursion of this kind has values.                                *)
LEMMA Iterates ==
    ASSUME NEW D, NEW start \in D, NEW step \in [Nat -> [D -> D]], NEW m \in Nat
    PROVE  \E g : Follows(g, D, start, step, m)
<1> DEFINE Good(g, k) == /\ g[0] = start
                         /\ \A n \in 1 .. k : g[n] = step[n][g[n - 1]]
           S == {k \in Nat : \E g \in [0 .. k -> D] : Good(g, k)}
<1>1. 0 \in S
  <2>1. Good([n \in 0 .. 0 |-> start], 0) /\ [n \in 0 .. 0 |-> start] \in [0 .. 0 -> D]
    OBVIOUS
  <2> QED  BY <2>1
<1>2. ASSUME NEW k \in Nat, k \in S PROVE k + 1 \in S
  <2>1. PICK g \in [0 .. k -> D] : Good(g, k)
    BY <1>2
  <2> DEFINE last == step[k + 1][g[k]]
             h == [n \in 0 .. k + 1 |-> IF n = k + 1 THEN last ELSE g[n]]
  <2>2. last \in D
    <3>1. k \in 0 .. k /\ k + 1 \in Nat
      OBVIOUS
    <3>2. g[k] \in D
      BY <2>1, <3>1
    <3>3. step[k + 1] \in [D -> D]
      BY <3>1
    <3> QED  BY <3>2, <3>3
  <2> HIDE DEF last
  <2>3. h \in [0 .. k + 1 -> D]
    <3>1. \A n \in 0 .. k + 1 : n = k + 1 \/ n \in 0 .. k
      OBVIOUS
    <3> QED  BY <2>1, <2>2, <3>1
  <2>4. h[k + 1] = last /\ \A n \in 0 .. k : h[n] = g[n]
    OBVIOUS
  <2> HIDE DEF h
  <2>5. h[0] = start
    <3>1. 0 \in 0 .. k
      OBVIOUS
    <3> QED  BY <2>1, <2>4, <3>1
  <2>6. ASSUME NEW n \in 1 .. k + 1 PROVE h[n] = step[n][h[n - 1]]
    <3>1. CASE n = k + 1
      <4>1. k \in 0 .. k /\ n - 1 = k
        BY <3>1
      <4>2. h[n - 1] = g[k] /\ h[n] = last
        BY <2>4, <3>1, <4>1
      <4> QED  BY <3>1, <4>2 DEF last
    <3>2. CASE n # k + 1
      <4>1. n \in 1 .. k /\ n \in 0 .. k /\ n - 1 \in 0 .. k
        BY <3>2
      <4> QED  BY <2>1, <2>4, <4>1
    <3> QED  BY <3>1, <3>2
  <2>7. Good(h, k + 1)
    BY <2>5, <2>6
  <2> HIDE DEF Good
  <2> QED  BY <2>3, <2>7
<1>3. m \in S
  <2> HIDE DEF S
  <2> QED  BY <1>1, <1>2, SetInduction
<1> QED  BY <1>3 DEF Follows

-----------------------------------------------------------------------------
(***************************************************************************)
(* Decimals. Numbers that are written alike are equal.                     *)
(***************************************************************************)

(* The digits of a number, which is a recursion over the numbers below it. *)
DecimalBody(f, n) ==
    IF n < 10 THEN <<Digits[n + 1]>> ELSE Append(f[n \div 10], Digits[(n % 10) + 1])

(* A number is ten times its tenth and its units.                          *)
LEMMA Tenth ==
    ASSUME NEW n \in Nat
    PROVE  /\ n \div 10 \in Nat /\ n % 10 \in 0 .. 9
           /\ n = 10 * (n \div 10) + (n % 10)
           /\ n >= 10 => n \div 10 \in 0 .. n - 1 /\ n \div 10 >= 1
OBVIOUS

(* Decimal is what its recursive definition says: some function satisfies  *)
(* it, made of those for the numbers up to each number.                    *)
LEMMA DecimalRecursion ==
    \A n \in Nat : Decimal[n] = DecimalBody(Decimal, n)
<1> DEFINE Upto(m, g) == g = [n \in 0 .. m |-> DecimalBody(g, n)]
           S == {m \in Nat : \E g : Upto(m, g)}
<1>0. ASSUME NEW g, NEW h, NEW n \in Nat, n >= 10 => g[n \div 10] = h[n \div 10]
      PROVE  DecimalBody(g, n) = DecimalBody(h, n)
  <2>1. CASE n < 10
    BY <2>1 DEF DecimalBody
  <2>2. CASE n >= 10
    BY <1>0, <2>2 DEF DecimalBody
  <2> QED  BY <2>1, <2>2
<1>1. ASSUME NEW m \in Nat, \A k \in 0 .. m - 1 : k \in S PROVE m \in S
  <2>1. \E g : \A n \in 0 .. m - 1 : g[n] = DecimalBody(g, n)
    <3>1. CASE m = 0
      BY <3>1
    <3>2. CASE m # 0
      <4>1. m - 1 \in Nat /\ m - 1 \in S
        BY <1>1, <3>2
      <4>2. PICK g : Upto(m - 1, g)
        BY <4>1
      <4>3. \A n \in 0 .. m - 1 : g[n] = DecimalBody(g, n)
        BY <4>2
      <4> QED  BY <4>3
    <3> QED  BY <3>1, <3>2
  <2>2. PICK g : \A n \in 0 .. m - 1 : g[n] = DecimalBody(g, n)
    BY <2>1
  <2> DEFINE h == [n \in 0 .. m |-> DecimalBody(g, n)]
  <2>3. \A n \in 0 .. m : h[n] = DecimalBody(g, n)
    OBVIOUS
  <2>4. h = [n \in 0 .. m |-> h[n]]
    OBVIOUS
  <2> HIDE DEF h
  <2>5. \A n \in 0 .. m - 1 : h[n] = g[n]
    <3>1. \A n \in 0 .. m - 1 : n \in 0 .. m
      OBVIOUS
    <3> QED  BY <2>2, <2>3, <3>1
  <2>6. ASSUME NEW n \in 0 .. m PROVE h[n] = DecimalBody(h, n)
    <3>1. n \in Nat /\ (n >= 10 => n \div 10 \in 0 .. m - 1)
      BY Tenth
    <3>2. n >= 10 => g[n \div 10] = h[n \div 10]
      BY <2>5, <3>1
    <3> QED  BY <1>0, <2>3, <3>1, <3>2
  <2>7. Upto(m, h)
    BY <2>4, <2>6
  <2>8. \E f : Upto(m, f)
    <3> HIDE DEF Upto
    <3> QED  BY <2>7
  <2> HIDE DEF Upto
  <2> QED  BY <2>8
<1>2. \A m \in Nat : m \in S
  <2> HIDE DEF S
  <2> QED  BY <1>1, StrongInduction
<1> DEFINE G(m) == CHOOSE g : Upto(m, g)
<1>3. \A m \in Nat : Upto(m, G(m))
  <2> HIDE DEF Upto
  <2> QED  BY <1>2
<1>4. \A m \in Nat : \A n \in 0 .. m : G(m)[n] = DecimalBody(G(m), n)
  <2> TAKE m \in Nat
  <2> DEFINE g == G(m)
  <2>1. g = [n \in 0 .. m |-> DecimalBody(g, n)]
    BY <1>3
  <2> HIDE DEF g
  <2>2. \A n \in 0 .. m : g[n] = DecimalBody(g, n)
    BY <2>1
  <2> QED  BY <2>2 DEF g
<1> HIDE DEF G, S
<1>5. ASSUME NEW m \in Nat, NEW k \in 0 .. m PROVE G(m)[k] = G(k)[k]
  <2> DEFINE T == {n \in Nat : n <= k => G(m)[n] = G(k)[n]}
  <2>1. ASSUME NEW n \in Nat, \A l \in 0 .. n - 1 : l \in T PROVE n \in T
    <3> SUFFICES ASSUME n <= k PROVE G(m)[n] = G(k)[n]
      OBVIOUS
    <3>1. n \in 0 .. m /\ n \in 0 .. k /\ k \in Nat
      OBVIOUS
    <3>2. n >= 10 => G(m)[n \div 10] = G(k)[n \div 10]
      <4>1. n >= 10 => n \div 10 \in 0 .. n - 1 /\ n \div 10 <= k
        BY Tenth
      <4> QED  BY <2>1, <4>1
    <3>3. DecimalBody(G(m), n) = DecimalBody(G(k), n)
      BY <1>0, <3>2
    <3> QED  BY <1>4, <3>1, <3>3
  <2>2. k \in T
    <3> HIDE DEF T
    <3>1. Nat \subseteq T
      BY <2>1, StrongInduction
    <3> QED  BY <3>1
  <2> QED  BY <2>2
<1> DEFINE F == [n \in Nat |-> G(n)[n]]
<1>6. \A n \in Nat : F[n] = G(n)[n]
  OBVIOUS
<1>7. F = [n \in Nat |-> F[n]]
  OBVIOUS
<1> HIDE DEF F
<1>8. ASSUME NEW n \in Nat PROVE F[n] = DecimalBody(F, n)
  <2>1. G(n)[n] = DecimalBody(G(n), n)
    <3>1. n \in 0 .. n
      OBVIOUS
    <3> QED  BY <1>4, <3>1
  <2>2. n >= 10 => F[n \div 10] = G(n)[n \div 10]
    <3>1. n >= 10 => n \div 10 \in 0 .. n /\ n \div 10 \in Nat
      BY Tenth
    <3> QED  BY <1>5, <1>6, <3>1
  <2> QED  BY <1>0, <1>6, <2>1, <2>2
<1>9. \E f : f = [n \in Nat |-> DecimalBody(f, n)]
  <2>1. F = [n \in Nat |-> DecimalBody(F, n)]
    BY <1>7, <1>8
  <2> QED  BY <2>1
<1>10. Decimal = CHOOSE f : f = [n \in Nat |-> DecimalBody(f, n)]
  BY DEF Decimal, DecimalBody
<1>11. Decimal = [n \in Nat |-> DecimalBody(Decimal, n)]
  <2> DEFINE Is(f) == f = [n \in Nat |-> DecimalBody(f, n)]
  <2>1. \E f : Is(f)
    BY <1>9
  <2>2. Decimal = CHOOSE f : Is(f)
    BY <1>10
  <2>3. Is(Decimal)
    <3> HIDE DEF Is
    <3> QED  BY <2>1, <2>2
  <2> QED  BY <2>3
<1> QED  BY <1>11

(* The last digit of a number, and the digits before it.                   *)
DecimalUnits(n) == Digits[(n % 10) + 1]

LEMMA DecimalOf ==
    ASSUME NEW n \in Nat
    PROVE  /\ n < 10 => Decimal[n] = <<Digits[n + 1]>>
           /\ n >= 10 => Decimal[n] = Append(Decimal[n \div 10], DecimalUnits(n))
<1>1. Decimal[n] = DecimalBody(Decimal, n)
  BY DecimalRecursion
<1>2. CASE n < 10
  BY <1>1, <1>2 DEF DecimalBody
<1>3. CASE n >= 10
  <2>1. ~(n < 10)
    BY <1>3
  <2>2. Decimal[n] = Append(Decimal[n \div 10], DecimalUnits(n))
    BY <1>1, <2>1, Zenon DEF DecimalBody, DecimalUnits
  <2> QED  BY <2>1, <2>2
<1> QED  BY <1>2, <1>3

DigitChars == {Digits[n] : n \in 1 .. 10}

(* The ten digits are ten characters, and none of the others.              *)
LEMMA DigitChar ==
    ASSUME NEW i \in 0 .. 9
    PROVE  Digits[i + 1] \in DigitChars
<1>1. i + 1 \in 1 .. 10
  OBVIOUS
<1> QED  BY <1>1 DEF DigitChars

LEMMA DigitsDiffer ==
    /\ Digits[1] = "0" /\ Digits[2] = "1" /\ Digits[3] = "2" /\ Digits[4] = "3"
    /\ Digits[5] = "4" /\ Digits[6] = "5" /\ Digits[7] = "6" /\ Digits[8] = "7"
    /\ Digits[9] = "8" /\ Digits[10] = "9"
BY DEF Digits

LEMMA DigitsApart ==
    ASSUME NEW i \in 0 .. 9, NEW j \in 0 .. 9, Digits[i + 1] = Digits[j + 1]
    PROVE  i = j
<1>1. i \in {0, 1, 2, 3, 4, 5, 6, 7, 8, 9} /\ j \in {0, 1, 2, 3, 4, 5, 6, 7, 8, 9}
  OBVIOUS
<1> QED  BY <1>1, DigitsDiffer

LEMMA DigitIsNoSign ==
    ASSUME NEW c \in DigitChars
    PROVE  c # Underscore /\ c # BlankChar /\ c # "/" /\ c # "A" /\ c # "S"
<1>1. PICK n \in 1 .. 10 : c = Digits[n]
  BY DEF DigitChars
<1>2. n \in {1, 2, 3, 4, 5, 6, 7, 8, 9, 10}
  OBVIOUS
<1>3. c \in {"0", "1", "2", "3", "4", "5", "6", "7", "8", "9"}
  BY <1>1, <1>2, DigitsDiffer
<1>4. c # BlankChar /\ c # Underscore
  BY <1>3, Zenon DEF BlankChar, Underscore
<1>5. c # "/" /\ c # "A" /\ c # "S"
  BY <1>3, Zenon
<1> QED  BY <1>4, <1>5

LEMMA DigitIsNoLetter ==
    ASSUME NEW c \in DigitChars
    PROVE  c # "a" /\ c # "s" /\ c # "c"
<1>1. PICK n \in 1 .. 10 : c = Digits[n]
  BY DEF DigitChars
<1>2. n \in {1, 2, 3, 4, 5, 6, 7, 8, 9, 10}
  OBVIOUS
<1>3. c \in {"0", "1", "2", "3", "4", "5", "6", "7", "8", "9"}
  BY <1>1, <1>2, DigitsDiffer
<1> QED  BY <1>3, Zenon

LEMMA UnitsChar ==
    ASSUME NEW n \in Nat
    PROVE  DecimalUnits(n) \in DigitChars
<1>1. n % 10 \in 0 .. 9
  BY Tenth
<1> QED  BY <1>1, DigitChar DEF DecimalUnits

(* A decimal is a text of digits, and is not empty.                        *)
LEMMA DecimalText ==
    \A n \in Nat : Decimal[n] \in Seq(DigitChars) /\ Len(Decimal[n]) >= 1
<1> DEFINE S == {n \in Nat : Decimal[n] \in Seq(DigitChars) /\ Len(Decimal[n]) >= 1}
<1>1. ASSUME NEW n \in Nat, \A k \in 0 .. n - 1 : k \in S PROVE n \in S
  <2>1. CASE n < 10
    <3>1. Decimal[n] = <<Digits[n + 1]>>
      BY <2>1, DecimalOf
    <3>2. Digits[n + 1] \in DigitChars
      BY <2>1, DigitChar
    <3>3. <<Digits[n + 1]>> \in Seq(DigitChars) /\ Len(<<Digits[n + 1]>>) = 1
      BY <3>2
    <3>4. Decimal[n] \in Seq(DigitChars) /\ Len(Decimal[n]) >= 1
      BY <3>1, <3>3
    <3> QED  BY <3>4
  <2>2. CASE n >= 10
    <3> DEFINE high == Decimal[n \div 10]
               low == DecimalUnits(n)
    <3>1. Decimal[n] = Append(high, low)
      BY <2>2, DecimalOf
    <3>2. low \in DigitChars
      BY UnitsChar
    <3>3. high \in Seq(DigitChars)
      <4>1. n \div 10 \in S
        BY <1>1, <2>2, Tenth
      <4> QED  BY <4>1
    <3> HIDE DEF high, low
    <3>4. /\ Append(high, low) \in Seq(DigitChars)
          /\ Len(Append(high, low)) = Len(high) + 1 /\ Len(high) \in Nat
      BY <3>2, <3>3
    <3>5. Decimal[n] \in Seq(DigitChars) /\ Len(Decimal[n]) >= 1
      BY <3>1, <3>4
    <3> QED  BY <3>5
  <2> QED  BY <2>1, <2>2
<1>2. Nat \subseteq S
  <2> HIDE DEF S
  <2> QED  BY <1>1, StrongInduction
<1> QED  BY <1>2

(* Only numbers below ten have one digit.                                  *)
LEMMA DecimalWidth ==
    ASSUME NEW n \in Nat
    PROVE  n < 10 <=> Len(Decimal[n]) = 1
<1>1. ASSUME n < 10 PROVE Len(Decimal[n]) = 1
  <2>1. Decimal[n] = <<Digits[n + 1]>>
    BY <1>1, DecimalOf
  <2> QED  BY <2>1
<1>2. ASSUME n >= 10 PROVE Len(Decimal[n]) # 1
  <2> DEFINE high == Decimal[n \div 10]
             low == DecimalUnits(n)
  <2>1. Decimal[n] = Append(high, low) /\ low \in DigitChars
    BY <1>2, DecimalOf, UnitsChar
  <2>2. high \in Seq(DigitChars) /\ Len(high) >= 1
    BY Tenth, DecimalText
  <2> HIDE DEF high, low
  <2> QED  BY <2>1, <2>2
<1> QED  BY <1>1, <1>2

(* Numbers that are written alike are equal, by induction over their size. *)
LEMMA DecimalInjective ==
    \A m, n \in Nat : Decimal[m] = Decimal[n] => m = n
<1> DEFINE S == {n \in Nat : \A m \in Nat : Decimal[m] = Decimal[n] => m = n}
<1>1. ASSUME NEW n \in Nat, \A k \in 0 .. n - 1 : k \in S PROVE n \in S
  <2> SUFFICES ASSUME NEW m \in Nat, Decimal[m] = Decimal[n] PROVE m = n
    OBVIOUS
  <2>0. m < 10 <=> n < 10
    BY DecimalWidth
  <2>1. CASE n < 10
    <3>1. <<Digits[m + 1]>> = <<Digits[n + 1]>>
      BY <2>0, <2>1, DecimalOf
    <3>2. Digits[m + 1] = Digits[n + 1]
      BY <3>1
    <3>3. m \in 0 .. 9 /\ n \in 0 .. 9
      BY <2>0, <2>1
    <3> QED  BY <3>2, <3>3, DigitsApart
  <2>2. CASE n >= 10
    <3> DEFINE a == Decimal[m \div 10]
               b == Decimal[n \div 10]
               x == DecimalUnits(m)
               y == DecimalUnits(n)
    <3>1. m >= 10
      BY <2>0, <2>2
    <3>2. Append(a, x) = Append(b, y)
      BY <2>2, <3>1, DecimalOf
    <3>3. /\ m \div 10 \in Nat /\ n \div 10 \in 0 .. n - 1
          /\ m % 10 \in 0 .. 9 /\ n % 10 \in 0 .. 9
      BY <2>2, Tenth
    <3>4. /\ a \in Seq(DigitChars) /\ b \in Seq(DigitChars)
          /\ x \in DigitChars /\ y \in DigitChars
      BY <3>3, DecimalText, UnitsChar
    <3>5. a = b /\ x = y
      <4> HIDE DEF a, b, x, y
      <4> QED  BY <3>2, <3>4, AppendInjective
    <3>6. m \div 10 = n \div 10
      BY <1>1, <3>3, <3>5
    <3>7. m % 10 = n % 10
      BY <3>3, <3>5, DigitsApart DEF DecimalUnits
    <3>8. m = 10 * (m \div 10) + (m % 10) /\ n = 10 * (n \div 10) + (n % 10)
      BY Tenth
    <3> QED  BY <3>6, <3>7, <3>8
  <2> QED  BY <2>1, <2>2
<1>2. Nat \subseteq S
  <2> HIDE DEF S
  <2> QED  BY <1>1, StrongInduction
<1> QED  BY <1>2

-----------------------------------------------------------------------------
(***************************************************************************)
(* Texts: what cutting, trimming, cleaning and the case of letters leave   *)
(* of them. The alphabet is any set of characters with those the code      *)
(* adds.                                                                   *)
(***************************************************************************)

(* What cutting, trimming and cleaning leave of a text.                    *)
Char == STRING \cup DigitChars \cup {Underscore, Quote, "c", "S", "v", "s", ".", "a"}
Word == Seq(Char)

(* What is text in an output is text here.                                 *)
LEMMA CharOfDigits == DigitChars \subseteq Char /\ Text \subseteq Word
<1>1. DigitChars \subseteq Char /\ STRING \subseteq Char
  BY DEF Char
<1> QED  BY <1>1, SeqMonotonic DEF Text, Word

(* A sequence that is changed character by character.                      *)
LEMMA Mapped ==
    ASSUME NEW S, NEW T, NEW t \in Seq(S), NEW f \in [DOMAIN t -> T]
    PROVE  f \in Seq(T) /\ Len(f) = Len(t) /\ DOMAIN f = 1 .. Len(t) /\ DOMAIN f = DOMAIN t
<1>1. DOMAIN t = 1 .. Len(t) /\ Len(t) \in Nat
  BY LenProperties
<1>2. f \in [1 .. Len(t) -> T] /\ DOMAIN f = 1 .. Len(t)
  BY <1>1
<1>3. f \in Seq(T)
  BY <1>1, <1>2, SeqDef
<1>4. Len(f) \in Nat /\ DOMAIN f = 1 .. Len(f)
  BY <1>3, LenProperties
<1>5. Len(f) = Len(t)
  BY <1>1, <1>2, <1>4
<1> QED  BY <1>1, <1>2, <1>3, <1>5

(* What is cut is a beginning, and is not empty unless it was.             *)
LEMMA CutFacts ==
    ASSUME NEW t \in Word, NEW n \in Int
    PROVE  /\ Cut(t, n) \in Word
           /\ n >= 0 => Len(Cut(t, n)) <= n
           /\ n >= 1 /\ t # <<>> => Cut(t, n) # <<>>
           /\ \A i \in DOMAIN Cut(t, n) : i \in DOMAIN t /\ Cut(t, n)[i] = t[i]
<1> DEFINE m == IF n < Len(t) THEN n ELSE Len(t)
<1>1. /\ m \in Int /\ m <= n /\ m <= Len(t) /\ DOMAIN t = 1 .. Len(t) /\ Len(t) \in Nat
      /\ n >= 0 => m >= 0
  BY LenProperties DEF Word
<1>2. \A i \in 1 .. m : t[i] \in Char
  BY <1>1, ElementOfSeq DEF Word
<1>3. Cut(t, n) = SubSeq(t, 1, m)
  BY DEF Cut
<1>4. n >= 1 /\ t # <<>> => m >= 1
  <2>1. t # <<>> => Len(t) >= 1
    BY <1>1, EmptySeq DEF Word
  <2> QED  BY <2>1
<1> HIDE DEF m
<1>5. /\ SubSeq(t, 1, m) \in Seq(Char)
      /\ Len(SubSeq(t, 1, m)) = IF 1 <= m THEN m - 1 + 1 ELSE 0
      /\ \A i \in 1 .. m - 1 + 1 : SubSeq(t, 1, m)[i] = t[1 + i - 1]
  BY <1>1, <1>2, SubSeqProperties
<1> DEFINE c == Cut(t, n)
<1>6. /\ c \in Seq(Char) /\ Len(c) = (IF 1 <= m THEN m ELSE 0)
      /\ \A i \in 1 .. m : c[i] = t[i]
  <2>1. m - 1 + 1 = m /\ \A i \in 1 .. m : 1 + i - 1 = i
    BY <1>1
  <2>2. (IF 1 <= m THEN m - 1 + 1 ELSE 0) = (IF 1 <= m THEN m ELSE 0)
    BY <1>1
  <2> QED  BY <1>3, <1>5, <2>1, <2>2
<1>7. DOMAIN c = 1 .. Len(c)
  BY <1>6, LenProperties
<1> HIDE DEF c
<1>8. \A i \in DOMAIN c : i \in 1 .. m
  BY <1>1, <1>6, <1>7
<1>9. \A i \in DOMAIN c : i \in DOMAIN t /\ c[i] = t[i]
  BY <1>1, <1>6, <1>8
<1>10. n >= 0 => Len(c) <= n
  BY <1>1, <1>6
<1>11. n >= 1 /\ t # <<>> => c # <<>>
  <2>1. c = <<>> => Len(c) = 0
    BY EmptySeq
  <2> QED  BY <1>4, <1>6, <2>1
<1> QED  BY <1>6, <1>9, <1>10, <1>11 DEF c, Word

(* What is stripped begins at the first character that is kept.            *)
LEMMA StrippedFacts ==
    ASSUME NEW t \in Word, NEW C
    PROVE  \/ (\A i \in DOMAIN t : t[i] \in C) /\ Stripped(t, C) = <<>>
           \/ \E a \in DOMAIN t :
                 /\ t[a] \notin C /\ \A i \in DOMAIN t : i < a => t[i] \in C
                 /\ Stripped(t, C) \in Word
                 /\ Len(Stripped(t, C)) = Len(t) - a + 1
                 /\ \A i \in 1 .. Len(t) - a + 1 : Stripped(t, C)[i] = t[a + i - 1]
<1> DEFINE kept == {i \in DOMAIN t : t[i] \notin C}
<1>1. CASE kept = {}
  BY <1>1 DEF Stripped
<1>2. CASE kept # {}
  <2>1. DOMAIN t = 1 .. Len(t) /\ Len(t) \in Nat /\ kept \subseteq Nat
    BY LenProperties DEF Word
  <2> DEFINE a == CHOOSE i \in kept : \A j \in kept : i <= j
  <2>2. a \in kept /\ \A j \in kept : a <= j
    <3> HIDE DEF kept
    <3>1. \E i \in kept : \A j \in kept : i <= j
      BY <1>2, <2>1, Least
    <3> QED  BY <3>1
  <2>3. Stripped(t, C) = SubSeq(t, a, Len(t))
    BY <1>2 DEF Stripped
  <2> HIDE DEF a
  <2>4. a \in DOMAIN t /\ t[a] \notin C
    BY <2>2
  <2>5. \A i \in DOMAIN t : i < a => t[i] \in C
    BY <2>1, <2>2
  <2>6. a \in Int /\ Len(t) \in Int /\ a <= Len(t)
    BY <2>1, <2>4
  <2>7. \A i \in a .. Len(t) : t[i] \in Char
    BY <2>1, <2>4, ElementOfSeq DEF Word
  <2>8. /\ SubSeq(t, a, Len(t)) \in Seq(Char)
        /\ Len(SubSeq(t, a, Len(t))) = IF a <= Len(t) THEN Len(t) - a + 1 ELSE 0
        /\ \A i \in 1 .. Len(t) - a + 1 : SubSeq(t, a, Len(t))[i] = t[a + i - 1]
    BY <2>6, <2>7, SubSeqProperties
  <2> QED  BY <2>3, <2>4, <2>5, <2>6, <2>8 DEF Word
<1> QED  BY <1>1, <1>2

(* Stripped text is text, in it nothing is new, and it is empty only when  *)
(* there was nothing else.                                                 *)
LEMMA StrippedText ==
    ASSUME NEW t \in Word, NEW C
    PROVE  /\ Stripped(t, C) \in Word
           /\ \A i \in DOMAIN Stripped(t, C) :
                 \E j \in DOMAIN t : Stripped(t, C)[i] = t[j]
           /\ (\E i \in DOMAIN t : t[i] \notin C) => Stripped(t, C) # <<>>
           /\ \A j \in DOMAIN t :
                 t[j] \notin C => \E i \in DOMAIN Stripped(t, C) : Stripped(t, C)[i] = t[j]
<1> DEFINE s == Stripped(t, C)
<1>0. DOMAIN t = 1 .. Len(t) /\ Len(t) \in Nat
  BY LenProperties DEF Word
<1>1. CASE (\A i \in DOMAIN t : t[i] \in C) /\ s = <<>>
  <2>1. <<>> \in Seq(Char) /\ DOMAIN <<>> = {}
    BY EmptySeq
  <2> QED  BY <1>1, <2>1 DEF Word
<1>2. ASSUME NEW a \in DOMAIN t, \A i \in DOMAIN t : i < a => t[i] \in C,
             s \in Word, Len(s) = Len(t) - a + 1,
             \A i \in 1 .. Len(t) - a + 1 : s[i] = t[a + i - 1]
      PROVE  /\ s \in Word
             /\ \A i \in DOMAIN s : \E j \in DOMAIN t : s[i] = t[j]
             /\ s # <<>>
             /\ \A j \in DOMAIN t : t[j] \notin C => \E i \in DOMAIN s : s[i] = t[j]
  <2> HIDE DEF s
  <2>1. DOMAIN s = 1 .. Len(s) /\ Len(s) >= 1 /\ Len(s) \in Nat
    BY <1>0, <1>2, LenProperties DEF Word
  <2>2. s # <<>>
    BY <2>1, EmptySeq
  <2>3. ASSUME NEW i \in DOMAIN s PROVE \E j \in DOMAIN t : s[i] = t[j]
    <3>1. a + i - 1 \in DOMAIN t /\ s[i] = t[a + i - 1]
      BY <1>0, <1>2, <2>1
    <3> QED  BY <3>1
  <2>4. ASSUME NEW j \in DOMAIN t, t[j] \notin C PROVE \E i \in DOMAIN s : s[i] = t[j]
    <3>1. j >= a
      BY <1>0, <1>2, <2>4
    <3>2. j - a + 1 \in DOMAIN s /\ j - a + 1 \in 1 .. Len(t) - a + 1
          /\ a + (j - a + 1) - 1 = j
      BY <1>0, <1>2, <2>1, <3>1
    <3>3. s[j - a + 1] = t[a + (j - a + 1) - 1]
      BY <1>2, <3>2
    <3>4. s[j - a + 1] = t[j]
      BY <3>2, <3>3
    <3> QED  BY <3>2, <3>4
  <2> QED  BY <1>2, <2>2, <2>3, <2>4
<1> QED  BY <1>1, <1>2, StrippedFacts

(* A text that starts with something else is left as it is.                *)
LEMMA StrippedNone ==
    ASSUME NEW t \in Word, NEW C, t # <<>>, t[1] \notin C
    PROVE  Stripped(t, C) = t
<1>1. DOMAIN t = 1 .. Len(t) /\ Len(t) \in Nat /\ Len(t) >= 1
  BY LenProperties, EmptySeq DEF Word
<1>2. PICK a \in DOMAIN t :
         /\ \A i \in DOMAIN t : i < a => t[i] \in C
         /\ Stripped(t, C) \in Word /\ Len(Stripped(t, C)) = Len(t) - a + 1
         /\ \A i \in 1 .. Len(t) - a + 1 : Stripped(t, C)[i] = t[a + i - 1]
  <2>1. 1 \in DOMAIN t
    BY <1>1
  <2> QED  BY <2>1, StrippedFacts
<1>3. a = 1
  BY <1>1, <1>2
<1> DEFINE s == Stripped(t, C)
<1>4. s \in Seq(Char) /\ Len(s) = Len(t) /\ \A i \in 1 .. Len(s) : s[i] = t[i]
  <2>1. Len(s) = Len(t)
    BY <1>1, <1>2, <1>3
  <2>2. ASSUME NEW i \in 1 .. Len(s) PROVE s[i] = t[i]
    <3>1. i \in 1 .. Len(t) - a + 1 /\ a + i - 1 = i
      BY <1>1, <1>3, <2>1
    <3> QED  BY <1>2, <3>1
  <2> QED  BY <1>2, <2>1, <2>2 DEF Word
<1> HIDE DEF s
<1>5. s = t
  BY <1>4, SeqEqual DEF Word
<1> QED  BY <1>5 DEF s

(* Reversing changes places only, and twice is not at all.                 *)
LEMMA ReversedFacts ==
    ASSUME NEW t \in Word
    PROVE  /\ Reversed(t) \in Word /\ Len(Reversed(t)) = Len(t)
           /\ \A i \in DOMAIN t : Len(t) + 1 - i \in DOMAIN t
                                  /\ Reversed(t)[i] = t[Len(t) + 1 - i]
<1>1. DOMAIN t = 1 .. Len(t) /\ Len(t) \in Nat
  BY LenProperties DEF Word
<1>2. \A i \in DOMAIN t : Len(t) + 1 - i \in DOMAIN t
  BY <1>1
<1>3. \A i \in DOMAIN t : t[i] \in Char
  BY <1>1, ElementOfSeq DEF Word
<1>4. Reversed(t) \in [DOMAIN t -> Char]
  BY <1>2, <1>3 DEF Reversed
<1>5. Reversed(t) \in Seq(Char) /\ Len(Reversed(t)) = Len(t)
  BY <1>4, Mapped DEF Word
<1> QED  BY <1>2, <1>5 DEF Word, Reversed

LEMMA ReversedTwice ==
    ASSUME NEW t \in Word
    PROVE  Reversed(Reversed(t)) = t
<1> DEFINE r == Reversed(t)
<1>1. r \in Word /\ Len(r) = Len(t) /\ \A i \in DOMAIN t : r[i] = t[Len(t) + 1 - i]
  BY ReversedFacts
<1> HIDE DEF r
<1> DEFINE q == Reversed(r)
<1>2. q \in Word /\ Len(q) = Len(t) /\ \A i \in DOMAIN r : q[i] = r[Len(r) + 1 - i]
  BY <1>1, ReversedFacts
<1> HIDE DEF q
<1>3. DOMAIN t = 1 .. Len(t) /\ DOMAIN r = 1 .. Len(t) /\ Len(t) \in Nat
  BY <1>1, LenProperties DEF Word
<1>4. ASSUME NEW i \in 1 .. Len(q) PROVE q[i] = t[i]
  <2>1. Len(t) + 1 - i \in DOMAIN t /\ i \in DOMAIN r /\ Len(t) + 1 - (Len(t) + 1 - i) = i
    BY <1>2, <1>3
  <2>2. q[i] = r[Len(t) + 1 - i]
    BY <1>1, <1>2, <2>1
  <2>3. r[Len(t) + 1 - i] = t[Len(t) + 1 - (Len(t) + 1 - i)]
    BY <1>1, <2>1
  <2> QED  BY <2>1, <2>2, <2>3
<1>5. q = t
  BY <1>2, <1>4, SeqEqual DEF Word
<1> QED  BY <1>5 DEF q, r

(* Trimmed text is text, in it nothing is new, and it is empty only when   *)
(* all of it was blank.                                                    *)
LEMMA TrimText ==
    ASSUME NEW t \in Word
    PROVE  /\ Trim(t) \in Word
           /\ \A i \in DOMAIN Trim(t) : \E j \in DOMAIN t : Trim(t)[i] = t[j]
           /\ (\E j \in DOMAIN t : t[j] # BlankChar) <=> Trim(t) # <<>>
<1> DEFINE C == {BlankChar}
           s == Stripped(t, C)
<1> HIDE DEF C
<1>1. /\ s \in Word
      /\ \A i \in DOMAIN s : \E j \in DOMAIN t : s[i] = t[j]
      /\ \A j \in DOMAIN t : t[j] \notin C => \E i \in DOMAIN s : s[i] = t[j]
  BY StrippedText
<1> HIDE DEF s
<1> DEFINE r == Reversed(s)
<1>2. /\ r \in Word /\ Len(r) = Len(s)
      /\ \A i \in DOMAIN s : Len(s) + 1 - i \in DOMAIN s /\ r[i] = s[Len(s) + 1 - i]
  BY <1>1, ReversedFacts
<1>3. DOMAIN r = 1 .. Len(s) /\ DOMAIN s = 1 .. Len(s) /\ Len(s) \in Nat
  BY <1>1, <1>2, LenProperties DEF Word
<1> HIDE DEF r
<1> DEFINE q == Stripped(r, C)
<1>4. /\ q \in Word
      /\ \A i \in DOMAIN q : \E j \in DOMAIN r : q[i] = r[j]
      /\ \A j \in DOMAIN r : r[j] \notin C => \E i \in DOMAIN q : q[i] = r[j]
  BY <1>2, StrippedText
<1>5. \/ (\A i \in DOMAIN r : r[i] \in C) /\ q = <<>>
      \/ \E a \in DOMAIN r : r[a] \notin C
  BY <1>2, StrippedFacts
<1> HIDE DEF q
<1> DEFINE p == Reversed(q)
<1>6. /\ p \in Word /\ Len(p) = Len(q)
      /\ \A i \in DOMAIN q : Len(q) + 1 - i \in DOMAIN q /\ p[i] = q[Len(q) + 1 - i]
  BY <1>4, ReversedFacts
<1>7. DOMAIN p = 1 .. Len(q) /\ DOMAIN q = 1 .. Len(q) /\ Len(q) \in Nat
  BY <1>4, <1>6, LenProperties DEF Word
<1> HIDE DEF p
<1>8. Trim(t) = p
  BY DEF Trim, p, q, r, s, C
<1>9. ASSUME NEW i \in DOMAIN p PROVE \E j \in DOMAIN t : p[i] = t[j]
  <2>1. PICK k \in DOMAIN r : p[i] = r[k]
    <3>1. Len(q) + 1 - i \in DOMAIN q /\ p[i] = q[Len(q) + 1 - i]
      BY <1>6, <1>7
    <3> QED  BY <1>4, <3>1
  <2>2. PICK l \in DOMAIN s : p[i] = s[l]
    <3>1. Len(s) + 1 - k \in DOMAIN s /\ r[k] = s[Len(s) + 1 - k]
      BY <1>2, <1>3
    <3> QED  BY <2>1, <3>1
  <2> QED  BY <1>1, <2>2
<1>10. ASSUME NEW j \in DOMAIN t, t[j] # BlankChar PROVE p # <<>>
  <2>1. PICK i \in DOMAIN s : s[i] = t[j]
    BY <1>1, <1>10 DEF C
  <2>2. Len(s) + 1 - i \in DOMAIN s /\ Len(s) + 1 - (Len(s) + 1 - i) = i
    BY <1>2, <1>3
  <2>3. Len(s) + 1 - i \in DOMAIN r /\ r[Len(s) + 1 - i] = s[Len(s) + 1 - (Len(s) + 1 - i)]
    BY <1>2, <1>3, <2>2
  <2>4. r[Len(s) + 1 - i] \notin C
    BY <1>10, <2>1, <2>2, <2>3 DEF C
  <2>5. PICK k \in DOMAIN q : TRUE
    BY <1>4, <2>3, <2>4
  <2>6. Len(p) # 0
    BY <1>6, <1>7, <2>5
  <2> QED  BY <2>6, EmptySeq
<1>11. ASSUME p # <<>> PROVE \E j \in DOMAIN t : t[j] # BlankChar
  <2>1. q # <<>>
    <3>1. Len(p) # 0 /\ Len(<<>>) = 0
      BY <1>6, <1>11, EmptySeq DEF Word
    <3> QED  BY <1>6, <3>1
  <2>2. PICK a \in DOMAIN r : r[a] \notin C
    BY <1>5, <2>1
  <2>3. Len(s) + 1 - a \in DOMAIN s /\ r[a] = s[Len(s) + 1 - a]
    BY <1>2, <1>3
  <2>4. PICK j \in DOMAIN t : r[a] = t[j]
    BY <1>1, <2>3
  <2> QED  BY <2>2, <2>4 DEF C
<1> QED  BY <1>6, <1>8, <1>9, <1>10, <1>11

(* Text without blanks at its ends stays as it is.                         *)
LEMMA TrimNone ==
    ASSUME NEW t \in Word, t # <<>>, t[1] # BlankChar, t[Len(t)] # BlankChar
    PROVE  Trim(t) = t
<1>1. Stripped(t, {BlankChar}) = t
  BY StrippedNone
<1> DEFINE r == Reversed(t)
<1>2. Len(t) \in Nat /\ Len(t) >= 1 /\ DOMAIN t = 1 .. Len(t)
  BY LenProperties, EmptySeq DEF Word
<1>3. r \in Word /\ r[1] = t[Len(t)] /\ Len(r) = Len(t)
  <2>1. 1 \in DOMAIN t /\ Len(t) + 1 - 1 = Len(t)
    BY <1>2
  <2> QED  BY <2>1, ReversedFacts
<1>4. r # <<>>
  BY <1>2, <1>3, EmptySeq
<1> HIDE DEF r
<1>5. Stripped(r, {BlankChar}) = r
  BY <1>3, <1>4, StrippedNone
<1> QED  BY <1>1, <1>5, ReversedTwice DEF Trim, r

(* A character without its case.                                           *)
LowerChar(x) == IF x \in DOMAIN Capital THEN Capital[x] ELSE x

(* Texts that differ in case only are as long, and signs and digits of     *)
(* theirs stand in the same places.                                        *)
LEMMA LowerFacts ==
    ASSUME NEW t \in Word
    PROVE  /\ Lower(t) \in Word /\ Len(Lower(t)) = Len(t) /\ DOMAIN Lower(t) = DOMAIN t
           /\ \A i \in DOMAIN t : /\ t[i] \notin {"A", "S"} => Lower(t)[i] = t[i]
                                  /\ t[i] \in {"A", "S"} => Lower(t)[i] \in {"a", "s"}
<1>1. DOMAIN Capital = {"A", "S"} /\ Capital["A"] = "a" /\ Capital["S"] = "s"
  BY DEF Capital
<1>2. \A i \in DOMAIN t : t[i] \in Char
  <2>1. DOMAIN t = 1 .. Len(t)
    BY LenProperties DEF Word
  <2> QED  BY <2>1, ElementOfSeq DEF Word
<1>3. ASSUME NEW i \in DOMAIN t
      PROVE  /\ Lower(t)[i] \in Char
             /\ t[i] \notin {"A", "S"} => Lower(t)[i] = t[i]
             /\ t[i] \in {"A", "S"} => Lower(t)[i] \in {"a", "s"}
  <2>1. Lower(t)[i] = IF t[i] \in {"A", "S"} THEN Capital[t[i]] ELSE t[i]
    BY <1>1 DEF Lower
  <2>2. CASE t[i] \notin {"A", "S"}
    BY <1>2, <2>1, <2>2
  <2>3. CASE t[i] \in {"A", "S"}
    <3>1. Lower(t)[i] \in {"a", "s"}
      BY <1>1, <2>1, <2>3
    <3>2. {"a", "s"} \subseteq Char
      BY DEF Char
    <3> QED  BY <2>3, <3>1, <3>2
  <2> QED  BY <2>2, <2>3
<1>4. Lower(t) \in [DOMAIN t -> Char]
  BY <1>3 DEF Lower
<1>5. Lower(t) \in Seq(Char) /\ Len(Lower(t)) = Len(t) /\ DOMAIN Lower(t) = DOMAIN t
  BY <1>4, Mapped DEF Word
<1> QED  BY <1>3, <1>5 DEF Word

(* Texts that are alike are as long, with the same digits and underscores  *)
(* at the same places.                                                     *)
LEMMA AlikeFacts ==
    ASSUME NEW s \in Word, NEW t \in Word, Alike(s, t)
    PROVE  /\ Len(s) = Len(t)
           /\ \A i \in DOMAIN s : s[i] \in DigitChars \cup {Underscore} => t[i] = s[i]
<1>1. /\ DOMAIN Lower(s) = DOMAIN s /\ Len(Lower(s)) = Len(s)
      /\ \A i \in DOMAIN s : s[i] \notin {"A", "S"} => Lower(s)[i] = s[i]
  BY LowerFacts
<1>2. /\ DOMAIN Lower(t) = DOMAIN t /\ Len(Lower(t)) = Len(t)
      /\ \A i \in DOMAIN t : /\ t[i] \notin {"A", "S"} => Lower(t)[i] = t[i]
                             /\ t[i] \in {"A", "S"} => Lower(t)[i] \in {"a", "s"}
  BY LowerFacts
<1>3. Lower(s) = Lower(t)
  BY DEF Alike
<1>4. Len(s) = Len(t) /\ DOMAIN s = DOMAIN t
  BY <1>1, <1>2, <1>3
<1>5. ASSUME NEW i \in DOMAIN s, s[i] \in DigitChars \cup {Underscore} PROVE t[i] = s[i]
  <2>1. s[i] \notin {"A", "S"} /\ s[i] \notin {"a", "s"}
    <3>1. Underscore \notin {"A", "S", "a", "s"}
      BY Zenon DEF Underscore
    <3>2. CASE s[i] \in DigitChars
      BY <3>2, DigitIsNoSign, DigitIsNoLetter
    <3>3. CASE s[i] = Underscore
      BY <3>1, <3>3
    <3> QED  BY <1>5, <3>2, <3>3
  <2>2. Lower(t)[i] = s[i]
    BY <1>1, <1>3, <2>1
  <2>3. t[i] \notin {"A", "S"}
    BY <1>2, <1>4, <2>1, <2>2
  <2> QED  BY <1>2, <1>4, <2>2, <2>3
<1> QED  BY <1>4, <1>5

(* Texts are alike when they are so character by character.                *)
LEMMA AlikeCharacters ==
    ASSUME NEW s \in Word, NEW t \in Word
    PROVE  Alike(s, t) <=> /\ Len(s) = Len(t)
                           /\ \A i \in DOMAIN s : LowerChar(s[i]) = LowerChar(t[i])
<1>1. /\ DOMAIN s = 1 .. Len(s) /\ DOMAIN t = 1 .. Len(t)
      /\ Len(s) \in Nat /\ Len(t) \in Nat
  BY LenProperties DEF Word
<1>2. /\ Lower(s) = [i \in DOMAIN s |-> LowerChar(s[i])]
      /\ Lower(t) = [i \in DOMAIN t |-> LowerChar(t[i])]
  BY DEF Lower, LowerChar
<1>3. ASSUME Alike(s, t)
      PROVE  Len(s) = Len(t) /\ \A i \in DOMAIN s : LowerChar(s[i]) = LowerChar(t[i])
  <2>1. Lower(s) = Lower(t)
    BY <1>3 DEF Alike
  <2>2. DOMAIN s = DOMAIN t
    BY <1>2, <2>1
  <2>3. Len(s) = Len(t)
    BY <1>3, AlikeFacts
  <2> QED  BY <1>2, <2>1, <2>2, <2>3
<1>4. ASSUME Len(s) = Len(t), \A i \in DOMAIN s : LowerChar(s[i]) = LowerChar(t[i])
      PROVE  Alike(s, t)
  BY <1>1, <1>2, <1>4 DEF Alike
<1> QED  BY <1>3, <1>4

(* A blank is alike to a blank only.                                       *)
LEMMA LowerBlank ==
    ASSUME NEW x, NEW y, LowerChar(x) = LowerChar(y)
    PROVE  x = BlankChar <=> y = BlankChar
<1>1. DOMAIN Capital = {"A", "S"} /\ Capital["A"] = "a" /\ Capital["S"] = "s"
  BY DEF Capital
<1>2. BlankChar \notin {"A", "S", "a", "s"}
  BY Zenon DEF BlankChar
<1>3. \A z : /\ z \in {"A", "S"} => LowerChar(z) \in {"a", "s"}
             /\ z \notin {"A", "S"} => LowerChar(z) = z
  BY <1>1 DEF LowerChar
<1> QED  BY <1>2, <1>3

(* Alike texts stay alike without their leading blanks, ...                *)
LEMMA AlikeStripped ==
    ASSUME NEW s \in Word, NEW t \in Word, Alike(s, t)
    PROVE  Alike(Stripped(s, {BlankChar}), Stripped(t, {BlankChar}))
<1> DEFINE C == {BlankChar}
           p == Stripped(s, C)
           q == Stripped(t, C)
<1>1. /\ Len(s) = Len(t) /\ DOMAIN s = 1 .. Len(s) /\ DOMAIN t = 1 .. Len(s)
      /\ Len(s) \in Nat
      /\ \A i \in DOMAIN s : /\ LowerChar(s[i]) = LowerChar(t[i])
                             /\ s[i] \in C <=> t[i] \in C
  <2>1. /\ Len(s) = Len(t) /\ Len(s) \in Nat /\ DOMAIN s = 1 .. Len(s)
        /\ DOMAIN t = 1 .. Len(t)
        /\ \A i \in DOMAIN s : LowerChar(s[i]) = LowerChar(t[i])
    BY AlikeCharacters, LenProperties DEF Word
  <2>2. \A i \in DOMAIN s : s[i] = BlankChar <=> t[i] = BlankChar
    BY <2>1, LowerBlank
  <2> QED  BY <2>1, <2>2
<1> HIDE DEF C
<1>2. CASE \A i \in DOMAIN s : s[i] \in C
  <2>1. p = <<>> /\ q = <<>>
    BY <1>1, <1>2, StrippedFacts
  <2> QED  BY <2>1 DEF Alike, p, q, C
<1>3. CASE ~ \A i \in DOMAIN s : s[i] \in C
  <2>0. /\ ~ \A i \in DOMAIN s : s[i] \in C
        /\ ~ \A i \in DOMAIN t : t[i] \in C
    BY <1>1, <1>3
  <2>s.  /\ \/ (\A i \in DOMAIN s : s[i] \in C) /\ p = <<>>
            \/ \E a \in DOMAIN s :
                  /\ s[a] \notin C /\ \A i \in DOMAIN s : i < a => s[i] \in C
                  /\ p \in Word /\ Len(p) = Len(s) - a + 1
                  /\ \A i \in 1 .. Len(s) - a + 1 : p[i] = s[a + i - 1]
         /\ \/ (\A i \in DOMAIN t : t[i] \in C) /\ q = <<>>
            \/ \E a \in DOMAIN t :
                  /\ t[a] \notin C /\ \A i \in DOMAIN t : i < a => t[i] \in C
                  /\ q \in Word /\ Len(q) = Len(t) - a + 1
                  /\ \A i \in 1 .. Len(t) - a + 1 : q[i] = t[a + i - 1]
    BY StrippedFacts
  <2> HIDE DEF p, q
  <2>1. PICK a \in DOMAIN s :
           /\ s[a] \notin C /\ \A i \in DOMAIN s : i < a => s[i] \in C
           /\ p \in Word /\ Len(p) = Len(s) - a + 1
           /\ \A i \in 1 .. Len(s) - a + 1 : p[i] = s[a + i - 1]
    BY <2>0, <2>s, Zenon
  <2>2. PICK b \in DOMAIN t :
           /\ t[b] \notin C /\ \A i \in DOMAIN t : i < b => t[i] \in C
           /\ q \in Word /\ Len(q) = Len(t) - b + 1
           /\ \A i \in 1 .. Len(t) - b + 1 : q[i] = t[b + i - 1]
    BY <2>0, <2>s, Zenon
  <2>3. a = b
    BY <1>1, <2>1, <2>2
  <2>4. Len(p) = Len(q) /\ DOMAIN p = 1 .. Len(s) - a + 1
    BY <1>1, <2>1, <2>2, <2>3, LenProperties DEF Word
  <2>5. ASSUME NEW i \in DOMAIN p PROVE LowerChar(p[i]) = LowerChar(q[i])
    <3>1. /\ i \in 1 .. Len(s) - a + 1 /\ i \in 1 .. Len(t) - b + 1
          /\ a + i - 1 \in DOMAIN s
      BY <1>1, <2>3, <2>4
    <3>2. p[i] = s[a + i - 1] /\ q[i] = t[a + i - 1]
      BY <2>1, <2>2, <2>3, <3>1
    <3> QED  BY <1>1, <3>1, <3>2
  <2>6. Alike(p, q)
    BY <2>1, <2>2, <2>4, <2>5, AlikeCharacters
  <2> QED  BY <2>6 DEF p, q, C
<1> QED  BY <1>2, <1>3

(* ... reversed, ...                                                       *)
LEMMA AlikeReversed ==
    ASSUME NEW s \in Word, NEW t \in Word, Alike(s, t)
    PROVE  Alike(Reversed(s), Reversed(t))
<1> DEFINE p == Reversed(s)
           q == Reversed(t)
<1>1. /\ p \in Word /\ Len(p) = Len(s) /\ q \in Word /\ Len(q) = Len(t)
      /\ \A i \in DOMAIN s : Len(s) + 1 - i \in DOMAIN s /\ p[i] = s[Len(s) + 1 - i]
      /\ \A i \in DOMAIN t : Len(t) + 1 - i \in DOMAIN t /\ q[i] = t[Len(t) + 1 - i]
  BY ReversedFacts
<1> HIDE DEF p, q
<1>2. /\ DOMAIN p = 1 .. Len(s) /\ DOMAIN s = 1 .. Len(s) /\ DOMAIN t = 1 .. Len(t)
      /\ Len(s) = Len(t) /\ \A i \in DOMAIN s : LowerChar(s[i]) = LowerChar(t[i])
  BY <1>1, AlikeCharacters, LenProperties DEF Word
<1>3. \A i \in DOMAIN p : LowerChar(p[i]) = LowerChar(q[i])
  BY <1>1, <1>2
<1>4. Alike(p, q)
  BY <1>1, <1>2, <1>3, AlikeCharacters
<1> QED  BY <1>4 DEF p, q

(* ... and so trimmed.                                                     *)
LEMMA AlikeTrim ==
    ASSUME NEW s \in Word, NEW t \in Word, Alike(s, t)
    PROVE  Alike(Trim(s), Trim(t))
<1> DEFINE C == {BlankChar}
           p == Stripped(s, C)
           q == Stripped(t, C)
<1>1. p \in Word /\ q \in Word /\ Alike(p, q)
  BY AlikeStripped, StrippedText
<1> HIDE DEF p, q
<1>2. Reversed(p) \in Word /\ Reversed(q) \in Word /\ Alike(Reversed(p), Reversed(q))
  BY <1>1, AlikeReversed, ReversedFacts
<1> DEFINE u == Stripped(Reversed(p), C)
           v == Stripped(Reversed(q), C)
<1>3. u \in Word /\ v \in Word /\ Alike(u, v)
  BY <1>2, AlikeStripped, StrippedText
<1> HIDE DEF u, v
<1>4. Alike(Reversed(u), Reversed(v))
  BY <1>3, AlikeReversed
<1>5. Trim(s) = Reversed(u) /\ Trim(t) = Reversed(v)
  BY DEF Trim, u, v, p, q
<1> QED  BY <1>4, <1>5

(* A text with an apostrophe before it.                                    *)
LEMMA QuotedFacts ==
    ASSUME NEW h \in Word
    PROVE  LET t == <<Quote>> \o h
           IN  /\ t \in Word /\ Len(t) = Len(h) + 1 /\ t # h
               /\ DOMAIN t = 1 .. Len(h) + 1 /\ DOMAIN t \subseteq Nat \ {0}
               /\ t[1] = Quote /\ \A i \in DOMAIN h : t[i + 1] = h[i]
<1> DEFINE b == <<Quote>>
           t == b \o h
<1>1. b \in Seq(Char) /\ Len(b) = 1 /\ b[1] = Quote
  <2>1. Quote \in Char
    BY DEF Char
  <2> QED  BY <2>1
<1> HIDE DEF b
<1>2. /\ t \in Seq(Char) /\ Len(t) = Len(b) + Len(h)
      /\ \A i \in 1 .. Len(b) + Len(h) : t[i] = IF i <= Len(b) THEN b[i] ELSE h[i - Len(b)]
  BY <1>1, ConcatProperties DEF Word
<1> HIDE DEF t
<1>3. Len(h) \in Nat /\ DOMAIN h = 1 .. Len(h) /\ DOMAIN t = 1 .. Len(h) + 1
  BY <1>1, <1>2, LenProperties DEF Word
<1>4. t[1] = Quote /\ t # h /\ Len(t) = Len(h) + 1 /\ DOMAIN t \subseteq Nat \ {0}
  BY <1>1, <1>2, <1>3
<1>5. ASSUME NEW i \in DOMAIN h PROVE t[i + 1] = h[i]
  <2>1. i + 1 \in 1 .. 1 + Len(h) /\ ~(i + 1 <= 1) /\ i + 1 - 1 = i
    BY <1>3
  <2> QED  BY <1>1, <1>2, <2>1
<1> QED  BY <1>2, <1>3, <1>4, <1>5 DEF Word, t, b

(* Texts that are alike with an apostrophe are so without.                 *)
LEMMA AlikeQuoted ==
    ASSUME NEW s \in Word, NEW t \in Word, Alike(<<Quote>> \o s, <<Quote>> \o t)
    PROVE  Alike(s, t)
<1> DEFINE p == <<Quote>> \o s
           q == <<Quote>> \o t
<1>1. /\ p \in Word /\ Len(p) = Len(s) + 1 /\ DOMAIN p = 1 .. Len(s) + 1
      /\ q \in Word /\ Len(q) = Len(t) + 1
      /\ \A i \in DOMAIN s : p[i + 1] = s[i]
      /\ \A i \in DOMAIN t : q[i + 1] = t[i]
      /\ Alike(p, q)
  BY QuotedFacts
<1> HIDE DEF p, q
<1>2. Len(p) = Len(q) /\ \A i \in DOMAIN p : LowerChar(p[i]) = LowerChar(q[i])
  BY <1>1, AlikeCharacters
<1>3. /\ DOMAIN s = 1 .. Len(s) /\ DOMAIN t = 1 .. Len(t)
      /\ Len(s) \in Nat /\ Len(t) \in Nat
  BY LenProperties DEF Word
<1>4. Len(s) = Len(t)
  <2> DEFINE m == Len(s)
             n == Len(t)
  <2>1. m + 1 = n + 1 /\ m \in Nat /\ n \in Nat
    BY <1>1, <1>2, <1>3
  <2> HIDE DEF m, n
  <2>2. m = n
    BY <2>1
  <2> QED  BY <2>2 DEF m, n
<1>5. ASSUME NEW i \in DOMAIN s PROVE LowerChar(s[i]) = LowerChar(t[i])
  <2>1. i + 1 \in DOMAIN p /\ i \in DOMAIN t
    BY <1>1, <1>3, <1>4
  <2> QED  BY <1>1, <1>2, <2>1
<1> QED  BY <1>4, <1>5, AlikeCharacters

(* To be alike goes both ways.                                             *)
LEMMA AlikeSame == ASSUME NEW s, NEW t PROVE Alike(s, t) => Alike(t, s)
BY DEF Alike

(* A suffix is an underscore and digits.                                   *)
LEMMA SuffixFacts ==
    ASSUME NEW k \in Nat
    PROVE  /\ Suffix(k) \in Word /\ Len(Suffix(k)) = Len(Decimal[k]) + 1
           /\ Len(Suffix(k)) \in Nat /\ Len(Suffix(k)) >= 2
           /\ Suffix(k)[1] = Underscore
           /\ \A i \in DOMAIN Decimal[k] : /\ i + 1 \in DOMAIN Suffix(k)
                                           /\ Suffix(k)[i + 1] = Decimal[k][i]
           /\ \A i \in DOMAIN Suffix(k) : i > 1 => Suffix(k)[i] \in DigitChars
<1> DEFINE d == Decimal[k]
           s == Suffix(k)
<1>1. d \in Seq(DigitChars) /\ Len(d) >= 1
  BY DecimalText
<1>2. /\ d \in Seq(Char) /\ <<Underscore>> \in Seq(Char)
      /\ Len(<<Underscore>>) = 1 /\ <<Underscore>>[1] = Underscore
  <2>1. d \in Seq(Char)
    BY <1>1, CharOfDigits, SeqMonotonic
  <2>2. Underscore \in Char
    BY DEF Char
  <2> QED  BY <2>1, <2>2
<1>3. s = <<Underscore>> \o d
  BY DEF Suffix
<1> HIDE DEF d, s
<1>4. /\ s \in Seq(Char) /\ Len(s) = 1 + Len(d)
      /\ \A i \in 1 .. 1 + Len(d) : s[i] = IF i <= 1 THEN <<Underscore>>[i] ELSE d[i - 1]
  BY <1>2, <1>3, ConcatProperties
<1>5. Len(d) \in Nat /\ DOMAIN d = 1 .. Len(d) /\ DOMAIN s = 1 .. Len(s)
  BY <1>1, <1>4, LenProperties
<1>6. s[1] = Underscore
  BY <1>2, <1>4, <1>5
<1>7. ASSUME NEW i \in DOMAIN d PROVE i + 1 \in DOMAIN s /\ s[i + 1] = d[i]
  <2>1. i + 1 \in 1 .. 1 + Len(d) /\ ~(i + 1 <= 1) /\ i + 1 - 1 = i
    BY <1>5
  <2> QED  BY <1>4, <1>5, <2>1
<1>8. ASSUME NEW i \in DOMAIN s, i > 1 PROVE s[i] \in DigitChars
  <2>1. i - 1 \in 1 .. Len(d) /\ ~(i <= 1) /\ i \in 1 .. 1 + Len(d)
    BY <1>4, <1>5, <1>8
  <2>2. s[i] = d[i - 1]
    BY <1>4, <2>1
  <2> QED  BY <1>1, <2>1, <2>2, ElementOfSeq
<1> QED  BY <1>1, <1>4, <1>5, <1>6, <1>7, <1>8 DEF d, s, Word

(* A name that was numbered shows its number: what follows the last sign.  *)
LEMMA Numbered ==
    ASSUME NEW p \in Word, NEW k \in Nat, NEW q \in Word, NEW l \in Nat,
           Alike(p \o Suffix(k), q \o Suffix(l))
    PROVE  k = l
<1> DEFINE s == p \o Suffix(k)
           t == q \o Suffix(l)
           a == Len(Suffix(k))
           b == Len(Suffix(l))
<1>1. /\ Suffix(k) \in Word /\ a = Len(Decimal[k]) + 1 /\ a \in Nat /\ a >= 2
      /\ Suffix(k)[1] = Underscore /\ DOMAIN Suffix(k) = 1 .. a
      /\ \A i \in DOMAIN Decimal[k] : /\ i + 1 \in DOMAIN Suffix(k)
                                      /\ Suffix(k)[i + 1] = Decimal[k][i]
      /\ \A i \in DOMAIN Suffix(k) : i > 1 => Suffix(k)[i] \in DigitChars
  BY SuffixFacts, LenProperties DEF Word
<1>2. /\ Suffix(l) \in Word /\ b = Len(Decimal[l]) + 1 /\ b \in Nat /\ b >= 2
      /\ Suffix(l)[1] = Underscore /\ DOMAIN Suffix(l) = 1 .. b
      /\ \A i \in DOMAIN Decimal[l] : /\ i + 1 \in DOMAIN Suffix(l)
                                      /\ Suffix(l)[i + 1] = Decimal[l][i]
      /\ \A i \in DOMAIN Suffix(l) : i > 1 => Suffix(l)[i] \in DigitChars
  BY SuffixFacts, LenProperties DEF Word
<1>3. /\ s \in Word /\ Len(s) = Len(p) + a /\ Len(p) \in Nat
      /\ \A i \in 1 .. Len(p) + a :
            s[i] = IF i <= Len(p) THEN p[i] ELSE Suffix(k)[i - Len(p)]
  BY <1>1, ConcatProperties, LenProperties DEF Word
<1>4. /\ t \in Word /\ Len(t) = Len(q) + b /\ Len(q) \in Nat
      /\ \A i \in 1 .. Len(q) + b :
            t[i] = IF i <= Len(q) THEN q[i] ELSE Suffix(l)[i - Len(q)]
  BY <1>2, ConcatProperties, LenProperties DEF Word
<1>5. Alike(s, t) /\ Alike(t, s)
  BY AlikeSame
<1> HIDE DEF s, t, a, b
<1>6. /\ DOMAIN s = 1 .. Len(s) /\ DOMAIN t = 1 .. Len(t)
      /\ Len(s) = Len(t)
      /\ \A i \in DOMAIN s : s[i] \in DigitChars \cup {Underscore} => t[i] = s[i]
      /\ \A i \in DOMAIN t : t[i] \in DigitChars \cup {Underscore} => s[i] = t[i]
  BY <1>3, <1>4, <1>5, AlikeFacts, LenProperties DEF Word
<1>7. Underscore \notin DigitChars
  BY DigitIsNoSign
<1>8. Len(p) = Len(q)
  <2>1. \A i \in 1 .. a : /\ Len(p) + i \in DOMAIN s
                          /\ s[Len(p) + i] = Suffix(k)[i]
    <3> TAKE i \in 1 .. a
    <3>1. /\ Len(p) + i \in 1 .. Len(p) + a /\ ~(Len(p) + i <= Len(p))
          /\ Len(p) + i - Len(p) = i
      BY <1>1, <1>3
    <3> QED  BY <1>3, <1>6, <3>1
  <2>2. \A i \in 1 .. b : /\ Len(q) + i \in DOMAIN t
                          /\ t[Len(q) + i] = Suffix(l)[i]
    <3> TAKE i \in 1 .. b
    <3>1. /\ Len(q) + i \in 1 .. Len(q) + b /\ ~(Len(q) + i <= Len(q))
          /\ Len(q) + i - Len(q) = i
      BY <1>2, <1>4
    <3> QED  BY <1>4, <1>6, <3>1
  <2>3. ASSUME Len(p) < Len(q) PROVE FALSE
    <3> DEFINE i == Len(q) - Len(p) + 1
    <3>1. i \in 1 .. a /\ i > 1 /\ Len(p) + i = Len(q) + 1 /\ 1 \in 1 .. b
      BY <1>1, <1>2, <1>3, <1>4, <1>6, <2>3
    <3> HIDE DEF i
    <3>2. s[Len(p) + i] \in DigitChars
      BY <1>1, <2>1, <3>1
    <3>3. t[Len(q) + 1] = Underscore /\ Len(q) + 1 \in DOMAIN t
      BY <1>2, <2>2, <3>1
    <3>4. s[Len(q) + 1] = Underscore
      BY <1>6, <3>3
    <3> QED  BY <1>7, <3>1, <3>2, <3>4
  <2>4. ASSUME Len(q) < Len(p) PROVE FALSE
    <3> DEFINE i == Len(p) - Len(q) + 1
    <3>1. i \in 1 .. b /\ i > 1 /\ Len(q) + i = Len(p) + 1 /\ 1 \in 1 .. a
      BY <1>1, <1>2, <1>3, <1>4, <1>6, <2>4
    <3> HIDE DEF i
    <3>2. t[Len(q) + i] \in DigitChars
      BY <1>2, <2>2, <3>1
    <3>3. s[Len(p) + 1] = Underscore /\ Len(p) + 1 \in DOMAIN s
      BY <1>1, <2>1, <3>1
    <3>4. t[Len(p) + 1] = Underscore
      BY <1>6, <3>3
    <3> QED  BY <1>7, <3>1, <3>2, <3>4
  <2> QED  BY <1>3, <1>4, <2>3, <2>4
<1>9. a = b
  BY <1>1, <1>2, <1>3, <1>4, <1>6, <1>8
<1>10. /\ Decimal[k] \in Seq(DigitChars) /\ Decimal[l] \in Seq(DigitChars)
       /\ DOMAIN Decimal[k] = 1 .. Len(Decimal[k]) /\ DOMAIN Decimal[l] = 1 .. Len(Decimal[l])
       /\ Len(Decimal[k]) \in Nat /\ Len(Decimal[l]) = Len(Decimal[k])
  <2>1. Decimal[k] \in Seq(DigitChars) /\ Decimal[l] \in Seq(DigitChars)
    BY DecimalText
  <2>2. Len(Decimal[k]) \in Nat /\ Len(Decimal[l]) \in Nat
    BY <2>1, LenProperties
  <2> QED  BY <1>1, <1>2, <1>9, <2>1, <2>2, LenProperties
<1>11. ASSUME NEW i \in 1 .. Len(Decimal[k]) PROVE Decimal[k][i] = Decimal[l][i]
  <2>1. Suffix(k)[i + 1] = Decimal[k][i] /\ Suffix(l)[i + 1] = Decimal[l][i]
    BY <1>1, <1>2, <1>10
  <2>2. /\ Len(p) + i + 1 \in 1 .. Len(p) + a /\ ~(Len(p) + i + 1 <= Len(p))
        /\ Len(p) + i + 1 - Len(p) = i + 1 /\ Len(p) + i + 1 \in 1 .. Len(q) + b
    BY <1>1, <1>3, <1>8, <1>9, <1>10
  <2>3. /\ s[Len(p) + i + 1] = Suffix(k)[i + 1] /\ Len(p) + i + 1 \in DOMAIN s
        /\ t[Len(p) + i + 1] = Suffix(l)[i + 1]
    BY <1>3, <1>4, <1>6, <1>8, <2>2
  <2>4. Decimal[k][i] \in DigitChars
    BY <1>10, ElementOfSeq
  <2> QED  BY <1>6, <2>1, <2>3, <2>4
<1>12. Decimal[k] = Decimal[l]
  BY <1>10, <1>11, SeqEqual
<1> QED  BY <1>12, DecimalInjective

-----------------------------------------------------------------------------
(***************************************************************************)
(* Names. One that is tried for a base is sound when the base is; of one   *)
(* more candidates than there are names some is free, for no name is like  *)
(* two of them; so the names of all sheets are apart.                      *)
(***************************************************************************)

(* What may name a sheet or a file.                                        *)
NoSlash(t) == \A i \in DOMAIN t : t[i] # "/"
Sound(t) ==
    /\ t \in Word /\ t # <<>> /\ NoSlash(t)
    /\ format = "xlsx" => Len(t) <= MaxSheetName

(* A cleaned text is as long, has no slash, and no blank that was none.    *)
LEMMA CleanedFacts ==
    ASSUME NEW t \in Word
    PROVE  /\ Cleaned(t, {"/"}) \in Word /\ NoSlash(Cleaned(t, {"/"}))
           /\ DOMAIN Cleaned(t, {"/"}) = DOMAIN t
           /\ \A i \in DOMAIN t : t[i] # BlankChar => Cleaned(t, {"/"})[i] # BlankChar
           /\ t # <<>> => Cleaned(t, {"/"}) # <<>>
<1> DEFINE c == Cleaned(t, {"/"})
<1>1. \A i \in DOMAIN t : c[i] = IF t[i] = "/" THEN Underscore ELSE t[i]
  BY DEF Cleaned
<1>2. Underscore # "/" /\ Underscore # BlankChar
  BY Zenon DEF Underscore, BlankChar
<1>3. \A i \in DOMAIN t : t[i] \in Char
  <2>1. DOMAIN t = 1 .. Len(t)
    BY LenProperties DEF Word
  <2> QED  BY <2>1, ElementOfSeq DEF Word
<1>4. c \in [DOMAIN t -> Char]
  BY <1>3 DEF Cleaned, Char
<1>5. c \in Seq(Char) /\ DOMAIN c = DOMAIN t /\ Len(c) = Len(t)
  BY <1>4, Mapped DEF Word
<1>6. t # <<>> => c # <<>>
  <2>1. t # <<>> => Len(t) # 0
    BY EmptySeq DEF Word
  <2>2. c = <<>> => Len(c) = 0
    BY EmptySeq
  <2> QED  BY <1>5, <2>1, <2>2
<1> HIDE DEF c
<1>7. NoSlash(c)
  BY <1>1, <1>2, <1>5 DEF NoSlash
<1>8. \A i \in DOMAIN t : t[i] # BlankChar => c[i] # BlankChar
  BY <1>1, <1>2
<1> QED  BY <1>5, <1>6, <1>7, <1>8 DEF c, Word

(* There is no slash in what is made of characters of a text without one.  *)
LEMMA NoSlashKept ==
    ASSUME NEW s, NEW t, NoSlash(t), \A i \in DOMAIN s : \E j \in DOMAIN t : s[i] = t[j]
    PROVE  NoSlash(s)
BY DEF NoSlash

(* The title of a sheet, and the name of a file, before they are numbered. *)
LEMMA SheetTitleSound ==
    ASSUME NEW name \in Word, Trim(name) # <<>>
    PROVE  /\ SheetTitle(name) \in Word /\ SheetTitle(name) # <<>>
           /\ NoSlash(SheetTitle(name)) /\ Len(SheetTitle(name)) <= MaxSheetName
<1> DEFINE c == Cleaned(name, {"/"})
<1>1. /\ c \in Word /\ NoSlash(c) /\ DOMAIN c = DOMAIN name
      /\ \A i \in DOMAIN name : name[i] # BlankChar => c[i] # BlankChar
  BY CleanedFacts
<1> HIDE DEF c
<1> DEFINE t == Trim(c)
<1>2. \E j \in DOMAIN name : name[j] # BlankChar
  BY TrimText
<1>3. \E j \in DOMAIN c : c[j] # BlankChar
  BY <1>1, <1>2
<1>4. /\ t \in Word /\ t # <<>>
      /\ \A i \in DOMAIN t : \E j \in DOMAIN c : t[i] = c[j]
  BY <1>1, <1>3, TrimText
<1> HIDE DEF t
<1>5. NoSlash(t)
  BY <1>1, <1>4, NoSlashKept
<1>6. MaxSheetName \in Int /\ MaxSheetName >= 1
  BY ExportTablesAssumption
<1> DEFINE r == Cut(t, MaxSheetName)
<1>7. /\ r \in Word /\ Len(r) <= MaxSheetName /\ r # <<>>
      /\ \A i \in DOMAIN r : i \in DOMAIN t /\ r[i] = t[i]
  BY <1>4, <1>6, CutFacts
<1> HIDE DEF r
<1>8. NoSlash(r)
  BY <1>5, <1>7 DEF NoSlash
<1> QED  BY <1>7, <1>8 DEF SheetTitle, r, t, c

LEMMA CsvStemSound ==
    ASSUME NEW name \in Word
    PROVE  CsvStem(name) \in Word /\ CsvStem(name) # <<>> /\ NoSlash(CsvStem(name))
<1> DEFINE blanks == {BlankChar}
           dots == {".", Underscore}
           a == Stripped(name, blanks)
           c == Cleaned(a, {"/"})
           bare == Stripped(c, dots)
           stem == Stripped(bare, blanks)
<1> HIDE DEF blanks, dots
<1>1. a \in Word
  BY StrippedText
<1> HIDE DEF a
<1>2. c \in Word /\ NoSlash(c)
  BY <1>1, CleanedFacts
<1> HIDE DEF c
<1>3. bare \in Word /\ \A i \in DOMAIN bare : \E j \in DOMAIN c : bare[i] = c[j]
  BY <1>2, StrippedText
<1> HIDE DEF bare
<1>4. NoSlash(bare)
  BY <1>2, <1>3, NoSlashKept
<1>5. stem \in Word /\ \A i \in DOMAIN stem : \E j \in DOMAIN bare : stem[i] = bare[j]
  BY <1>3, StrippedText
<1> HIDE DEF stem
<1>6. NoSlash(stem)
  BY <1>4, <1>5, NoSlashKept
<1> DEFINE csv == <<"c", "s", "v">>
           dotted == <<".", "c", "s", "v">>
<1>7. csv \in Word /\ csv # <<>> /\ NoSlash(csv)
  <2>1. "c" \in Char /\ "s" \in Char /\ "v" \in Char
    BY DEF Char
  <2>2. csv \in Seq(Char) /\ Len(csv) = 3 /\ DOMAIN csv = 1 .. 3
    BY <2>1
  <2>3. csv # <<>>
    BY <2>2, EmptySeq
  <2>4. csv[1] = "c" /\ csv[2] = "s" /\ csv[3] = "v"
    OBVIOUS
  <2>5. \A i \in 1 .. 3 : i = 1 \/ i = 2 \/ i = 3
    OBVIOUS
  <2> HIDE DEF csv
  <2>6. NoSlash(csv)
    BY <2>2, <2>4, <2>5 DEF NoSlash
  <2> QED  BY <2>2, <2>3, <2>6 DEF Word
<1>8. dotted \in Word /\ dotted # <<>> /\ NoSlash(dotted)
  <2>1. "c" \in Char /\ "s" \in Char /\ "v" \in Char /\ "." \in Char
    BY DEF Char
  <2>2. dotted \in Seq(Char) /\ Len(dotted) = 4 /\ DOMAIN dotted = 1 .. 4
    BY <2>1
  <2>3. dotted # <<>>
    BY <2>2, EmptySeq
  <2>4. dotted[1] = "." /\ dotted[2] = "c" /\ dotted[3] = "s" /\ dotted[4] = "v"
    OBVIOUS
  <2>5. \A i \in 1 .. 4 : i = 1 \/ i = 2 \/ i = 3 \/ i = 4
    OBVIOUS
  <2> HIDE DEF dotted
  <2>6. NoSlash(dotted)
    BY <2>2, <2>4, <2>5 DEF NoSlash
  <2> QED  BY <2>2, <2>3, <2>6 DEF Word
<1> HIDE DEF csv, dotted
<1>9. CsvStem(name) = IF bare = <<>> THEN csv ELSE IF stem = <<>> THEN dotted ELSE stem
  BY DEF CsvStem, stem, bare, c, a, csv, dotted, blanks, dots
<1> QED  BY <1>5, <1>6, <1>7, <1>8, <1>9

LEMMA BaseSound ==
    ASSUME NEW table, table.name \in Word, Trim(table.name) # <<>>
    PROVE  Sound(Base(table))
BY SheetTitleSound, CsvStemSound DEF Base, Sound

(* What is joined is sound when both parts are.                            *)
LEMMA Joined ==
    ASSUME NEW p \in Word, NEW s \in Word
    PROVE  /\ p \o s \in Word /\ Len(p \o s) = Len(p) + Len(s)
           /\ s # <<>> => p \o s # <<>>
           /\ NoSlash(p) /\ NoSlash(s) => NoSlash(p \o s)
           /\ Len(p) \in Nat /\ Len(s) \in Nat
<1> DEFINE r == p \o s
<1>1. /\ r \in Seq(Char) /\ Len(r) = Len(p) + Len(s)
      /\ \A i \in 1 .. Len(p) + Len(s) : r[i] = IF i <= Len(p) THEN p[i] ELSE s[i - Len(p)]
  BY ConcatProperties DEF Word
<1> HIDE DEF r
<1>2. /\ Len(p) \in Nat /\ Len(s) \in Nat /\ DOMAIN p = 1 .. Len(p) /\ DOMAIN s = 1 .. Len(s)
      /\ DOMAIN r = 1 .. Len(r)
  BY <1>1, LenProperties DEF Word
<1>3. s # <<>> => r # <<>>
  <2>1. s # <<>> => Len(s) # 0
    BY EmptySeq DEF Word
  <2>2. r = <<>> => Len(r) = 0
    BY EmptySeq
  <2> QED  BY <1>1, <1>2, <2>1, <2>2
<1>4. ASSUME NoSlash(p), NoSlash(s), NEW i \in DOMAIN r PROVE r[i] # "/"
  <2>1. i \in 1 .. Len(p) + Len(s)
    BY <1>1, <1>2
  <2>2. CASE i <= Len(p)
    <3>1. i \in DOMAIN p /\ r[i] = p[i]
      BY <1>1, <1>2, <2>1, <2>2
    <3> QED  BY <1>4, <3>1 DEF NoSlash
  <2>3. CASE ~(i <= Len(p))
    <3>1. i - Len(p) \in DOMAIN s /\ r[i] = s[i - Len(p)]
      BY <1>1, <1>2, <2>1, <2>3
    <3> QED  BY <1>4, <3>1 DEF NoSlash
  <2> QED  BY <2>2, <2>3
<1>5. NoSlash(p) /\ NoSlash(s) => NoSlash(r)
  BY <1>4 DEF NoSlash
<1> QED  BY <1>1, <1>2, <1>3, <1>5 DEF r, Word

(* A suffix has no slash.                                                  *)
LEMMA SuffixSound ==
    ASSUME NEW k \in Nat
    PROVE  /\ Suffix(k) \in Word /\ Suffix(k) # <<>>
           /\ NoSlash(Suffix(k)) /\ Len(Suffix(k)) \in Nat
<1> DEFINE s == Suffix(k)
<1>1. /\ s \in Word /\ Len(s) \in Nat /\ Len(s) >= 2 /\ s[1] = Underscore
      /\ \A i \in DOMAIN s : i > 1 => s[i] \in DigitChars
  BY SuffixFacts
<1> HIDE DEF s
<1>2. DOMAIN s = 1 .. Len(s)
  BY <1>1, LenProperties DEF Word
<1>3. Underscore # "/"
  BY Zenon DEF Underscore
<1>4. ASSUME NEW i \in DOMAIN s PROVE s[i] # "/"
  <2>1. CASE i = 1
    BY <1>1, <1>3, <2>1
  <2>2. CASE i # 1
    <3>1. s[i] \in DigitChars
      BY <1>1, <1>2, <2>2
    <3> QED  BY <3>1, DigitIsNoSign
  <2> QED  BY <2>1, <2>2
<1>5. s # <<>>
  <2>1. s = <<>> => Len(s) = 0
    BY EmptySeq
  <2> QED  BY <1>1, <2>1
<1> QED  BY <1>1, <1>4, <1>5 DEF NoSlash, s

(* A name that is tried for a base: the base, or some beginning with its   *)
(* number.                                                                 *)
LEMMA CandidateFacts ==
    ASSUME NEW base \in Word, NEW k \in Nat
    PROVE  /\ Candidate(base, k) \in Word
           /\ k # 0 => \E p \in Word : Candidate(base, k) = p \o Suffix(k)
           /\ Sound(base) /\ (k # 0 => Len(Suffix(k)) <= MaxSheetName)
                 => Sound(Candidate(base, k))
<1>1. MaxSheetName \in Nat
  BY ExportTablesAssumption
<1>2. CASE k = 0
  BY <1>2 DEF Candidate
<1>3. CASE k # 0
  <2> DEFINE s == Suffix(k)
  <2>1. s \in Word /\ s # <<>> /\ NoSlash(s) /\ Len(s) \in Nat
    BY SuffixSound
  <2> HIDE DEF s
  <2> DEFINE cut == Cut(base, MaxSheetName - Len(s))
             p == IF format = "csv" THEN base ELSE cut
  <2>2. /\ cut \in Word
        /\ MaxSheetName - Len(s) >= 0 => Len(cut) <= MaxSheetName - Len(s)
        /\ \A i \in DOMAIN cut : i \in DOMAIN base /\ cut[i] = base[i]
    <3>1. MaxSheetName - Len(s) \in Int
      BY <1>1, <2>1
    <3> QED  BY <3>1, CutFacts
  <2>3. p \in Word
    BY <2>2
  <2>4. Candidate(base, k) = p \o s
    BY <1>3 DEF Candidate, s
  <2>5. NoSlash(base) => NoSlash(p)
    BY <2>2 DEF NoSlash
  <2>6. format = "xlsx" /\ Len(s) <= MaxSheetName => Len(p) <= MaxSheetName - Len(s)
    BY <1>1, <2>1, <2>2
  <2> HIDE DEF p
  <2>7. /\ p \o s \in Word /\ Len(p \o s) = Len(p) + Len(s) /\ p \o s # <<>>
        /\ NoSlash(p) => NoSlash(p \o s)
        /\ Len(p) \in Nat
    BY <2>1, <2>3, Joined
  <2>8. Sound(base) /\ Len(s) <= MaxSheetName => Sound(p \o s)
    <3>1. format = "xlsx" /\ Len(s) <= MaxSheetName => Len(p \o s) <= MaxSheetName
      BY <1>1, <2>1, <2>6, <2>7
    <3> QED  BY <2>5, <2>7, <3>1 DEF Sound
  <2> QED  BY <1>3, <2>3, <2>4, <2>7, <2>8 DEF s
<1> QED  BY <1>2, <1>3

(* No name is like two numbered candidates of a base.                      *)
LEMMA CandidatesDiffer ==
    ASSUME NEW base \in Word, NEW k \in Nat \ {0}, NEW l \in Nat \ {0},
           NEW t, Alike(t, Candidate(base, k)), Alike(t, Candidate(base, l))
    PROVE  k = l
<1>1. PICK p \in Word : Candidate(base, k) = p \o Suffix(k)
  BY CandidateFacts
<1>2. PICK q \in Word : Candidate(base, l) = q \o Suffix(l)
  BY CandidateFacts
<1>3. Alike(p \o Suffix(k), q \o Suffix(l))
  BY <1>1, <1>2 DEF Alike
<1> QED  BY <1>3, Numbered

(* Of one more candidate than there are names, one is not taken.           *)
LEMMA SomeFree ==
    ASSUME NEW names \in Seq(Word), NEW base \in Word
    PROVE  \E k \in 0 .. Len(names) + 1 : ~Taken(names, Candidate(base, k))
<1> SUFFICES ASSUME \A k \in 0 .. Len(names) + 1 : Taken(names, Candidate(base, k))
             PROVE  FALSE
  OBVIOUS
<1> DEFINE n == Len(names)
           S == 1 .. n + 1
           T == 1 .. n
           Holder(k) == CHOOSE i \in T : Alike(names[i], Candidate(base, k))
           f == [k \in S |-> Holder(k)]
<1>1. n \in Nat /\ DOMAIN names = T
  BY LenProperties
<1>2. ASSUME NEW k \in S PROVE Holder(k) \in T /\ Alike(names[Holder(k)], Candidate(base, k))
  <2>1. k \in 0 .. n + 1
    BY <1>1
  <2>2. \E i \in T : Alike(names[i], Candidate(base, k))
    BY <1>1, <2>1 DEF Taken
  <2> QED  BY <2>2
<1> HIDE DEF Holder
<1>3. f \in [S -> T]
  BY <1>2
<1>4. IsFiniteSet(S) /\ IsFiniteSet(T) /\ Cardinality(T) < Cardinality(S)
  <2>1. /\ IsFiniteSet(1 .. n + 1)
        /\ Cardinality(1 .. n + 1) = IF 1 > n + 1 THEN 0 ELSE n + 1 - 1 + 1
    <3>1. 1 \in Int /\ n + 1 \in Int
      BY <1>1
    <3> QED  BY <3>1, FS_Interval
  <2>2. IsFiniteSet(1 .. n) /\ Cardinality(1 .. n) = IF 1 > n THEN 0 ELSE n - 1 + 1
    <3>1. 1 \in Int /\ n \in Int
      BY <1>1
    <3> QED  BY <3>1, FS_Interval
  <2> QED  BY <1>1, <2>1, <2>2
<1> HIDE DEF f, S, T
<1>5. PICK x, y \in S : x # y /\ f[x] = f[y]
  BY <1>3, <1>4, FS_PigeonHole
<1>6. Holder(x) = Holder(y)
  BY <1>5 DEF f
<1>7. /\ Alike(names[Holder(x)], Candidate(base, x))
      /\ Alike(names[Holder(x)], Candidate(base, y))
  BY <1>2, <1>5, <1>6
<1>8. x \in Nat \ {0} /\ y \in Nat \ {0}
  BY <1>1, <1>5 DEF S
<1> QED  BY <1>5, <1>7, <1>8, CandidatesDiffer

(* So the name that is chosen is a candidate that is free, the first.      *)
LEMMA NextNameFacts ==
    ASSUME NEW names \in Seq(Word), NEW base \in Word
    PROVE  \E k \in 0 .. Len(names) + 1 :
              NextName(names, base) = Candidate(base, k) /\ ~Taken(names, Candidate(base, k))
<1> DEFINE m == Len(names) + 1
           Free == {k \in 0 .. m : ~Taken(names, Candidate(base, k))}
           First(k) == /\ ~Taken(names, Candidate(base, k))
                       /\ \A l \in 0 .. k - 1 : Taken(names, Candidate(base, l))
<1>1. Free # {} /\ Free \subseteq Nat
  BY SomeFree
<1>2. PICK k \in Free : \A l \in Free : k <= l
  <2> HIDE DEF Free
  <2> QED  BY <1>1, Least
<1>3. k \in 0 .. m /\ First(k)
  <2>1. ASSUME NEW l \in 0 .. k - 1 PROVE Taken(names, Candidate(base, l))
    <3>1. l \in 0 .. m /\ ~(k <= l)
      BY <1>2, LenProperties
    <3> QED  BY <1>2, <3>1
  <2> QED  BY <1>2, <2>1
<1> DEFINE c == CHOOSE j \in 0 .. m : First(j)
<1>4. c \in 0 .. m /\ First(c)
  <2> HIDE DEF First, m
  <2> QED  BY <1>3
<1>5. NextName(names, base) = Candidate(base, c)
  BY DEF NextName
<1> HIDE DEF c
<1> QED  BY <1>4, <1>5

(* The names of the sheets that are made so far.                           *)
Named(names) ==
    /\ names \in Seq(Word)
    /\ \A i \in DOMAIN names :
          /\ Sound(names[i])
          /\ \A j \in DOMAIN names : i # j => ~Alike(names[i], names[j])

(* Names that are apart stay so with the next.                             *)
LEMMA NextNamed ==
    ASSUME NEW names, Named(names), NEW base, Sound(base),
           \A k \in 1 .. Len(names) + 1 : Len(Suffix(k)) <= MaxSheetName
    PROVE  Named(Append(names, NextName(names, base)))
<1>1. names \in Seq(Word) /\ base \in Word
  BY DEF Named, Sound
<1> DEFINE next == NextName(names, base)
           more == Append(names, next)
           m == Len(names)
<1>2. PICK k \in 0 .. Len(names) + 1 :
         next = Candidate(base, k) /\ ~Taken(names, Candidate(base, k))
  BY <1>1, NextNameFacts
<1>3. m \in Nat /\ DOMAIN names = 1 .. m
  BY <1>1, LenProperties
<1>4. k \in Nat /\ (k # 0 => k \in 1 .. m + 1)
  BY <1>2, <1>3
<1>5. k # 0 => Len(Suffix(k)) <= MaxSheetName
  BY <1>4
<1>6. Sound(next)
  BY <1>1, <1>2, <1>4, <1>5, CandidateFacts
<1>7. \A i \in DOMAIN names : ~Alike(names[i], next) /\ ~Alike(next, names[i])
  BY <1>2, AlikeSame DEF Taken
<1> HIDE DEF next
<1>8. next \in Word
  BY <1>6 DEF Sound
<1>9. /\ more \in Seq(Word) /\ DOMAIN more = 1 .. m + 1 /\ more[m + 1] = next
      /\ \A i \in DOMAIN names : more[i] = names[i]
  <2>1. more \in Seq(Word) /\ Len(more) = m + 1
    BY <1>1, <1>8
  <2>2. DOMAIN more = 1 .. m + 1
    BY <2>1, LenProperties
  <2>3. more[m + 1] = next /\ \A i \in 1 .. m : more[i] = names[i]
    BY <1>1, <1>3, <1>8
  <2> QED  BY <1>3, <2>1, <2>2, <2>3
<1>10. \A i \in 1 .. m + 1 : i = m + 1 \/ i \in DOMAIN names
  BY <1>3
<1>11. m + 1 \notin DOMAIN names
  BY <1>3
<1> HIDE DEF more, m
<1>12. ASSUME NEW i \in DOMAIN more PROVE Sound(more[i])
  <2>1. CASE i \in DOMAIN names
    BY <1>9, <2>1 DEF Named
  <2>2. CASE i = m + 1
    BY <1>6, <1>9, <2>2
  <2> QED  BY <1>9, <1>10, <2>1, <2>2
<1>13. ASSUME NEW i \in DOMAIN more, NEW j \in DOMAIN more, i # j
       PROVE  ~Alike(more[i], more[j])
  <2>1. CASE i \in DOMAIN names /\ j \in DOMAIN names
    BY <1>9, <1>13, <2>1 DEF Named
  <2>2. CASE i = m + 1
    BY <1>7, <1>9, <1>10, <1>13, <2>2
  <2>3. CASE j = m + 1
    BY <1>7, <1>9, <1>10, <1>13, <2>3
  <2> QED  BY <1>9, <1>10, <2>1, <2>2, <2>3
<1>14. Named(more)
  BY <1>9, <1>12, <1>13 DEF Named
<1> QED  BY <1>14 DEF more, next

(* The recursion that makes the names has its values.                      *)
LEMMA NamesRecursion ==
    ASSUME NEW ts, Len(ts) \in Nat, \A i \in 1 .. Len(ts) : Base(ts[i]) \in Word
    PROVE  \E f : /\ Names(ts) = f[Len(ts)] /\ f[0] = <<>>
                  /\ \A n \in 1 .. Len(ts) :
                        f[n] = Append(f[n - 1], NextName(f[n - 1], Base(ts[n])))
<1>0. PICK m \in Nat : m = Len(ts)
  OBVIOUS
<1>12. PICK D : D = Seq(Word)
  OBVIOUS
<1> DEFINE Is(f) == f = [n \in 0 .. m |->
                          IF n = 0 THEN <<>>
                          ELSE Append(f[n - 1], NextName(f[n - 1], Base(ts[n])))]
           name == CHOOSE f : Is(f)
<1>1. Names(ts) = name[m]
  BY <1>0 DEF Names
<1>2. ASSUME NEW x \in D, NEW n \in 1 .. m
      PROVE  Append(x, NextName(x, Base(ts[n]))) \in D
  <2>1. Base(ts[n]) \in Word
    BY <1>0
  <2>2. PICK k \in 0 .. Len(x) + 1 : NextName(x, Base(ts[n])) = Candidate(Base(ts[n]), k)
    BY <1>12, <2>1, NextNameFacts
  <2>3. NextName(x, Base(ts[n])) \in Word
    BY <1>12, <2>1, <2>2, CandidateFacts
  <2> QED  BY <1>12, <2>3
<1>3. PICK step \in [Nat -> [D -> D]] :
         \A n \in 1 .. m : \A x \in D : step[n][x] = Append(x, NextName(x, Base(ts[n])))
  <2> DEFINE to == [n \in Nat |-> [x \in D |->
                      IF n \in 1 .. m THEN Append(x, NextName(x, Base(ts[n]))) ELSE x]]
  <2>1. to \in [Nat -> [D -> D]]
    BY <1>2
  <2>2. \A n \in 1 .. m : \A x \in D : to[n][x] = Append(x, NextName(x, Base(ts[n])))
    OBVIOUS
  <2> QED  BY <2>1, <2>2
<1>4. PICK start \in D : start = <<>>
  BY <1>12, EmptySeq
<1>11. PICK g : Follows(g, D, start, step, m)
  BY Iterates
<1>13. /\ g \in [0 .. m -> D] /\ g[0] = start
       /\ \A n \in 1 .. m : g[n] = step[n][g[n - 1]]
  BY <1>11 DEF Follows
<1>5. ASSUME NEW n \in 1 .. m
      PROVE  g[n] = Append(g[n - 1], NextName(g[n - 1], Base(ts[n])))
  <2>1. n - 1 \in 0 .. m /\ n \in Nat
    OBVIOUS
  <2>2. g[n - 1] \in D
    BY <1>13, <2>1
  <2>3. step[n][g[n - 1]] = Append(g[n - 1], NextName(g[n - 1], Base(ts[n])))
    BY <1>3, <2>2
  <2> QED  BY <1>13, <2>3
<1>6. Is(g)
  <2> DEFINE body == [n \in 0 .. m |->
                        IF n = 0 THEN <<>>
                        ELSE Append(g[n - 1], NextName(g[n - 1], Base(ts[n])))]
  <2>1. \A n \in 0 .. m : g[n] = body[n]
    <3>1. \A n \in 0 .. m : n = 0 \/ n \in 1 .. m
      OBVIOUS
    <3> QED  BY <1>4, <1>5, <1>13, <3>1
  <2>2. g = [n \in 0 .. m |-> g[n]] /\ body = [n \in 0 .. m |-> body[n]]
    BY <1>13
  <2> HIDE DEF body
  <2>3. g = body
    BY <2>1, <2>2
  <2> QED  BY <2>3 DEF body
<1>7. Is(name)
  <2> HIDE DEF Is
  <2> QED  BY <1>6
<1> HIDE DEF name
<1>8. name[0] = <<>>
  BY <1>7
<1>9. \A n \in 1 .. m : name[n] = Append(name[n - 1], NextName(name[n - 1], Base(ts[n])))
  <2>1. \A n \in 1 .. m : n \in 0 .. m /\ n # 0
    OBVIOUS
  <2> QED  BY <1>7, <2>1
<1> QED  BY <1>0, <1>1, <1>8, <1>9

(* The sheets of tables that were let pass are named apart.                *)
LEMMA NamesNamed ==
    ASSUME NEW ts, Len(ts) \in Nat, \A i \in 1 .. Len(ts) : Sound(Base(ts[i])),
           \A k \in 1 .. Len(ts) : Len(Suffix(k)) <= MaxSheetName
    PROVE  Named(Names(ts)) /\ Len(Names(ts)) = Len(ts)
<1> DEFINE m == Len(ts)
<1>1. PICK f : /\ Names(ts) = f[m] /\ f[0] = <<>>
               /\ \A n \in 1 .. m : f[n] = Append(f[n - 1], NextName(f[n - 1], Base(ts[n])))
  <2>1. \A i \in 1 .. Len(ts) : Base(ts[i]) \in Word
    BY DEF Sound
  <2> QED  BY <2>1, NamesRecursion
<1> DEFINE S == {n \in Nat : n <= m => Named(f[n]) /\ Len(f[n]) = n}
<1>2. 0 \in S
  <2>1. Named(<<>>) /\ Len(<<>>) = 0
    BY EmptySeq DEF Named
  <2> QED  BY <1>1, <2>1
<1>3. ASSUME NEW n \in Nat, n \in S PROVE n + 1 \in S
  <2> SUFFICES ASSUME n + 1 <= m PROVE Named(f[n + 1]) /\ Len(f[n + 1]) = n + 1
    OBVIOUS
  <2>1. n + 1 \in 1 .. m /\ n + 1 - 1 = n /\ n <= m
    OBVIOUS
  <2>2. f[n + 1] = Append(f[n], NextName(f[n], Base(ts[n + 1])))
    BY <1>1, <2>1
  <2>3. Named(f[n]) /\ Len(f[n]) = n
    BY <1>3, <2>1
  <2>4. Sound(Base(ts[n + 1]))
    BY <2>1
  <2>5. \A k \in 1 .. Len(f[n]) + 1 : Len(Suffix(k)) <= MaxSheetName
    BY <2>1, <2>3
  <2>6. Named(f[n + 1])
    BY <2>2, <2>3, <2>4, <2>5, NextNamed
  <2>7. Len(f[n + 1]) = n + 1
    <3>1. f[n] \in Seq(Word)
      BY <2>3 DEF Named
    <3>2. DOMAIN f[n] = 1 .. n /\ Len(Append(f[n], NextName(f[n], Base(ts[n + 1])))) = n + 1
      BY <2>3, <3>1, LenProperties
    <3> QED  BY <2>2, <3>2
  <2> QED  BY <2>6, <2>7
<1>4. m \in S
  <2> HIDE DEF S
  <2>1. Nat \subseteq S
    BY <1>2, <1>3, SetInduction
  <2> QED  BY <2>1
<1> QED  BY <1>1, <1>4

(* A letter and a number: nothing to trim, and no two alike.               *)
LEMMA PlacedText ==
    ASSUME NEW x \in Char, x # BlankChar, NEW i \in Nat
    PROVE  /\ <<x>> \o Decimal[i] \in Word /\ <<x>> \o Decimal[i] # <<>>
           /\ Trim(<<x>> \o Decimal[i]) = <<x>> \o Decimal[i]
           /\ \A j \in Nat : Alike(<<x>> \o Decimal[i], <<x>> \o Decimal[j]) => i = j
<1> DEFINE s == <<x>>
           Of(k) == s \o Decimal[k]
<1>1. s \in Seq(Char) /\ Len(s) = 1 /\ s[1] = x
  OBVIOUS
<1> HIDE DEF s
<1>2. ASSUME NEW k \in Nat
      PROVE  /\ Of(k) \in Word /\ Len(Of(k)) = Len(Decimal[k]) + 1 /\ Of(k)[1] = x
             /\ Len(Decimal[k]) \in Nat /\ Len(Decimal[k]) >= 1
             /\ DOMAIN Decimal[k] = 1 .. Len(Decimal[k])
             /\ Decimal[k] \in Seq(DigitChars)
             /\ DOMAIN Of(k) = 1 .. Len(Decimal[k]) + 1
             /\ \A n \in 1 .. Len(Decimal[k]) : /\ Of(k)[n + 1] = Decimal[k][n]
                                                 /\ Of(k)[n + 1] \in DigitChars
  <2> DEFINE d == Decimal[k]
             t == s \o d
  <2>1. d \in Seq(DigitChars) /\ Len(d) >= 1
    BY DecimalText
  <2>2. d \in Seq(Char)
    BY <2>1, CharOfDigits, SeqMonotonic
  <2> HIDE DEF d
  <2>3. Len(d) \in Nat /\ DOMAIN d = 1 .. Len(d) /\ \A n \in 1 .. Len(d) : d[n] \in DigitChars
    BY <2>1, LenProperties, ElementOfSeq
  <2>4. /\ t \in Seq(Char) /\ Len(t) = Len(s) + Len(d)
        /\ \A n \in 1 .. Len(s) + Len(d) : t[n] = IF n <= Len(s) THEN s[n] ELSE d[n - Len(s)]
    BY <1>1, <2>2, ConcatProperties
  <2> HIDE DEF t
  <2>5. t[1] = x /\ Len(t) = Len(d) + 1
    BY <1>1, <2>3, <2>4
  <2>6. \A n \in 1 .. Len(d) : t[n + 1] = d[n] /\ t[n + 1] \in DigitChars
    <3> TAKE n \in 1 .. Len(d)
    <3>1. n + 1 \in 1 .. Len(s) + Len(d) /\ ~(n + 1 <= Len(s)) /\ n + 1 - Len(s) = n
      BY <1>1, <2>3
    <3>2. t[n + 1] = d[n]
      BY <2>4, <3>1
    <3> QED  BY <2>3, <3>2
  <2>7. DOMAIN t = 1 .. Len(d) + 1
    BY <2>4, <2>5, LenProperties
  <2> QED  BY <2>1, <2>3, <2>4, <2>5, <2>6, <2>7 DEF t, d, Word
<1> HIDE DEF Of
<1> DEFINE t == Of(i)
           m == Len(Decimal[i])
<1>3. /\ t \in Word /\ Len(t) = m + 1 /\ t[1] = x /\ m \in Nat /\ m >= 1
      /\ \A n \in 1 .. m : t[n + 1] \in DigitChars
  BY <1>2
<1> HIDE DEF t, m
<1>4. t # <<>>
  <2>1. t = <<>> => Len(t) = 0
    BY EmptySeq
  <2> QED  BY <1>3, <2>1
<1>5. t[Len(t)] # BlankChar
  <2>1. t[m + 1] \in DigitChars
    BY <1>3
  <2> QED  BY <1>3, <2>1, DigitIsNoSign
<1>6. Trim(t) = t
  BY <1>3, <1>4, <1>5, TrimNone
<1>7. ASSUME NEW j \in Nat, Alike(t, Of(j)) PROVE i = j
  <2> DEFINE d == Decimal[i]
             e == Decimal[j]
             u == Of(j)
  <2>1. /\ u \in Word /\ Len(u) = Len(e) + 1 /\ Len(e) \in Nat /\ e \in Seq(DigitChars)
        /\ \A n \in 1 .. Len(e) : u[n + 1] = e[n]
    BY <1>2
  <2>2. /\ t \in Word /\ Len(t) = Len(d) + 1 /\ Len(d) \in Nat /\ d \in Seq(DigitChars)
        /\ DOMAIN t = 1 .. Len(d) + 1
        /\ \A n \in 1 .. Len(d) : t[n + 1] = d[n] /\ t[n + 1] \in DigitChars
    BY <1>2 DEF t
  <2>3. Alike(t, u)
    BY <1>7
  <2> HIDE DEF d, e, u
  <2>4. /\ Len(t) = Len(u)
        /\ \A n \in DOMAIN t : t[n] \in DigitChars \cup {Underscore} => u[n] = t[n]
    BY <2>1, <2>2, <2>3, AlikeFacts
  <2>5. Len(d) = Len(e)
    BY <2>1, <2>2, <2>4
  <2>6. \A n \in 1 .. Len(d) : d[n] = e[n]
    <3> TAKE n \in 1 .. Len(d)
    <3>1. n + 1 \in DOMAIN t /\ n \in 1 .. Len(e)
      BY <2>2, <2>5
    <3>2. u[n + 1] = t[n + 1]
      BY <2>2, <2>4, <3>1
    <3> QED  BY <2>1, <2>2, <3>1, <3>2
  <2>7. d = e
    BY <2>1, <2>2, <2>5, <2>6, SeqEqual
  <2> QED  BY <2>7, DecimalInjective DEF d, e
<1> QED  BY <1>3, <1>4, <1>6, <1>7 DEF t, Of, s

(* A table without a name is named by its place.                           *)
LEMMA PlacedName ==
    ASSUME NEW i \in Nat
    PROVE  /\ <<"S">> \o Decimal[i] \in Word /\ Trim(<<"S">> \o Decimal[i]) # <<>>
           /\ \A j \in Nat : <<"S">> \o Decimal[i] = <<"S">> \o Decimal[j] => i = j
<1>1. "S" \in Char /\ "S" # BlankChar
  <2>1. "S" \in Char
    BY DEF Char
  <2>2. "S" # BlankChar
    BY Zenon DEF BlankChar
  <2> QED  BY <2>1, <2>2
<1>2. \A s, t : s = t => Alike(s, t)
  BY DEF Alike
<1> DEFINE x == "S"
<1> HIDE DEF x
<1>3. /\ <<x>> \o Decimal[i] \in Word /\ <<x>> \o Decimal[i] # <<>>
      /\ Trim(<<x>> \o Decimal[i]) = <<x>> \o Decimal[i]
      /\ \A j \in Nat : Alike(<<x>> \o Decimal[i], <<x>> \o Decimal[j]) => i = j
  BY <1>1, PlacedText DEF x
<1> QED  BY <1>2, <1>3 DEF x

(* What is built has a table for each of the output's, with a text for a   *)
(* name.                                                                   *)
LEMMA BuildFacts ==
    ASSUME NEW out \in Outputs
    PROVE  /\ Len(Build(out)) = Len(out.tables) /\ Len(out.tables) \in Nat
           /\ DOMAIN Build(out) = 1 .. Len(out.tables)
           /\ DOMAIN out.tables = 1 .. Len(out.tables)
           /\ \A i \in DOMAIN out.tables :
                 /\ out.tables[i] \in SourceTable
                 /\ Build(out)[i].name \in Word
                 /\ out.shape # "canonical" =>
                       Build(out)[i] = Tabulated(out.shape, out.tables[i], i)
           /\ \A k \in 1 .. Len(out.tables) : Len(Suffix(k)) <= MaxSheetName
<1>1. /\ out.tables \in Seq(SourceTable)
      /\ \A k \in 1 .. Len(out.tables) : Len(Suffix(k)) <= MaxSheetName
  BY ExportTablesAssumption
<1>2. DOMAIN out.tables = 1 .. Len(out.tables) /\ Len(out.tables) \in Nat
  BY <1>1, LenProperties
<1>3. Build(out) \in [DOMAIN out.tables -> {Build(out)[i] : i \in DOMAIN out.tables}]
  <2>1. \E F : Build(out) = [i \in DOMAIN out.tables |-> F[i]]
    <3>1. Build(out) = [i \in DOMAIN out.tables |-> Build(out)[i]]
      BY DEF Build
    <3> QED  BY <3>1
  <2> QED  BY <2>1
<1>4. Len(Build(out)) = Len(out.tables) /\ DOMAIN Build(out) = DOMAIN out.tables
  BY <1>1, <1>3, Mapped
<1>5. ASSUME NEW i \in DOMAIN out.tables
      PROVE  /\ out.tables[i] \in SourceTable
             /\ Build(out)[i].name \in Word
             /\ out.shape # "canonical" =>
                   Build(out)[i] = Tabulated(out.shape, out.tables[i], i)
  <2>1. out.tables[i] \in SourceTable /\ i \in Nat
    BY <1>1, <1>2, ElementOfSeq
  <2>2. out.tables[i].name \in Word
    BY <2>1, CharOfDigits DEF SourceTable
  <2>3. Trim(out.tables[i].name) \in Word
    BY <2>2, TrimText
  <2>4. <<"S">> \o Decimal[i] \in Word
    BY <2>1, PlacedName
  <2>5. CASE out.shape = "canonical"
    <3>1. Build(out)[i].name = out.tables[i].name
      BY <2>5 DEF Build, AsIs
    <3> QED  BY <2>1, <2>2, <2>5, <3>1
  <2>6. CASE out.shape # "canonical"
    <3>1. Build(out)[i] = Tabulated(out.shape, out.tables[i], i)
      BY <2>6 DEF Build
    <3>2. Tabulated(out.shape, out.tables[i], i).name \in
             {Trim(out.tables[i].name), <<"S">> \o Decimal[i]}
      BY DEF Tabulated
    <3> QED  BY <2>1, <2>3, <2>4, <3>1, <3>2
  <2> QED  BY <2>5, <2>6
<1> QED  BY <1>1, <1>2, <1>4, <1>5

-----------------------------------------------------------------------------
(***************************************************************************)
(* Rows. That a cell stands in its row and under its own header follows    *)
(* from how the tables were built of the output, and from the check that   *)
(* let them pass: headers that are apart name one place each.              *)
(***************************************************************************)

(* The place of what is in a sequence once.                                *)
LEMMA LatestOfOne ==
    ASSUME NEW q, NEW i \in DOMAIN q, \A j \in DOMAIN q : q[j] = q[i] => j = i
    PROVE  Places(q, q[i]) = {i} /\ Latest(Places(q, q[i])) = i
<1>1. Places(q, q[i]) = {i}
  BY DEF Places
<1>2. Latest({i}) = i
  BY DEF Latest
<1> QED  BY <1>1, <1>2

(* Headers that are apart differ.                                          *)
LEMMA ApartDiffer ==
    ASSUME NEW headers, HeadersApart(headers)
    PROVE  \A i, j \in DOMAIN headers : headers[i] = headers[j] => i = j
BY DEF HeadersApart, Alike

(* A row of a table that was built, under headers that are apart: the      *)
(* value at a place is in the cell of that place, or under its key.        *)
Holds(cells, headers, entry) ==
    \A j \in DOMAIN entry.values :
        /\ entry.kind = "list" /\ j \in DOMAIN headers =>
              cells[headers[j]] \in {<<entry.values[j]>>, Json(entry.values)}
        /\ entry.kind = "object" =>
              \A i \in Places(headers, entry.keys[j]) :
                 cells[headers[i]] \in {<<entry.values[j]>>, Json(entry.values)}

(* An object has a value for each key and no key twice.                    *)
WellFormed(entry) ==
    entry.kind = "object" =>
        /\ DOMAIN entry.keys = DOMAIN entry.values
        /\ \A j, k \in DOMAIN entry.keys : entry.keys[j] = entry.keys[k] => j = k

(* A row that is mapped by place or by key.                                *)
LEMMA ObjectHolds ==
    ASSUME NEW entry, NEW headers, WellFormed(entry), entry.kind \in {"list", "object"},
           \A i, j \in DOMAIN headers : headers[i] = headers[j] => i = j
    PROVE  Holds(ObjectOf(entry, headers), headers, entry)
<1>1. \A i \in DOMAIN headers : Latest(Places(headers, headers[i])) = i
  BY LatestOfOne
<1>2. ASSUME NEW j \in DOMAIN entry.values, entry.kind = "list", j \in DOMAIN headers
      PROVE  ObjectOf(entry, headers)[headers[j]] = <<entry.values[j]>>
  BY <1>1, <1>2 DEF ObjectOf
<1>3. ASSUME NEW j \in DOMAIN entry.values, entry.kind = "object",
             NEW i \in Places(headers, entry.keys[j])
      PROVE  ObjectOf(entry, headers)[headers[i]] = <<entry.values[j]>>
  <2>1. i \in DOMAIN headers /\ headers[i] = entry.keys[j]
    BY <1>3 DEF Places
  <2>2. j \in DOMAIN entry.keys
    BY <1>3 DEF WellFormed
  <2>3. /\ Places(entry.keys, entry.keys[j]) = {j}
        /\ Latest(Places(entry.keys, entry.keys[j])) = j
    BY <1>3, <2>2, LatestOfOne DEF WellFormed
  <2>4. Places(entry.keys, headers[i]) # {} /\ Latest(Places(entry.keys, headers[i])) = j
    BY <2>1, <2>3
  <2>5. headers[i] \in {headers[k] : k \in DOMAIN headers}
    BY <2>1
  <2> QED  BY <1>3, <2>4, <2>5 DEF ObjectOf
<1> QED  BY <1>2, <1>3 DEF Holds

(* A row written whole stands in the one cell there is.                    *)
LEMMA WholeHolds ==
    ASSUME NEW entry, NEW whole, whole.kind = "scalar", whole.values = Json(entry.values)
    PROVE  Holds(ObjectOf(whole, NormalizeHeaders(<<>>)), NormalizeHeaders(<<>>), entry)
<1> DEFINE v == <<"v">>
<1>1. NormalizeHeaders(<<>>) = <<v>> /\ DOMAIN <<v>> = {1} /\ <<v>>[1] = v
  BY DEF NormalizeHeaders
<1>2. Latest(Places(<<v>>, v)) = 1
  <2>1. Places(<<v>>, v) = {1}
    BY <1>1 DEF Places
  <2>2. Latest({1}) = 1
    BY DEF Latest
  <2> QED  BY <2>1, <2>2
<1> HIDE DEF v
<1>3. ObjectOf(whole, <<v>>)[v] = Json(entry.values)
  BY <1>1, <1>2 DEF ObjectOf
<1>4. \A i \in DOMAIN <<v>> : ObjectOf(whole, <<v>>)[<<v>>[i]] = Json(entry.values)
  BY <1>1, <1>3
<1>5. Holds(ObjectOf(whole, <<v>>), <<v>>, entry)
  BY <1>4 DEF Holds, Places
<1> QED  BY <1>1, <1>5

(* A row that is taken as it is.                                           *)
LEMMA KeptHolds ==
    ASSUME NEW table, NEW n \in DOMAIN table.rows, WellFormed(table.rows[n]),
           table.rows[n].kind = "object"
    PROVE  Holds(AsIs(table).rows[n], AsIs(table).headers, table.rows[n])
<1> DEFINE entry == table.rows[n]
           cells == [k \in {entry.keys[j] : j \in DOMAIN entry.keys} |->
                     <<entry.values[Latest(Places(entry.keys, k))]>>]
<1>1. AsIs(table).rows[n] = cells /\ AsIs(table).headers = table.headers
  BY DEF AsIs
<1>2. ASSUME NEW j \in DOMAIN entry.values PROVE cells[entry.keys[j]] = <<entry.values[j]>>
  <2>1. j \in DOMAIN entry.keys
    BY DEF WellFormed
  <2>2. Latest(Places(entry.keys, entry.keys[j])) = j
    BY <2>1, LatestOfOne DEF WellFormed
  <2> QED  BY <2>1, <2>2
<1> HIDE DEF cells
<1>3. Holds(cells, table.headers, entry)
  BY <1>2 DEF Holds, Places
<1> QED  BY <1>1, <1>3

(* So does every row of an output that was built.                          *)
LEMMA BuiltHolds ==
    ASSUME NEW out \in Outputs, NEW i \in DOMAIN out.tables,
           HeadersApart(Build(out)[i].headers)
    PROVE  /\ DOMAIN Build(out)[i].rows = DOMAIN out.tables[i].rows
           /\ \A n \in DOMAIN out.tables[i].rows :
                 Holds(Build(out)[i].rows[n], Build(out)[i].headers, out.tables[i].rows[n])
<1>1. \A n \in DOMAIN out.tables[i].rows :
         /\ WellFormed(out.tables[i].rows[n])
         /\ out.shape = "canonical" => out.tables[i].rows[n].kind = "object"
  BY ExportTablesAssumption DEF WellFormed
<1>2. CASE out.shape = "canonical"
  <2>1. Build(out)[i] = AsIs(out.tables[i])
    BY <1>2 DEF Build
  <2>2. DOMAIN AsIs(out.tables[i]).rows = DOMAIN out.tables[i].rows
    BY DEF AsIs
  <2> QED  BY <1>1, <1>2, <2>1, <2>2, KeptHolds
<1>3. CASE out.shape # "canonical"
  <2> DEFINE table == out.tables[i]
             made == Tabulated(out.shape, table, i)
             mixed == out.shape # "direct" /\ ~Only(table.rows, "list")
                                           /\ ~Only(table.rows, "object")
             whole(entry) ==
               [kind |-> "scalar", keys |-> <<>>,
                values |-> IF entry.kind = "scalar" THEN entry.values
                           ELSE Json(entry.values)]
  <2>1. Build(out)[i] = made
    BY <1>3 DEF Build
  <2>2. /\ mixed => made.headers = NormalizeHeaders(<<>>)
        /\ made.rows = [n \in DOMAIN table.rows |->
                          ObjectOf(IF mixed THEN whole(table.rows[n]) ELSE table.rows[n],
                                   made.headers)]
    BY DEF Tabulated
  <2>3. \A h, k \in DOMAIN made.headers : made.headers[h] = made.headers[k] => h = k
    BY <2>1, ApartDiffer
  <2> HIDE DEF made, mixed
  <2>4. ASSUME NEW n \in DOMAIN table.rows
        PROVE  Holds(made.rows[n], made.headers, table.rows[n])
    <3>1. CASE mixed
      <4>1. made.rows[n] = ObjectOf(whole(table.rows[n]), NormalizeHeaders(<<>>))
        BY <2>2, <3>1
      <4>2. CASE table.rows[n].kind \in {"list", "object"}
        <5>1. /\ whole(table.rows[n]).kind = "scalar"
              /\ whole(table.rows[n]).values = Json(table.rows[n].values)
          BY <4>2
        <5> HIDE DEF whole
        <5> QED  BY <2>2, <3>1, <4>1, <5>1, WholeHolds
      <4>3. CASE table.rows[n].kind \notin {"list", "object"}
        BY <4>3 DEF Holds
      <4> QED  BY <4>2, <4>3
    <3>2. CASE ~mixed
      <4>1. made.rows[n] = ObjectOf(table.rows[n], made.headers)
        BY <2>2, <3>2
      <4>2. CASE table.rows[n].kind \in {"list", "object"}
        BY <1>1, <2>3, <4>1, <4>2, ObjectHolds
      <4>3. CASE table.rows[n].kind \notin {"list", "object"}
        BY <4>3 DEF Holds
      <4> QED  BY <4>2, <4>3
    <3> QED  BY <3>1, <3>2
  <2> QED  BY <2>1, <2>2, <2>4
<1> QED  BY <1>2, <1>3

-----------------------------------------------------------------------------
(***************************************************************************)
(* Ordinary tables. Fixed headers need no mending and stay as they are;    *)
(* those that are made of keys or counted for lists are fixed, and leave   *)
(* no value out.                                                           *)
(***************************************************************************)

Fixed(raw) ==
    /\ raw \in Seq(Word)
    /\ \A i \in DOMAIN raw :
          /\ raw[i] # <<>> /\ Trim(raw[i]) = raw[i]
          /\ \A j \in DOMAIN raw : i # j => ~Alike(raw[i], raw[j])

(* Fixed headers are not mended: none is blank, and none has one alike     *)
(* before it.                                                              *)
LEMMA NormalizedFixed ==
    ASSUME NEW raw, Fixed(raw), raw # <<>>
    PROVE  NormalizeHeaders(raw) = raw
<1> DEFINE named == [i \in DOMAIN raw |->
                       IF Trim(raw[i]) = <<>> THEN <<"c">> \o Decimal[i] ELSE Trim(raw[i])]
           before(i) == Cardinality({j \in 1 .. i - 1 : Alike(named[j], named[i])})
           made == [i \in DOMAIN raw |->
                     IF before(i) = 0 THEN named[i] ELSE named[i] \o Suffix(before(i) + 1)]
<1>1. NormalizeHeaders(raw) = made
  BY DEF NormalizeHeaders
<1>2. DOMAIN raw = 1 .. Len(raw) /\ Len(raw) \in Nat /\ raw = [i \in DOMAIN raw |-> raw[i]]
  BY LenProperties DEF Fixed
<1>3. \A i \in DOMAIN raw : named[i] = raw[i]
  BY DEF Fixed
<1> HIDE DEF named
<1>4. ASSUME NEW i \in DOMAIN raw PROVE before(i) = 0
  <2>1. ASSUME NEW j \in 1 .. i - 1 PROVE ~Alike(named[j], named[i])
    <3>1. j \in DOMAIN raw /\ j # i
      BY <1>2
    <3> QED  BY <1>3, <3>1 DEF Fixed
  <2>2. {j \in 1 .. i - 1 : Alike(named[j], named[i])} = {}
    BY <2>1
  <2>3. Cardinality({}) = 0
    BY FS_EmptySet
  <2> QED  BY <2>2, <2>3
<1> HIDE DEF before
<1>5. \A i \in DOMAIN raw : made[i] = raw[i]
  BY <1>3, <1>4
<1>6. made = [i \in DOMAIN raw |-> made[i]]
  OBVIOUS
<1> HIDE DEF made
<1>7. made = raw
  BY <1>2, <1>5, <1>6
<1> QED  BY <1>1, <1>7

(* Without headers there is the one for values, which is fixed.            *)
LEMMA NormalizedNone ==
    /\ NormalizeHeaders(<<>>) = <<<<"v">>>> /\ Fixed(<<<<"v">>>>)
    /\ DOMAIN <<<<"v">>>> = {1} /\ <<<<"v">>>> # <<>>
<1> DEFINE v == <<"v">>
           q == <<v>>
<1>1. NormalizeHeaders(<<>>) = q
  BY DEF NormalizeHeaders
<1>2. v \in Word /\ Len(v) = 1 /\ v[1] = "v" /\ "v" # BlankChar
  <2>1. "v" \in Char
    BY DEF Char
  <2>2. "v" # BlankChar
    BY Zenon DEF BlankChar
  <2> QED  BY <2>1, <2>2 DEF Word
<1> HIDE DEF v
<1>3. v # <<>>
  <2>1. v = <<>> => Len(v) = 0
    BY EmptySeq
  <2> QED  BY <1>2, <2>1
<1>4. Trim(v) = v
  BY <1>2, <1>3, TrimNone
<1>5. q \in Seq(Word) /\ Len(q) = 1 /\ DOMAIN q = {1} /\ q[1] = v
  BY <1>2
<1> HIDE DEF q
<1>6. q # <<>>
  <2>1. q = <<>> => Len(q) = 0
    BY EmptySeq
  <2> QED  BY <1>5, <2>1
<1>7. Fixed(q)
  BY <1>3, <1>4, <1>5 DEF Fixed
<1> QED  BY <1>1, <1>5, <1>6, <1>7 DEF q, v

(* Headers that are normalized of fixed ones.                              *)
LEMMA NormalizedFacts ==
    ASSUME NEW raw, Fixed(raw)
    PROVE  /\ Fixed(NormalizeHeaders(raw)) /\ NormalizeHeaders(raw) # <<>>
           /\ raw # <<>> => NormalizeHeaders(raw) = raw
           /\ 1 \in DOMAIN NormalizeHeaders(raw)
<1>1. raw = <<>> => Fixed(NormalizeHeaders(raw)) /\ NormalizeHeaders(raw) # <<>>
  BY NormalizedNone
<1>2. raw # <<>> => NormalizeHeaders(raw) = raw
  BY NormalizedFixed
<1> DEFINE h == NormalizeHeaders(raw)
<1>3. Fixed(h) /\ h # <<>>
  BY <1>1, <1>2
<1> HIDE DEF h
<1>4. 1 \in DOMAIN h
  <2>1. h \in Seq(Word)
    BY <1>3 DEF Fixed
  <2> QED  BY <1>3, <2>1, LenProperties, EmptySeq
<1> QED  BY <1>2, <1>3, <1>4 DEF h

(* Plain texts are fixed headers.                                          *)
LEMMA PlainFixed ==
    ASSUME NEW texts \in Seq(Text), Plain(texts)
    PROVE  Fixed(texts)
<1>1. texts \in Seq(Word)
  BY CharOfDigits, SeqMonotonic
<1> QED  BY <1>1 DEF Plain, Fixed

(* The headers that are made for lists: one for each place.                *)
LEMMA CountedFixed ==
    ASSUME NEW m \in Nat
    PROVE  Fixed([n \in 1 .. m |-> <<"c">> \o Decimal[n]])
<1> DEFINE x == "c"
           raw == [n \in 1 .. m |-> <<x>> \o Decimal[n]]
<1>1. x \in Char /\ x # BlankChar
  <2>1. "c" \in Char
    BY DEF Char
  <2>2. "c" # BlankChar
    BY Zenon DEF BlankChar
  <2> QED  BY <2>1, <2>2
<1> HIDE DEF x
<1>2. ASSUME NEW i \in 1 .. m
      PROVE  /\ raw[i] \in Word /\ raw[i] # <<>> /\ Trim(raw[i]) = raw[i]
             /\ \A j \in 1 .. m : Alike(raw[i], raw[j]) => i = j
  <2>0. i \in Nat
    OBVIOUS
  <2>1. /\ <<x>> \o Decimal[i] \in Word /\ <<x>> \o Decimal[i] # <<>>
        /\ Trim(<<x>> \o Decimal[i]) = <<x>> \o Decimal[i]
        /\ \A j \in Nat : Alike(<<x>> \o Decimal[i], <<x>> \o Decimal[j]) => i = j
    BY <1>1, <2>0, PlacedText
  <2>2. raw[i] = <<x>> \o Decimal[i] /\ \A j \in 1 .. m : raw[j] = <<x>> \o Decimal[j]
    OBVIOUS
  <2> HIDE DEF raw
  <2>3. \A j \in 1 .. m : j \in Nat
    OBVIOUS
  <2> QED  BY <2>1, <2>2, <2>3
<1>3. DOMAIN raw = 1 .. m /\ raw \in [1 .. m -> Word]
  BY <1>2
<1> HIDE DEF raw
<1>4. raw \in Seq(Word)
  BY <1>3, SeqDef
<1>5. Fixed(raw)
  BY <1>2, <1>3, <1>4 DEF Fixed
<1> QED  BY <1>5 DEF raw, x

(* The most of so many numbers.                                            *)
LEMMA SomeLatest ==
    ASSUME NEW m \in Nat, NEW f \in [1 .. m -> Nat]
    PROVE  \E x \in {0} \cup {f[i] : i \in 1 .. m} :
              x \in Nat /\ \A i \in 1 .. m : f[i] <= x
<1> DEFINE S == {k \in Nat : k <= m =>
                   \E x \in {0} \cup {f[i] : i \in 1 .. m} :
                      x \in Nat /\ \A i \in 1 .. k : f[i] <= x}
<1>1. 0 \in S
  OBVIOUS
<1>2. ASSUME NEW k \in Nat, k \in S PROVE k + 1 \in S
  <2> SUFFICES ASSUME k + 1 <= m
               PROVE  \E x \in {0} \cup {f[i] : i \in 1 .. m} :
                         x \in Nat /\ \A i \in 1 .. k + 1 : f[i] <= x
    OBVIOUS
  <2>1. PICK x \in {0} \cup {f[i] : i \in 1 .. m} : x \in Nat /\ \A i \in 1 .. k : f[i] <= x
    BY <1>2
  <2>2. k + 1 \in 1 .. m /\ f[k + 1] \in Nat
    OBVIOUS
  <2>3. \A i \in 1 .. k + 1 : i = k + 1 \/ i \in 1 .. k
    OBVIOUS
  <2>4. CASE f[k + 1] <= x
    BY <2>1, <2>3, <2>4
  <2>5. CASE ~(f[k + 1] <= x)
    <3>1. \A i \in 1 .. k : f[i] <= f[k + 1]
      <4> TAKE i \in 1 .. k
      <4>1. f[i] \in Nat /\ f[i] <= x
        BY <2>1
      <4> QED  BY <2>1, <2>2, <2>5, <4>1
    <3>2. \A i \in 1 .. k + 1 : f[i] <= f[k + 1]
      BY <2>2, <2>3, <3>1
    <3> QED  BY <2>2, <3>2
  <2> QED  BY <2>4, <2>5
<1>3. m \in S
  <2> HIDE DEF S
  <2>1. Nat \subseteq S
    BY <1>1, <1>2, SetInduction
  <2> QED  BY <2>1
<1> QED  BY <1>3

(* No list is longer than the widest.                                      *)
LEMMA WidestFacts ==
    ASSUME NEW rows \in Seq(Entry)
    PROVE  /\ Widest(rows) \in Nat
           /\ \A i \in DOMAIN rows : Len(rows[i].values) <= Widest(rows)
<1>0. PICK m \in Nat : m = Len(rows)
  BY LenProperties
<1>1. DOMAIN rows = 1 .. m
  BY <1>0, LenProperties
<1> DEFINE f == [i \in 1 .. m |-> Len(rows[i].values)]
           S == {0} \cup {f[i] : i \in 1 .. m}
<1>2. f \in [1 .. m -> Nat]
  <2>1. ASSUME NEW i \in 1 .. m PROVE Len(rows[i].values) \in Nat
    <3>1. rows[i] \in Entry
      BY <1>0, ElementOfSeq
    <3> QED  BY <3>1, LenProperties DEF Entry
  <2> QED  BY <2>1
<1>3. Widest(rows) = Latest(S)
  BY <1>1 DEF Widest
<1>4. \A i \in DOMAIN rows : Len(rows[i].values) = f[i]
  BY <1>1
<1> HIDE DEF f
<1>5. PICK x \in S : x \in Nat /\ \A i \in 1 .. m : f[i] <= x
  BY <1>2, SomeLatest
<1>6. \A y \in S \ {x} : y < x
  BY <1>2, <1>5
<1>7. S \subseteq Nat
  BY <1>2
<1> HIDE DEF S
<1>8. Latest(S) \in S /\ \A y \in S \ {Latest(S)} : y < Latest(S)
  BY <1>5, <1>6 DEF Latest
<1>9. Latest(S) = x
  <2>1. PICK y : y = Latest(S)
    OBVIOUS
  <2>2. y \in S /\ y \in Nat /\ \A z \in S \ {y} : z < y
    BY <1>7, <1>8, <2>1
  <2>3. y # x => y < x /\ x < y
    BY <1>6, <2>2
  <2>4. ~(y < x /\ x < y)
    BY <1>5, <2>2
  <2> QED  BY <2>1, <2>3, <2>4
<1> QED  BY <1>1, <1>3, <1>4, <1>5, <1>9

(* All of the keys are in a sequence.                                      *)
Met(keys, all) == \A k \in DOMAIN keys : Places(all, keys[k]) # {}

(* What is appended is met, and what was met before is still.              *)
LEMMA AppendPlaces ==
    ASSUME NEW q \in Seq(Text), NEW x \in Text
    PROVE  /\ Append(q, x) \in Seq(Text) /\ Places(Append(q, x), x) # {}
           /\ \A y : Places(q, y) # {} => Places(Append(q, x), y) # {}
<1> DEFINE a == Append(q, x)
           m == Len(q)
<1>1. m \in Nat /\ DOMAIN q = 1 .. m /\ a \in Seq(Text) /\ Len(a) = m + 1
  BY LenProperties
<1>2. DOMAIN a = 1 .. m + 1
  BY <1>1, LenProperties
<1>3. a[m + 1] = x /\ \A i \in 1 .. m : a[i] = q[i]
  BY <1>1
<1> HIDE DEF a, m
<1>4. m + 1 \in Places(a, x)
  BY <1>1, <1>2, <1>3 DEF Places
<1>5. \A y : \A i \in Places(q, y) : i \in Places(a, y)
  BY <1>1, <1>2, <1>3 DEF Places
<1> QED  BY <1>1, <1>4, <1>5 DEF a

(* All keys of a row are met, and so are those that were met before: by    *)
(* induction over the row's keys, for the values of the recursion that     *)
(* exist.                                                                  *)
LEMMA WithKeysFacts ==
    ASSUME NEW seen \in Seq(Text), NEW keys \in Seq(Text)
    PROVE  /\ WithKeys(seen, keys) \in Seq(Text) /\ Met(keys, WithKeys(seen, keys))
           /\ \A y : Places(seen, y) # {} => Places(WithKeys(seen, keys), y) # {}
<1>0. PICK m \in Nat : m = Len(keys)
  BY LenProperties
<1>1. DOMAIN keys = 1 .. m /\ \A n \in 1 .. m : keys[n] \in Text
  BY <1>0, LenProperties, ElementOfSeq
<1>2. PICK D : D = Seq(Text)
  OBVIOUS
<1> DEFINE Is(f) == f = [n \in 0 .. m |->
                          IF n = 0 THEN seen
                          ELSE IF Places(f[n - 1], keys[n]) = {}
                          THEN Append(f[n - 1], keys[n]) ELSE f[n - 1]]
           all == CHOOSE f : Is(f)
<1>3. WithKeys(seen, keys) = all[m]
  BY <1>0 DEF WithKeys
<1>4. \A x \in D, n \in 1 .. m : Append(x, keys[n]) \in D
  BY <1>1, <1>2
<1>5. PICK step \in [Nat -> [D -> D]] :
         \A n \in 1 .. m : \A x \in D :
            step[n][x] = IF Places(x, keys[n]) = {} THEN Append(x, keys[n]) ELSE x
  <2> DEFINE to == [n \in Nat |-> [x \in D |->
                      IF n \in 1 .. m /\ Places(x, keys[n]) = {} THEN Append(x, keys[n])
                      ELSE x]]
  <2>1. to \in [Nat -> [D -> D]]
    BY <1>4
  <2>2. \A n \in 1 .. m : \A x \in D :
           to[n][x] = IF Places(x, keys[n]) = {} THEN Append(x, keys[n]) ELSE x
    OBVIOUS
  <2> QED  BY <2>1, <2>2
<1>6. PICK start \in D : start = seen
  BY <1>2
<1>7. PICK g : Follows(g, D, start, step, m)
  BY Iterates
<1>8. /\ g \in [0 .. m -> D] /\ g[0] = start
      /\ \A n \in 1 .. m : g[n] = step[n][g[n - 1]]
  BY <1>7 DEF Follows
<1>9. ASSUME NEW n \in 1 .. m
      PROVE  g[n] = IF Places(g[n - 1], keys[n]) = {} THEN Append(g[n - 1], keys[n])
                    ELSE g[n - 1]
  <2>1. n - 1 \in 0 .. m
    OBVIOUS
  <2>2. g[n - 1] \in D
    BY <1>8, <2>1
  <2> QED  BY <1>5, <1>8, <2>2
<1>10. Is(g)
  <2> DEFINE body == [n \in 0 .. m |->
                        IF n = 0 THEN seen
                        ELSE IF Places(g[n - 1], keys[n]) = {}
                        THEN Append(g[n - 1], keys[n]) ELSE g[n - 1]]
  <2>1. \A n \in 0 .. m : g[n] = body[n]
    <3>1. \A n \in 0 .. m : n = 0 \/ n \in 1 .. m
      OBVIOUS
    <3> QED  BY <1>6, <1>8, <1>9, <3>1
  <2>2. g = [n \in 0 .. m |-> g[n]] /\ body = [n \in 0 .. m |-> body[n]]
    BY <1>8
  <2> HIDE DEF body
  <2>3. g = body
    BY <2>1, <2>2
  <2> QED  BY <2>3 DEF body
<1>11. Is(all)
  <2> HIDE DEF Is
  <2> QED  BY <1>10
<1> HIDE DEF all
<1>12. all[0] = seen
  BY <1>11
<1>13. ASSUME NEW n \in 1 .. m
       PROVE  all[n] = IF Places(all[n - 1], keys[n]) = {} THEN Append(all[n - 1], keys[n])
                       ELSE all[n - 1]
  <2>1. n \in 0 .. m /\ n # 0
    OBVIOUS
  <2> QED  BY <1>11, <2>1
<1> HIDE DEF Is
<1> DEFINE Good(n) == /\ all[n] \in Seq(Text)
                      /\ \A y : Places(seen, y) # {} => Places(all[n], y) # {}
                      /\ \A k \in 1 .. n : Places(all[n], keys[k]) # {}
           S == {n \in Nat : n <= m => Good(n)}
<1>14. 0 \in S
  BY <1>12 DEF Good
<1> HIDE DEF Good
<1>15. ASSUME NEW n \in Nat, n \in S PROVE n + 1 \in S
  <2> SUFFICES ASSUME n + 1 <= m PROVE Good(n + 1)
    OBVIOUS
  <2>1. n + 1 \in 1 .. m /\ n + 1 - 1 = n
    OBVIOUS
  <2>2. Good(n)
    BY <1>15, <2>1
  <2>3. all[n + 1] = IF Places(all[n], keys[n + 1]) = {} THEN Append(all[n], keys[n + 1])
                     ELSE all[n]
    <3>1. PICK p \in 1 .. m : p = n + 1 /\ p - 1 = n
      BY <2>1
    <3> QED  BY <1>13, <3>1
  <2>4. keys[n + 1] \in Text
    BY <1>1, <2>1
  <2>5. /\ all[n + 1] \in Seq(Text) /\ Places(all[n + 1], keys[n + 1]) # {}
        /\ \A y : Places(all[n], y) # {} => Places(all[n + 1], y) # {}
    BY <2>2, <2>3, <2>4, AppendPlaces DEF Good
  <2>6. \A k \in 1 .. n + 1 : k = n + 1 \/ k \in 1 .. n
    OBVIOUS
  <2>7. \A k \in 1 .. n + 1 : Places(all[n + 1], keys[k]) # {}
    BY <2>2, <2>5, <2>6 DEF Good
  <2> QED  BY <2>2, <2>5, <2>7 DEF Good
<1>16. Good(m)
  <2>1. m \in S
    <3> HIDE DEF S
    <3>1. Nat \subseteq S
      BY <1>14, <1>15, SetInduction
    <3> QED  BY <3>1
  <2> QED  BY <2>1
<1> QED  BY <1>1, <1>3, <1>16 DEF Met, Good

(* All keys of all rows are met: by induction over the rows.               *)
LEMMA AllKeysFacts ==
    ASSUME NEW rows \in Seq(Entry)
    PROVE  /\ AllKeys(rows) \in Seq(Text)
           /\ \A n \in DOMAIN rows : Met(rows[n].keys, AllKeys(rows))
<1>0. PICK m \in Nat : m = Len(rows)
  BY LenProperties
<1>1. DOMAIN rows = 1 .. m /\ \A n \in 1 .. m : rows[n].keys \in Seq(Text)
  <2>1. \A n \in 1 .. m : rows[n] \in Entry
    BY <1>0, ElementOfSeq
  <2> QED  BY <1>0, <2>1, LenProperties DEF Entry
<1>2. PICK D : D = Seq(Text)
  OBVIOUS
<1> DEFINE Is(f) == f = [n \in 0 .. m |->
                          IF n = 0 THEN <<>> ELSE WithKeys(f[n - 1], rows[n].keys)]
           all == CHOOSE f : Is(f)
<1>3. AllKeys(rows) = all[m]
  BY <1>0 DEF AllKeys
<1>4. \A x \in D, n \in 1 .. m : WithKeys(x, rows[n].keys) \in D
  BY <1>1, <1>2, WithKeysFacts
<1>5. PICK step \in [Nat -> [D -> D]] :
         \A n \in 1 .. m : \A x \in D : step[n][x] = WithKeys(x, rows[n].keys)
  <2> DEFINE to == [n \in Nat |-> [x \in D |->
                      IF n \in 1 .. m THEN WithKeys(x, rows[n].keys) ELSE x]]
  <2>1. to \in [Nat -> [D -> D]]
    BY <1>4
  <2>2. \A n \in 1 .. m : \A x \in D : to[n][x] = WithKeys(x, rows[n].keys)
    OBVIOUS
  <2> QED  BY <2>1, <2>2
<1>6. PICK start \in D : start = <<>>
  BY <1>2, EmptySeq
<1>7. PICK g : Follows(g, D, start, step, m)
  BY Iterates
<1>8. /\ g \in [0 .. m -> D] /\ g[0] = start
      /\ \A n \in 1 .. m : g[n] = step[n][g[n - 1]]
  BY <1>7 DEF Follows
<1>9. ASSUME NEW n \in 1 .. m
      PROVE  g[n] = WithKeys(g[n - 1], rows[n].keys)
  <2>1. n - 1 \in 0 .. m
    OBVIOUS
  <2>2. g[n - 1] \in D
    BY <1>8, <2>1
  <2> QED  BY <1>5, <1>8, <2>2
<1>10. Is(g)
  <2> DEFINE body == [n \in 0 .. m |->
                        IF n = 0 THEN <<>> ELSE WithKeys(g[n - 1], rows[n].keys)]
  <2>1. \A n \in 0 .. m : g[n] = body[n]
    <3>1. \A n \in 0 .. m : n = 0 \/ n \in 1 .. m
      OBVIOUS
    <3> QED  BY <1>6, <1>8, <1>9, <3>1
  <2>2. g = [n \in 0 .. m |-> g[n]] /\ body = [n \in 0 .. m |-> body[n]]
    BY <1>8
  <2> HIDE DEF body
  <2>3. g = body
    BY <2>1, <2>2
  <2> QED  BY <2>3 DEF body
<1>11. Is(all)
  <2> HIDE DEF Is
  <2> QED  BY <1>10
<1> HIDE DEF all
<1>12. all[0] = <<>>
  BY <1>11
<1>13. ASSUME NEW n \in 1 .. m
       PROVE  all[n] = WithKeys(all[n - 1], rows[n].keys)
  <2>1. n \in 0 .. m /\ n # 0
    OBVIOUS
  <2> QED  BY <1>11, <2>1
<1> HIDE DEF Is
<1> DEFINE Good(n) == /\ all[n] \in Seq(Text)
                      /\ \A k \in 1 .. n : Met(rows[k].keys, all[n])
           S == {n \in Nat : n <= m => Good(n)}
<1>14. 0 \in S
  <2>1. Good(0)
    BY <1>12, EmptySeq DEF Good
  <2> HIDE DEF Good
  <2> QED  BY <2>1
<1> HIDE DEF Good
<1>15. ASSUME NEW n \in Nat, n \in S PROVE n + 1 \in S
  <2> SUFFICES ASSUME n + 1 <= m PROVE Good(n + 1)
    OBVIOUS
  <2>1. n + 1 \in 1 .. m /\ n + 1 - 1 = n
    OBVIOUS
  <2>2. Good(n)
    BY <1>15, <2>1
  <2>3. all[n + 1] = WithKeys(all[n], rows[n + 1].keys)
    <3>1. PICK p \in 1 .. m : p = n + 1 /\ p - 1 = n
      BY <2>1
    <3> QED  BY <1>13, <3>1
  <2>4. rows[n + 1].keys \in Seq(Text)
    BY <1>1, <2>1
  <2>5. /\ all[n + 1] \in Seq(Text) /\ Met(rows[n + 1].keys, all[n + 1])
        /\ \A y : Places(all[n], y) # {} => Places(all[n + 1], y) # {}
    BY <2>2, <2>3, <2>4, WithKeysFacts DEF Good
  <2>6. \A k \in 1 .. n + 1 : k = n + 1 \/ k \in 1 .. n
    OBVIOUS
  <2>7. \A k \in 1 .. n : Met(rows[k].keys, all[n + 1])
    BY <2>2, <2>5 DEF Met, Good
  <2> QED  BY <2>5, <2>6, <2>7 DEF Good
<1>16. Good(m)
  <2>1. m \in S
    <3> HIDE DEF S
    <3>1. Nat \subseteq S
      BY <1>14, <1>15, SetInduction
    <3> QED  BY <3>1
  <2> QED  BY <2>1
<1> QED  BY <1>1, <1>3, <1>16 DEF Good

(* Every value of an entry is in a cell.                                   *)
Shown(cells, headers, entry) ==
    \A v \in DOMAIN entry.values :
        \E j \in DOMAIN headers : Places(cells[headers[j]], entry.values[v]) # {}

(* Fixed headers are apart, and trimming them changes nothing.             *)
LEMMA FixedDiffer ==
    ASSUME NEW headers, Fixed(headers)
    PROVE  /\ \A i, j \in DOMAIN headers : headers[i] = headers[j] => i = j
           /\ HeadersApart(headers)
           /\ {Trim(headers[j]) : j \in DOMAIN headers} = {headers[j] : j \in DOMAIN headers}
<1>1. \A j \in DOMAIN headers : Trim(headers[j]) = headers[j] /\ headers[j] # <<>>
  BY DEF Fixed
<1>2. HeadersApart(headers)
  BY <1>1 DEF HeadersApart, Fixed
<1>3. {Trim(headers[j]) : j \in DOMAIN headers} = {headers[j] : j \in DOMAIN headers}
  BY <1>1
<1> QED  BY <1>2, <1>3, ApartDiffer

(* The JSON of a row is its bracket and its values.                        *)
LEMMA JsonFacts ==
    ASSUME NEW values \in Seq(Int)
    PROVE  /\ 1 \in DOMAIN Json(values) /\ Json(values)[1] = Bracket
           /\ \A v \in DOMAIN values : /\ v + 1 \in DOMAIN Json(values)
                                       /\ Json(values)[v + 1] = values[v]
<1> DEFINE b == <<Bracket>>
           t == b \o values
<1>1. b \in Seq(Int) /\ Len(b) = 1 /\ b[1] = Bracket
  BY DEF Bracket
<1> HIDE DEF b
<1>2. /\ t \in Seq(Int) /\ Len(t) = Len(b) + Len(values)
      /\ \A i \in 1 .. Len(b) + Len(values) :
            t[i] = IF i <= Len(b) THEN b[i] ELSE values[i - Len(b)]
  BY <1>1, ConcatProperties
<1> HIDE DEF t
<1>3. /\ Len(values) \in Nat /\ DOMAIN values = 1 .. Len(values)
      /\ DOMAIN t = 1 .. 1 + Len(values)
  BY <1>1, <1>2, LenProperties
<1>4. 1 \in DOMAIN t /\ t[1] = Bracket
  BY <1>1, <1>2, <1>3
<1>5. ASSUME NEW v \in DOMAIN values PROVE v + 1 \in DOMAIN t /\ t[v + 1] = values[v]
  <2>1. v + 1 \in 1 .. 1 + Len(values) /\ ~(v + 1 <= 1) /\ v + 1 - 1 = v
    BY <1>3
  <2> QED  BY <1>1, <1>2, <1>3, <2>1
<1> QED  BY <1>4, <1>5 DEF Json, t, b

(* A cell that has a value, alone or with all of its row, shows it.        *)
LEMMA HeldPlace ==
    ASSUME NEW values \in Seq(Int), NEW v \in DOMAIN values,
           NEW cell, cell \in {<<values[v]>>, Json(values)}
    PROVE  Places(cell, values[v]) # {}
<1>1. CASE cell = Json(values)
  <2>1. v + 1 \in DOMAIN cell /\ cell[v + 1] = values[v]
    BY <1>1, JsonFacts
  <2> QED  BY <2>1 DEF Places
<1>2. CASE cell = <<values[v]>>
  <2> DEFINE x == values[v]
  <2>1. 1 \in DOMAIN <<x>> /\ <<x>>[1] = x
    OBVIOUS
  <2>2. 1 \in Places(<<x>>, x)
    BY <2>1 DEF Places
  <2> QED  BY <1>2, <2>2
<1> QED  BY <1>1, <1>2

(* A list that is no longer than the headers is shown, ...                 *)
LEMMA ListShown ==
    ASSUME NEW entry, NEW headers, Fixed(headers), entry.kind = "list",
           DOMAIN entry.values \subseteq DOMAIN headers, entry.values \in Seq(Int)
    PROVE  Shown(ObjectOf(entry, headers), headers, entry)
<1>1. Holds(ObjectOf(entry, headers), headers, entry)
  BY ObjectHolds, FixedDiffer DEF WellFormed
<1> SUFFICES ASSUME NEW v \in DOMAIN entry.values
             PROVE  \E j \in DOMAIN headers :
                       Places(ObjectOf(entry, headers)[headers[j]], entry.values[v]) # {}
  BY DEF Shown
<1>2. /\ v \in DOMAIN headers
      /\ ObjectOf(entry, headers)[headers[v]] \in {<<entry.values[v]>>, Json(entry.values)}
  BY <1>1 DEF Holds
<1>3. Places(ObjectOf(entry, headers)[headers[v]], entry.values[v]) # {}
  BY <1>2, HeldPlace
<1> QED  BY <1>2, <1>3

(* ... an object the keys of which are headers, ...                        *)
LEMMA ObjectShown ==
    ASSUME NEW entry, NEW headers, Fixed(headers), entry.kind = "object", WellFormed(entry),
           Met(entry.keys, headers), entry.values \in Seq(Int)
    PROVE  Shown(ObjectOf(entry, headers), headers, entry)
<1>1. Holds(ObjectOf(entry, headers), headers, entry)
  BY ObjectHolds, FixedDiffer
<1> SUFFICES ASSUME NEW v \in DOMAIN entry.values
             PROVE  \E j \in DOMAIN headers :
                       Places(ObjectOf(entry, headers)[headers[j]], entry.values[v]) # {}
  BY DEF Shown
<1>2. v \in DOMAIN entry.keys
  BY DEF WellFormed
<1>3. PICK j \in Places(headers, entry.keys[v]) : TRUE
  BY <1>2 DEF Met
<1>4. /\ j \in DOMAIN headers
      /\ ObjectOf(entry, headers)[headers[j]] \in {<<entry.values[v]>>, Json(entry.values)}
  BY <1>1, <1>3 DEF Holds, Places
<1>5. Places(ObjectOf(entry, headers)[headers[j]], entry.values[v]) # {}
  BY <1>4, HeldPlace
<1> QED  BY <1>4, <1>5

(* ... and what stands in the first cell whole.                            *)
LEMMA ScalarShown ==
    ASSUME NEW entry, NEW headers, Fixed(headers), entry.kind \notin {"list", "object"},
           1 \in DOMAIN headers, NEW shown, shown.values \in Seq(Int),
           entry.values \in {shown.values, Json(shown.values)}
    PROVE  Shown(ObjectOf(entry, headers), headers, shown)
<1>1. Latest(Places(headers, headers[1])) = 1
  BY LatestOfOne, FixedDiffer
<1>2. headers[1] \in {headers[j] : j \in DOMAIN headers}
  OBVIOUS
<1> DEFINE h == headers[1]
<1>3. ObjectOf(entry, headers)[h] = entry.values
  <2>1. h \in {headers[j] : j \in DOMAIN headers} /\ Latest(Places(headers, h)) = 1
    BY <1>1, <1>2
  <2> HIDE DEF h
  <2> QED  BY <2>1 DEF ObjectOf
<1>4. \A v \in DOMAIN shown.values : Places(entry.values, shown.values[v]) # {}
  <2>1. CASE entry.values = shown.values
    BY <2>1 DEF Places
  <2>2. CASE entry.values = Json(shown.values)
    BY <2>2, HeldPlace
  <2> QED  BY <2>1, <2>2
<1> QED  BY <1>3, <1>4 DEF Shown

(* A row that is made has a cell for each header.                          *)
LEMMA ObjectDomain ==
    ASSUME NEW entry, NEW headers
    PROVE  DOMAIN ObjectOf(entry, headers) = {headers[j] : j \in DOMAIN headers}
BY DEF ObjectOf

(* An ordinary table has fixed headers, all of its rows have these, and    *)
(* every value is shown.                                                   *)
LEMMA TabulatedKept ==
    ASSUME NEW shape, shape = produced.shape, NEW table \in SourceTable, NEW i,
           Ordinary(table), \A n \in DOMAIN table.rows : WellFormed(table.rows[n])
    PROVE  LET made == Tabulated(shape, table, i)
           IN  /\ Fixed(made.headers) /\ made.headers # <<>>
               /\ DOMAIN made.rows = DOMAIN table.rows
               /\ \A n \in DOMAIN made.rows :
                     /\ DOMAIN made.rows[n] = {made.headers[j] : j \in DOMAIN made.headers}
                     /\ Shown(made.rows[n], made.headers, table.rows[n])
<1> DEFINE rows == table.rows
           mixed == shape # "direct" /\ ~Only(rows, "list") /\ ~Only(rows, "object")
           whole(entry) ==
             [kind |-> "scalar", keys |-> <<>>,
              values |-> IF entry.kind = "scalar" THEN entry.values
                         ELSE Json(entry.values)]
           counted == [n \in 1 .. Widest(rows) |-> <<"c">> \o Decimal[n]]
           raw == CASE shape = "direct" -> table.headers
                    [] mixed -> <<>>
                    [] shape # "direct" /\ Only(rows, "list") -> counted
                    [] OTHER -> AllKeys(rows)
           headers == NormalizeHeaders(raw)
           of(n) == IF mixed THEN whole(rows[n]) ELSE rows[n]
           made == Tabulated(shape, table, i)
<1>1. /\ made.headers = headers
      /\ made.rows = [n \in DOMAIN rows |-> ObjectOf(of(n), headers)]
  BY DEF Tabulated
<1>2. /\ rows \in Seq(Entry) /\ table.headers \in Seq(Text)
      /\ DOMAIN rows = 1 .. Len(rows) /\ \A n \in DOMAIN rows : rows[n] \in Entry
  <2>1. rows \in Seq(Entry) /\ table.headers \in Seq(Text)
    BY DEF SourceTable
  <2> QED  BY <2>1, LenProperties, ElementOfSeq
<1>3. /\ Widest(rows) \in Nat /\ AllKeys(rows) \in Seq(Text)
      /\ \A n \in DOMAIN rows : /\ Len(rows[n].values) <= Widest(rows)
                                /\ Met(rows[n].keys, AllKeys(rows))
  BY <1>2, WidestFacts, AllKeysFacts
<1>4. Fixed(table.headers) /\ Fixed(AllKeys(rows)) /\ Fixed(counted) /\ Fixed(<<>>)
  <2>1. Fixed(table.headers) /\ Fixed(AllKeys(rows))
    BY <1>2, <1>3, PlainFixed DEF Ordinary
  <2>2. Fixed(counted)
    BY <1>3, CountedFixed
  <2>3. Fixed(<<>>)
    BY EmptySeq DEF Fixed
  <2> QED  BY <2>1, <2>2, <2>3
<1>5. \A n \in DOMAIN rows : /\ rows[n].values \in Seq(Int) /\ Len(rows[n].values) \in Nat
                             /\ DOMAIN rows[n].values = 1 .. Len(rows[n].values)
                             /\ rows[n].kind \in {"list", "object", "scalar"}
  <2> TAKE n \in DOMAIN rows
  <2>1. rows[n] \in Entry
    BY <1>2
  <2> QED  BY <2>1, LenProperties DEF Entry
<1> HIDE DEF counted
<1>6. Fixed(raw)
  BY <1>4
<1>7. /\ Fixed(headers) /\ headers # <<>> /\ 1 \in DOMAIN headers
      /\ raw # <<>> => headers = raw
  <2> HIDE DEF raw
  <2> QED  BY <1>6, NormalizedFacts
<1>8. /\ shape = "direct" => raw = table.headers
      /\ mixed => raw = <<>>
      /\ shape # "direct" /\ Only(rows, "list") => raw = counted
      /\ shape # "direct" /\ ~mixed /\ ~Only(rows, "list") =>
            raw = AllKeys(rows) /\ Only(rows, "object")
  OBVIOUS
<1> HIDE DEF headers, raw, made
<1>9. ASSUME NEW n \in DOMAIN rows PROVE Shown(ObjectOf(of(n), headers), headers, rows[n])
  <2>1. CASE mixed
    <3> DEFINE w == whole(rows[n])
    <3>1. /\ of(n) = w /\ w.kind = "scalar"
          /\ w.values \in {rows[n].values, Json(rows[n].values)}
      BY <2>1
    <3> HIDE DEF w, of
    <3> QED  BY <1>5, <1>7, <3>1, ScalarShown
  <2> HIDE DEF Only
  <2>2. CASE shape = "direct"
    <3>1. of(n) = rows[n]
      BY <2>2
    <3>2. /\ table.headers # <<>> /\ Len(table.headers) \in Nat
          /\ DOMAIN table.headers = 1 .. Len(table.headers)
          /\ Len(rows[n].values) <= Len(table.headers)
          /\ Met(rows[n].keys, table.headers)
      BY <1>2, <2>2, LenProperties, EmptySeq DEF Ordinary, Met
    <3>3. headers = table.headers
      BY <1>7, <1>8, <2>2, <3>2
    <3>4. DOMAIN rows[n].values \subseteq DOMAIN headers
      BY <1>5, <3>2, <3>3
    <3> HIDE DEF of
    <3>5. CASE rows[n].kind = "list"
      BY <1>5, <1>7, <3>1, <3>4, <3>5, ListShown
    <3>6. CASE rows[n].kind = "object"
      BY <1>5, <1>7, <3>1, <3>2, <3>3, <3>6, ObjectShown
    <3>7. CASE rows[n].kind = "scalar"
      BY <1>5, <1>7, <3>1, <3>7, ScalarShown
    <3> QED  BY <1>5, <3>5, <3>6, <3>7
  <2>3. CASE shape # "direct" /\ Only(rows, "list")
    <3>1. of(n) = rows[n] /\ rows[n].kind = "list"
      BY <2>3 DEF Only
    <3>2. counted # <<>> => headers = counted
      BY <1>7, <1>8, <2>3
    <3>3. DOMAIN counted = 1 .. Widest(rows)
      BY DEF counted
    <3>4. DOMAIN rows[n].values \subseteq DOMAIN headers
      <4>1. CASE Widest(rows) = 0
        <5>1. DOMAIN rows[n].values = {}
          BY <1>3, <1>5, <4>1
        <5> QED  BY <5>1
      <4>2. CASE Widest(rows) # 0
        <5>1. 1 \in DOMAIN counted
          BY <1>3, <3>3, <4>2
        <5>2. counted # <<>>
          BY <5>1
        <5>3. DOMAIN rows[n].values \subseteq 1 .. Widest(rows)
          BY <1>3, <1>5
        <5> QED  BY <3>2, <3>3, <5>2, <5>3
      <4> QED  BY <4>1, <4>2
    <3> HIDE DEF of
    <3> QED  BY <1>5, <1>7, <3>1, <3>4, ListShown
  <2>4. CASE shape # "direct" /\ ~mixed /\ ~Only(rows, "list")
    <3>1. of(n) = rows[n] /\ rows[n].kind = "object"
      BY <1>8, <2>4 DEF Only
    <3>2. AllKeys(rows) # <<>> => headers = AllKeys(rows)
      BY <1>7, <1>8, <2>4
    <3>3. Met(rows[n].keys, headers)
      <4>1. CASE AllKeys(rows) # <<>>
        BY <1>3, <3>2, <4>1
      <4>2. CASE AllKeys(rows) = <<>>
        <5>1. DOMAIN AllKeys(rows) = {}
          BY <4>2, EmptySeq
        <5>2. DOMAIN rows[n].keys = {}
          BY <1>3, <5>1 DEF Met, Places
        <5> QED  BY <5>2 DEF Met
      <4> QED  BY <4>1, <4>2
    <3> HIDE DEF of
    <3> QED  BY <1>5, <1>7, <3>1, <3>3, ObjectShown
  <2> QED  BY <2>1, <2>2, <2>3, <2>4
<1>10. \A n \in DOMAIN rows :
          DOMAIN ObjectOf(of(n), headers) = {headers[j] : j \in DOMAIN headers}
  BY ObjectDomain
<1> HIDE DEF of
<1>11. \A n \in DOMAIN made.rows : made.rows[n] = ObjectOf(of(n), headers) /\ n \in DOMAIN rows
  BY <1>1
<1>12. \A n \in DOMAIN made.rows :
          /\ DOMAIN made.rows[n] = {made.headers[j] : j \in DOMAIN made.headers}
          /\ Shown(made.rows[n], made.headers, table.rows[n])
  BY <1>1, <1>9, <1>10, <1>11
<1> QED  BY <1>1, <1>7, <1>12 DEF made

(* Headers that are normalized of texts are texts, ...                     *)
LEMMA NormalizedText ==
    ASSUME NEW raw \in Seq(Word)
    PROVE  \A i \in DOMAIN NormalizeHeaders(raw) : NormalizeHeaders(raw)[i] \in Word
<1>1. CASE raw = <<>>
  <2> DEFINE h == NormalizeHeaders(<<>>)
  <2>1. h \in Seq(Word)
    BY NormalizedNone DEF Fixed
  <2> HIDE DEF h
  <2>2. \A i \in DOMAIN h : h[i] \in Word
    BY <2>1, LenProperties, ElementOfSeq
  <2> QED  BY <1>1, <2>2 DEF h
<1>2. CASE raw # <<>>
  <2> DEFINE x == "c"
             named == [i \in DOMAIN raw |->
                         IF Trim(raw[i]) = <<>> THEN <<x>> \o Decimal[i] ELSE Trim(raw[i])]
             twins(i) == {j \in 1 .. i - 1 : Alike(named[j], named[i])}
             made == [i \in DOMAIN raw |->
                        IF Cardinality(twins(i)) = 0 THEN named[i]
                        ELSE named[i] \o Suffix(Cardinality(twins(i)) + 1)]
  <2>1. NormalizeHeaders(raw) = made
    BY <1>2 DEF NormalizeHeaders
  <2>2. DOMAIN raw = 1 .. Len(raw) /\ \A i \in DOMAIN raw : raw[i] \in Word /\ i \in Nat
    BY LenProperties, ElementOfSeq
  <2>3. x \in Char /\ x # BlankChar
    <3>1. "c" \in Char
      BY DEF Char
    <3>2. "c" # BlankChar
      BY Zenon DEF BlankChar
    <3> QED  BY <3>1, <3>2
  <2> HIDE DEF x
  <2>4. ASSUME NEW i \in DOMAIN raw PROVE named[i] \in Word
    BY <2>2, <2>3, PlacedText, TrimText
  <2> HIDE DEF named
  <2>5. ASSUME NEW i \in DOMAIN raw PROVE Cardinality(twins(i)) \in Nat
    <3>1. IsFiniteSet(1 .. i - 1)
      BY <2>2, FS_Interval
    <3> QED  BY <3>1, FS_Subset, FS_CardinalityType
  <2> HIDE DEF twins
  <2>6. ASSUME NEW i \in DOMAIN made PROVE made[i] \in Word
    <3>1. /\ i \in DOMAIN raw /\ named[i] \in Word
          /\ Cardinality(twins(i)) + 1 \in Nat
      BY <2>4, <2>5, <2>6
    <3>2. made[i] \in {named[i], named[i] \o Suffix(Cardinality(twins(i)) + 1)}
      BY <3>1
    <3> QED  BY <3>1, <3>2, SuffixSound, Joined
  <2> QED  BY <2>1, <2>6
<1> QED  BY <1>1, <1>2

(* ... and so are those of every table that is built.                      *)
LEMMA HeadersAreText ==
    ASSUME NEW out \in Outputs, NEW i \in DOMAIN Build(out)
    PROVE  \A j \in DOMAIN Build(out)[i].headers : Build(out)[i].headers[j] \in Word
<1> DEFINE table == out.tables[i]
           rows == table.rows
<1>1. i \in DOMAIN out.tables /\ table \in SourceTable
  BY BuildFacts
<1>2. table.headers \in Seq(Word) /\ rows \in Seq(Entry)
  BY <1>1, CharOfDigits, SeqMonotonic DEF SourceTable
<1>3. CASE out.shape = "canonical"
  <2>1. Build(out)[i].headers = table.headers
    BY <1>1, <1>3 DEF Build, AsIs
  <2> HIDE DEF table
  <2>2. \A j \in DOMAIN table.headers : table.headers[j] \in Word
    BY <1>2, LenProperties, ElementOfSeq
  <2> QED  BY <2>1, <2>2
<1>4. CASE out.shape # "canonical"
  <2> DEFINE counted == [n \in 1 .. Widest(rows) |-> <<"c">> \o Decimal[n]]
  <2>1. Build(out)[i] = Tabulated(out.shape, table, i)
    BY <1>4, BuildFacts, <1>1
  <2>2. Tabulated(out.shape, table, i).headers \in
           {NormalizeHeaders(raw) : raw \in {table.headers, <<>>, counted, AllKeys(rows)}}
    BY DEF Tabulated
  <2> HIDE DEF table
  <2>3. Widest(rows) \in Nat /\ AllKeys(rows) \in Seq(Text)
    <3> HIDE DEF rows
    <3> QED  BY <1>2, WidestFacts, AllKeysFacts
  <2>4. counted \in Seq(Word)
    BY <2>3, CountedFixed DEF Fixed
  <2>5. AllKeys(rows) \in Seq(Word)
    BY <2>3, CharOfDigits, SeqMonotonic
  <2> HIDE DEF counted, rows
  <2>6. \A raw \in {table.headers, <<>>, counted, AllKeys(rows)} : raw \in Seq(Word)
    BY <1>2, <2>4, <2>5, EmptySeq
  <2>7. PICK raw \in Seq(Word) :
           Tabulated(out.shape, table, i).headers = NormalizeHeaders(raw)
    BY <2>2, <2>6
  <2> QED  BY <2>1, <2>7, NormalizedText
<1> QED  BY <1>3, <1>4

(* The values of a row are integers.                                       *)
LEMMA ValuesTyped ==
    ASSUME NEW out \in Outputs, NEW i \in DOMAIN out.tables,
           NEW n \in DOMAIN out.tables[i].rows
    PROVE  out.tables[i].rows[n].values \in Seq(Int)
<1>1. out.tables[i] \in SourceTable
  BY BuildFacts
<1>2. out.tables[i].rows \in Seq(Entry)
  BY <1>1 DEF SourceTable
<1>3. out.tables[i].rows[n] \in Entry
  BY <1>2, LenProperties, ElementOfSeq
<1> QED  BY <1>3 DEF Entry

-----------------------------------------------------------------------------
(***************************************************************************)
(* Exports. ExportInv remembers of the sheets how they were made and that  *)
(* they are named apart, and of a refusal why.                             *)
(***************************************************************************)

ExportInv ==
    /\ produced \in Outputs
    /\ tables # <<>> => tables = Build(produced)
    /\ sheets # <<>> =>
          /\ tables # <<>> /\ Valid(tables)
          /\ \E names :
                /\ Named(names) /\ DOMAIN names = DOMAIN tables
                /\ sheets = [i \in DOMAIN tables |->
                               [MapOutput(tables)[i] EXCEPT !.name = names[i]]]
    /\ download = "invalid" => tables # <<>> /\ ~(Valid(tables) /\ Mappable(tables))

(* Tables that were let pass are named apart.                              *)
LEMMA ExportNamed ==
    ASSUME NEW ts, NEW out \in Outputs, ts = Build(out), Valid(ts)
    PROVE  Named(Names(ts)) /\ DOMAIN Names(ts) = DOMAIN ts
<1>1. /\ Len(ts) = Len(out.tables) /\ Len(ts) \in Nat
      /\ DOMAIN ts = 1 .. Len(ts) /\ DOMAIN out.tables = 1 .. Len(ts)
      /\ \A i \in 1 .. Len(ts) : ts[i].name \in Word
      /\ \A k \in 1 .. Len(ts) : Len(Suffix(k)) <= MaxSheetName
  BY BuildFacts
<1>2. \A i \in 1 .. Len(ts) : Trim(ts[i].name) # <<>>
  BY <1>1 DEF Valid
<1>3. \A i \in 1 .. Len(ts) : Sound(Base(ts[i]))
  BY <1>1, <1>2, BaseSound
<1>4. Named(Names(ts)) /\ Len(Names(ts)) = Len(ts)
  BY <1>1, <1>3, NamesNamed
<1>5. DOMAIN Names(ts) = 1 .. Len(Names(ts))
  BY <1>4, LenProperties DEF Named
<1> QED  BY <1>1, <1>4, <1>5

(* The inductive invariant.                                                *)
LEMMA ExportInvHolds == TablesSpec => []ExportInv
<1>1. TablesInit => ExportInv
  BY DEF TablesInit, ExportInv
<1>2. ExportInv /\ [TablesNext]_tableVars => ExportInv'
  <2> SUFFICES ASSUME ExportInv, [TablesNext]_tableVars PROVE ExportInv'
    OBVIOUS
  <2>1. CASE Store
    <3>1. sheets = <<>> /\ download # "invalid"
      BY <2>1 DEF Store, ExportInv
    <3> QED  BY <2>1, <3>1 DEF Store, ExportInv
  <2> HIDE DEF ExportInv
  <2>2. CASE Export
    <3>1. /\ sheets' = [i \in DOMAIN tables |->
                          [MapOutput(tables)[i] EXCEPT !.name = Names(tables)[i]]]
          /\ UNCHANGED <<produced, tables, format>> /\ tables # <<>> /\ Valid(tables)
          /\ download' # "invalid"
      BY <2>2 DEF Export
    <3>2. /\ Valid(tables)' /\ MapOutput(tables)' = MapOutput(tables)
          /\ \A names : Named(names) => Named(names)'
      BY <3>1 DEF Valid, MapOutput, Named, Sound
    <3>3. Named(Names(tables)) /\ DOMAIN Names(tables) = DOMAIN tables
      BY <3>1, ExportNamed DEF ExportInv
    <3>4. \E names : /\ Named(names)' /\ DOMAIN names = DOMAIN tables
                     /\ sheets' = [i \in DOMAIN tables |->
                          [MapOutput(tables)[i] EXCEPT !.name = names[i]]]
      BY <3>1, <3>2, <3>3
    <3>5. PICK names : /\ Named(names)' /\ DOMAIN names = DOMAIN tables
                       /\ sheets' = [i \in DOMAIN tables |->
                            [MapOutput(tables)[i] EXCEPT !.name = names[i]]]
      BY <3>4
    <3>6. sheets' = [i \in DOMAIN tables |->
                       [MapOutput(tables)[i] EXCEPT !.name = names[i]]]'
      BY <3>1, <3>2, <3>5
    <3>7. /\ produced' \in Outputs /\ tables' = Build(produced)' /\ tables' # <<>>
          /\ DOMAIN names = DOMAIN tables'
      BY <3>1, <3>5 DEF ExportInv
    <3> QED  BY <3>1, <3>2, <3>5, <3>6, <3>7 DEF ExportInv
  <2>3. CASE Refuse
    <3>1. (Valid(tables) /\ Mappable(tables))' <=> (Valid(tables) /\ Mappable(tables))
      BY <2>3 DEF Refuse, Valid, Mappable
    <3>2. \A names : Named(names) => Named(names)'
      BY <2>3 DEF Refuse, Named, Sound
    <3> QED  BY <2>3, <3>1, <3>2 DEF Refuse, ExportInv
  <2>4. CASE ExportFails \/ UNCHANGED tableVars
    <3>1. /\ UNCHANGED <<produced, tables, format, sheets>>
          /\ download' = "invalid" => download = "invalid"
      BY <2>4 DEF ExportFails, tableVars
    <3>2. \A names : Named(names) => Named(names)'
      BY <3>1 DEF Named, Sound
    <3> QED  BY <3>1, <3>2 DEF ExportInv
  <2> QED  BY <2>1, <2>2, <2>3, <2>4 DEF TablesNext
<1> QED  BY <1>1, <1>2, PTL DEF TablesSpec

(* Names are apart.                                                        *)
LEMMA NamesAreApart == ExportInv => NamesApart
<1> SUFFICES ASSUME ExportInv, NEW i \in DOMAIN sheets, NEW j \in DOMAIN sheets
             PROVE  /\ i # j => ~Alike(sheets[i].name, sheets[j].name)
                    /\ sheets[i].name # <<>>
                    /\ format = "xlsx" => Len(sheets[i].name) <= MaxSheetName
                    /\ \A k \in DOMAIN sheets[i].name : sheets[i].name[k] # "/"
  BY DEF NamesApart
<1>1. sheets # <<>>
  OBVIOUS
<1>2. PICK names : /\ Named(names) /\ DOMAIN names = DOMAIN tables
                   /\ sheets = [k \in DOMAIN tables |->
                                  [MapOutput(tables)[k] EXCEPT !.name = names[k]]]
  BY <1>1 DEF ExportInv
<1>3. /\ i \in DOMAIN names /\ j \in DOMAIN names
      /\ sheets[i].name = names[i] /\ sheets[j].name = names[j]
  BY <1>2 DEF MapOutput
<1>4. Sound(names[i]) /\ (i # j => ~Alike(names[i], names[j]))
  BY <1>2, <1>3 DEF Named
<1> QED  BY <1>3, <1>4 DEF Sound, NoSlash

(* Ordinary tables are let pass.                                           *)
OrdinaryOutput ==
    /\ produced.shape # "canonical"
    /\ \A i \in DOMAIN produced.tables : Ordinary(produced.tables[i])
    /\ produced.shape = "sheets" =>
          Plain([i \in DOMAIN produced.tables |-> produced.tables[i].name])

(* An ordinary output was built of ordinary tables, ...                    *)
LEMMA OrdinaryBuilt ==
    ASSUME ExportInv, tables # <<>>, OrdinaryOutput
    PROVE  \A i \in DOMAIN tables :
              /\ i \in DOMAIN produced.tables
              /\ Fixed(tables[i].headers) /\ tables[i].headers # <<>>
              /\ DOMAIN tables[i].rows = DOMAIN produced.tables[i].rows
              /\ \A n \in DOMAIN tables[i].rows :
                    /\ DOMAIN tables[i].rows[n] =
                          {tables[i].headers[j] : j \in DOMAIN tables[i].headers}
                    /\ Shown(tables[i].rows[n], tables[i].headers,
                             produced.tables[i].rows[n])
<1> SUFFICES ASSUME NEW i \in DOMAIN tables
             PROVE  /\ i \in DOMAIN produced.tables
                    /\ Fixed(tables[i].headers) /\ tables[i].headers # <<>>
                    /\ DOMAIN tables[i].rows = DOMAIN produced.tables[i].rows
                    /\ \A n \in DOMAIN tables[i].rows :
                          /\ DOMAIN tables[i].rows[n] =
                                {tables[i].headers[j] : j \in DOMAIN tables[i].headers}
                          /\ Shown(tables[i].rows[n], tables[i].headers,
                                   produced.tables[i].rows[n])
  OBVIOUS
<1>1. produced \in Outputs /\ tables = Build(produced)
  BY DEF ExportInv
<1>2. /\ i \in DOMAIN produced.tables /\ produced.tables[i] \in SourceTable
      /\ tables[i] = Tabulated(produced.shape, produced.tables[i], i)
  BY <1>1, BuildFacts DEF OrdinaryOutput
<1>3. /\ Ordinary(produced.tables[i])
      /\ \A n \in DOMAIN produced.tables[i].rows : WellFormed(produced.tables[i].rows[n])
  BY <1>1, <1>2, ExportTablesAssumption DEF OrdinaryOutput, WellFormed
<1> DEFINE made == Tabulated(produced.shape, produced.tables[i], i)
           table == produced.tables[i]
           shape == produced.shape
<1>4. /\ Fixed(made.headers) /\ made.headers # <<>>
      /\ DOMAIN made.rows = DOMAIN table.rows
      /\ \A n \in DOMAIN made.rows :
            /\ DOMAIN made.rows[n] = {made.headers[j] : j \in DOMAIN made.headers}
            /\ Shown(made.rows[n], made.headers, table.rows[n])
  <2>1. /\ shape = produced.shape /\ table \in SourceTable /\ Ordinary(table)
        /\ \A n \in DOMAIN table.rows : WellFormed(table.rows[n])
    BY <1>2, <1>3
  <2> HIDE DEF table, shape
  <2>2. LET m == Tabulated(shape, table, i)
        IN  /\ Fixed(m.headers) /\ m.headers # <<>>
            /\ DOMAIN m.rows = DOMAIN table.rows
            /\ \A n \in DOMAIN m.rows :
                  /\ DOMAIN m.rows[n] = {m.headers[j] : j \in DOMAIN m.headers}
                  /\ Shown(m.rows[n], m.headers, table.rows[n])
    BY <2>1, TabulatedKept
  <2> QED  BY <2>2 DEF table, shape
<1> HIDE DEF made
<1>5. tables[i] = made
  BY <1>2 DEF made
<1> QED  BY <1>2, <1>4, <1>5

(* ... they are named, by their names or by their places, ...              *)
LEMMA OrdinaryNames ==
    ASSUME ExportInv, tables # <<>>, OrdinaryOutput
    PROVE  /\ \A i \in DOMAIN tables : Trim(tables[i].name) # <<>>
           /\ \A i, j \in DOMAIN tables : i # j => tables[i].name # tables[j].name
<1>1. produced \in Outputs /\ tables = Build(produced)
  BY DEF ExportInv
<1> DEFINE given == [i \in DOMAIN produced.tables |-> produced.tables[i].name]
           placed(i) == <<"S">> \o Decimal[i]
<1>2. /\ DOMAIN tables = DOMAIN produced.tables
      /\ \A i \in DOMAIN tables : i \in Nat
      /\ \A i \in DOMAIN tables :
            /\ produced.tables[i].name \in Word
            /\ tables[i].name =
                  IF produced.shape = "sheets" /\ Trim(given[i]) # <<>>
                  THEN Trim(given[i]) ELSE placed(i)
  <2>1. /\ DOMAIN tables = DOMAIN produced.tables /\ DOMAIN tables = 1 .. Len(produced.tables)
        /\ Len(produced.tables) \in Nat
    BY <1>1, BuildFacts
  <2>2. ASSUME NEW i \in DOMAIN tables
        PROVE  /\ produced.tables[i].name \in Word
               /\ tables[i].name =
                     IF produced.shape = "sheets" /\ Trim(given[i]) # <<>>
                     THEN Trim(given[i]) ELSE placed(i)
    <3>1. /\ produced.tables[i] \in SourceTable
          /\ tables[i] = Tabulated(produced.shape, produced.tables[i], i)
      BY <1>1, <2>1, BuildFacts DEF OrdinaryOutput
    <3>2. produced.tables[i].name \in Word
      BY <3>1, CharOfDigits DEF SourceTable
    <3>3. given[i] = produced.tables[i].name
      BY <2>1
    <3> HIDE DEF given
    <3>4. tables[i].name = IF produced.shape = "sheets" /\ Trim(given[i]) # <<>>
                           THEN Trim(given[i]) ELSE placed(i)
      BY <3>1, <3>3 DEF Tabulated
    <3> QED  BY <3>2, <3>4
  <2> QED  BY <2>1, <2>2
<1>3. \A i \in Nat : /\ Trim(placed(i)) # <<>>
                     /\ \A j \in Nat : placed(i) = placed(j) => i = j
  BY PlacedName
<1>4. CASE produced.shape = "sheets"
  <2>1. Plain(given) /\ DOMAIN given = DOMAIN tables
    BY <1>2, <1>4 DEF OrdinaryOutput
  <2> HIDE DEF given, placed
  <2>2. \A i, j \in DOMAIN tables : /\ given[i] # <<>> /\ given[i] = Trim(given[i])
                                    /\ i # j => ~Alike(given[i], given[j])
    BY <2>1 DEF Plain
  <2>3. \A i \in DOMAIN tables : tables[i].name = given[i]
    BY <1>2, <1>4, <2>2
  <2> QED  BY <2>2, <2>3 DEF Alike
<1>5. CASE produced.shape # "sheets"
  <2> HIDE DEF given, placed
  <2>1. \A i \in DOMAIN tables : tables[i].name = placed(i)
    BY <1>2, <1>5
  <2> QED  BY <1>2, <1>3, <2>1
<1> QED  BY <1>4, <1>5

(* ... so they are let pass.                                               *)
LEMMA OrdinaryPasses ==
    ASSUME ExportInv, tables # <<>>, OrdinaryOutput
    PROVE  Valid(tables) /\ Mappable(tables)
<1>1. \A i \in DOMAIN tables :
         /\ Fixed(tables[i].headers) /\ tables[i].headers # <<>>
         /\ \A n \in DOMAIN tables[i].rows :
               DOMAIN tables[i].rows[n] =
                  {tables[i].headers[j] : j \in DOMAIN tables[i].headers}
  BY OrdinaryBuilt
<1>2. \A i \in DOMAIN tables :
         /\ HeadersApart(tables[i].headers)
         /\ {Trim(tables[i].headers[j]) : j \in DOMAIN tables[i].headers} =
               {tables[i].headers[j] : j \in DOMAIN tables[i].headers}
  BY <1>1, FixedDiffer
<1>3. Valid(tables)
  BY <1>1, <1>2, OrdinaryNames DEF Valid
<1>4. Mappable(tables)
  BY <1>1 DEF Mappable
<1> QED  BY <1>3, <1>4

(* What is written of the tables: each cell of the row under its header,   *)
(* sanitized.                                                              *)
LEMMA SheetsShow ==
    ASSUME ExportInv, NEW i \in DOMAIN sheets
    PROVE  /\ tables # <<>> /\ tables = Build(produced)
           /\ produced \in Outputs /\ Valid(tables)
           /\ i \in DOMAIN tables
           /\ DOMAIN sheets[i].headers = DOMAIN tables[i].headers
           /\ \A j \in DOMAIN tables[i].headers :
                 sheets[i].headers[j] = SanitizedHeader(tables[i].headers[j])
           /\ DOMAIN sheets[i].rows = DOMAIN tables[i].rows
           /\ \A n \in DOMAIN tables[i].rows :
                 /\ DOMAIN sheets[i].rows[n] = DOMAIN tables[i].headers
                 /\ \A j \in DOMAIN tables[i].headers :
                       sheets[i].rows[n][j] =
                          Sanitized(tables[i].rows[n][tables[i].headers[j]])
<1>1. sheets # <<>>
  OBVIOUS
<1>2. PICK names : sheets = [k \in DOMAIN tables |->
                               [MapOutput(tables)[k] EXCEPT !.name = names[k]]]
  BY <1>1 DEF ExportInv
<1>3. i \in DOMAIN tables /\ sheets[i] = [MapOutput(tables)[i] EXCEPT !.name = names[i]]
  BY <1>2
<1>4. /\ sheets[i].headers = MapOutput(tables)[i].headers
      /\ sheets[i].rows = MapOutput(tables)[i].rows
  BY <1>3 DEF MapOutput
<1>5. /\ MapOutput(tables)[i].headers =
            [j \in DOMAIN tables[i].headers |-> SanitizedHeader(tables[i].headers[j])]
      /\ MapOutput(tables)[i].rows =
            [n \in DOMAIN tables[i].rows |->
                [j \in DOMAIN tables[i].headers |->
                    Sanitized(tables[i].rows[n][tables[i].headers[j]])]]
  BY <1>3 DEF MapOutput
<1> QED  BY <1>1, <1>3, <1>4, <1>5 DEF ExportInv

(* A cell that is sanitized shows what it held.                            *)
LEMMA SanitizedPlace ==
    ASSUME NEW cell, NEW x, Places(cell, x) # {}
    PROVE  \/ Places(Sanitized(cell), x) # {}
           \/ x \in Formulas /\ Places(Sanitized(cell), -x) # {}
<1>1. CASE \E v \in Formulas : cell = <<v>>
  <2>1. PICK v \in Formulas : cell = <<v>>
    BY <1>1
  <2>2. x = v
    BY <2>1 DEF Places
  <2>3. Sanitized(cell) = <<-x>>
    BY <2>1, <2>2 DEF Sanitized
  <2> DEFINE y == -x
  <2>4. 1 \in DOMAIN <<y>> /\ <<y>>[1] = y
    OBVIOUS
  <2> HIDE DEF y
  <2>5. Places(<<y>>, y) # {}
    BY <2>4 DEF Places
  <2> QED  BY <2>1, <2>2, <2>3, <2>5 DEF y
<1>2. CASE ~ \E v \in Formulas : cell = <<v>>
  BY <1>2 DEF Sanitized
<1> QED  BY <1>1, <1>2

(* Ordinary outputs are kept: they are not refused, and what is in a row   *)
(* that was built is in the row of the sheet.                              *)
LEMMA OrdinaryIsKept == ExportInv => OrdinaryKept
<1> SUFFICES ASSUME ExportInv, OrdinaryOutput
             PROVE  /\ download # "invalid"
                    /\ \A i \in DOMAIN sheets : \A n \in DOMAIN sheets[i].rows :
                          \A v \in DOMAIN produced.tables[i].rows[n].values :
                             Appears(produced.tables[i].rows[n].values[v], sheets[i].rows[n])
  BY DEF OrdinaryKept, OrdinaryOutput
<1>1. download # "invalid"
  BY OrdinaryPasses DEF ExportInv
<1>2. ASSUME NEW i \in DOMAIN sheets, NEW n \in DOMAIN sheets[i].rows,
             NEW v \in DOMAIN produced.tables[i].rows[n].values
      PROVE  Appears(produced.tables[i].rows[n].values[v], sheets[i].rows[n])
  <2> DEFINE x == produced.tables[i].rows[n].values[v]
             cells == tables[i].rows[n]
             headers == tables[i].headers
  <2>1. /\ tables # <<>> /\ i \in DOMAIN tables /\ n \in DOMAIN tables[i].rows
        /\ DOMAIN sheets[i].rows[n] = DOMAIN headers
        /\ \A j \in DOMAIN headers : sheets[i].rows[n][j] = Sanitized(cells[headers[j]])
    BY <1>2, SheetsShow
  <2>2. Shown(cells, headers, produced.tables[i].rows[n])
    BY <2>1, OrdinaryBuilt
  <2>3. PICK j \in DOMAIN headers : Places(cells[headers[j]], x) # {}
    BY <1>2, <2>2 DEF Shown
  <2> HIDE DEF x
  <2>4. /\ j \in DOMAIN sheets[i].rows[n]
        /\ \/ Places(sheets[i].rows[n][j], x) # {}
           \/ x \in Formulas /\ Places(sheets[i].rows[n][j], -x) # {}
    BY <2>1, <2>3, SanitizedPlace
  <2> QED  BY <2>4 DEF Appears, x
<1> QED  BY <1>1, <1>2

(* What shows a value shows it sanitized.                                  *)
LEMMA SanitizedShows ==
    ASSUME NEW values \in Seq(Int), NEW j \in DOMAIN values,
           NEW cell, cell \in {<<values[j]>>, Json(values)}
    PROVE  Shows(Sanitized(cell), values[j], values)
<1> DEFINE x == values[j]
<1>1. CASE \E v \in Formulas : cell = <<v>>
  <2>1. PICK v \in Formulas : cell = <<v>>
    BY <1>1
  <2>2. Sanitized(cell) = <<-v>>
    BY <2>1 DEF Sanitized
  <2>3. CASE cell = <<x>>
    <3>1. x = v
      BY <2>1, <2>3
    <3> QED  BY <2>1, <2>2, <3>1 DEF Shows
  <2>4. CASE cell = Json(values)
    <3>1. cell[1] = Bracket
      BY <2>4, JsonFacts
    <3>2. v = Bracket
      BY <2>1, <3>1
    <3> QED  BY <2>1, <3>2, ExportTablesAssumption
  <2> QED  BY <2>3, <2>4
<1>2. CASE ~ \E v \in Formulas : cell = <<v>>
  BY <1>2 DEF Sanitized, Shows
<1> QED  BY <1>1, <1>2

(* A sanitized cell is no formula, ...                                     *)
LEMMA CellIsNoFormula ==
    ASSUME NEW cell, NEW v \in Formulas
    PROVE  Sanitized(cell) # <<v>>
<1>1. CASE \E w \in Formulas : cell = <<w>>
  <2>1. PICK w \in Formulas : cell = <<w>>
    BY <1>1
  <2>2. Sanitized(cell) = <<-w>>
    BY <2>1 DEF Sanitized
  <2>3. -w # v
    BY ExportTablesAssumption DEF Bracket
  <2> DEFINE y == -w
  <2> HIDE DEF y
  <2>4. <<y>> = <<v>> => y = v
    OBVIOUS
  <2> QED  BY <2>2, <2>3, <2>4 DEF y
<1>2. CASE ~ \E w \in Formulas : cell = <<w>>
  BY <1>2 DEF Sanitized
<1> QED  BY <1>1, <1>2

(* ... nor is a sanitized header.                                          *)
LEMMA HeaderIsNoFormula ==
    ASSUME NEW h \in Word
    PROVE  ~StartsFormula(SanitizedHeader(h))
<1>1. CASE StartsFormula(h)
  <2> DEFINE t == <<Quote>> \o h
  <2>1. t[1] = Quote /\ DOMAIN t \subseteq Nat \ {0}
    BY QuotedFacts
  <2>2. SanitizedHeader(h) = t
    BY <1>1 DEF SanitizedHeader
  <2> HIDE DEF t
  <2>3. Quote # FormulaChar /\ Quote # BlankChar
    BY Zenon DEF Quote, FormulaChar, BlankChar
  <2>4. ASSUME NEW i \in DOMAIN t, t[i] = FormulaChar,
               \A j \in 1 .. i - 1 : t[j] = BlankChar
        PROVE  FALSE
    <3>1. i # 1
      BY <2>1, <2>3, <2>4
    <3>2. 1 \in 1 .. i - 1
      BY <2>1, <3>1
    <3> QED  BY <2>1, <2>3, <2>4, <3>2
  <2> QED  BY <2>2, <2>4 DEF StartsFormula
<1>2. CASE ~StartsFormula(h)
  BY <1>2 DEF SanitizedHeader
<1> QED  BY <1>1, <1>2

(* Headers that were stored apart are told apart but for an apostrophe.    *)
LEMMA HeadersAreTold ==
    ASSUME NEW stored, HeadersApart(stored), \A j \in DOMAIN stored : stored[j] \in Word,
           NEW written, DOMAIN written = DOMAIN stored,
           \A j \in DOMAIN stored : written[j] = SanitizedHeader(stored[j])
    PROVE  HeadersTold(written, stored)
<1>1. \A j \in DOMAIN stored : written[j] \in {stored[j], <<Quote>> \o stored[j]}
  BY DEF SanitizedHeader
<1>2. ASSUME NEW j \in DOMAIN stored, NEW k \in DOMAIN stored, j # k,
             Alike(written[j], written[k])
      PROVE  (written[j] = stored[j]) # (written[k] = stored[k])
  <2>1. ~Alike(Trim(stored[j]), Trim(stored[k]))
    BY <1>2 DEF HeadersApart
  <2>2. ~Alike(stored[j], stored[k])
    BY <2>1, AlikeTrim
  <2>3. ~Alike(<<Quote>> \o stored[j], <<Quote>> \o stored[k])
    BY <2>2, AlikeQuoted
  <2>4. \A h \in Word : <<Quote>> \o h # h
    BY QuotedFacts
  <2>5. (written[j] = stored[j]) # (written[k] = stored[k])
    <3>1. CASE written[j] = stored[j]
      <4>1. written[k] # stored[k]
        BY <1>2, <2>2, <3>1
      <4> QED  BY <3>1, <4>1
    <3>2. CASE written[j] # stored[j]
      <4>1. written[j] = <<Quote>> \o stored[j]
        BY <1>1, <3>2
      <4>2. written[k] # <<Quote>> \o stored[k]
        BY <1>2, <2>3, <4>1
      <4>3. written[k] = stored[k]
        BY <1>1, <4>2
      <4> QED  BY <3>2, <4>3
    <3> QED  BY <3>1, <3>2
  <2> QED  BY <2>5
<1> QED  BY <1>1, <1>2 DEF HeadersTold

(* Cells are in place.                                                     *)
LEMMA CellsAreInPlace == ExportInv => CellsInPlace
<1> SUFFICES ASSUME ExportInv, NEW i \in DOMAIN sheets
             PROVE  /\ HeadersTold(sheets[i].headers, tables[i].headers)
                    /\ NoFormula(sheets[i])
                    /\ DOMAIN sheets[i].rows = DOMAIN produced.tables[i].rows
                    /\ \A n \in DOMAIN sheets[i].rows :
                          InPlace(sheets[i].rows[n], tables[i].headers,
                                  produced.tables[i].rows[n])
  BY DEF CellsInPlace
<1>1. /\ tables = Build(produced) /\ produced \in Outputs /\ Valid(tables)
      /\ i \in DOMAIN tables
      /\ DOMAIN sheets[i].headers = DOMAIN tables[i].headers
      /\ \A j \in DOMAIN tables[i].headers :
            sheets[i].headers[j] = SanitizedHeader(tables[i].headers[j])
      /\ DOMAIN sheets[i].rows = DOMAIN tables[i].rows
      /\ \A n \in DOMAIN tables[i].rows :
            /\ DOMAIN sheets[i].rows[n] = DOMAIN tables[i].headers
            /\ \A j \in DOMAIN tables[i].headers :
                  sheets[i].rows[n][j] = Sanitized(tables[i].rows[n][tables[i].headers[j]])
  BY SheetsShow
<1>2. HeadersApart(tables[i].headers)
  BY <1>1 DEF Valid
<1>3. i \in DOMAIN produced.tables /\ \A j \in DOMAIN tables[i].headers :
                                        tables[i].headers[j] \in Word
  BY <1>1, HeadersAreText DEF Build
<1>4. /\ DOMAIN tables[i].rows = DOMAIN produced.tables[i].rows
      /\ \A n \in DOMAIN tables[i].rows :
            Holds(tables[i].rows[n], tables[i].headers, produced.tables[i].rows[n])
  BY <1>1, <1>2, <1>3, BuiltHolds
<1>5. HeadersTold(sheets[i].headers, tables[i].headers)
  BY <1>1, <1>2, <1>3, HeadersAreTold
<1>6. NoFormula(sheets[i])
  <2>1. \A j \in DOMAIN sheets[i].headers : ~StartsFormula(sheets[i].headers[j])
    BY <1>1, <1>3, HeaderIsNoFormula
  <2>2. \A n \in DOMAIN sheets[i].rows : \A j \in DOMAIN sheets[i].rows[n] :
           \A v \in Formulas : sheets[i].rows[n][j] # <<v>>
    <3> TAKE n \in DOMAIN sheets[i].rows
    <3> TAKE j \in DOMAIN sheets[i].rows[n]
    <3> TAKE v \in Formulas
    <3>1. sheets[i].rows[n][j] = Sanitized(tables[i].rows[n][tables[i].headers[j]])
      BY <1>1
    <3> QED  BY <3>1, CellIsNoFormula
  <2> QED  BY <2>1, <2>2 DEF NoFormula
<1>7. ASSUME NEW n \in DOMAIN sheets[i].rows
      PROVE  InPlace(sheets[i].rows[n], tables[i].headers, produced.tables[i].rows[n])
  <2> DEFINE entry == produced.tables[i].rows[n]
             cells == tables[i].rows[n]
             shown == sheets[i].rows[n]
             headers == tables[i].headers
  <2>1. Holds(cells, headers, entry)
    BY <1>1, <1>4
  <2>2. \A j \in DOMAIN headers : shown[j] = Sanitized(cells[headers[j]])
    BY <1>1
  <2>3. entry.values \in Seq(Int)
    BY <1>1, <1>3, <1>4, ValuesTyped
  <2> HIDE DEF entry, cells, shown, headers
  <2>4. ASSUME NEW j \in DOMAIN entry.values, entry.kind = "list", j \in DOMAIN headers
        PROVE  Shows(shown[j], entry.values[j], entry.values)
    <3>1. cells[headers[j]] \in {<<entry.values[j]>>, Json(entry.values)}
      BY <2>1, <2>4 DEF Holds
    <3> QED  BY <2>2, <2>3, <2>4, <3>1, SanitizedShows
  <2>5. ASSUME NEW j \in DOMAIN entry.values, entry.kind = "object",
               NEW k \in Places(headers, entry.keys[j])
        PROVE  Shows(shown[k], entry.values[j], entry.values)
    <3>1. k \in DOMAIN headers
      BY <2>5 DEF Places
    <3>2. cells[headers[k]] \in {<<entry.values[j]>>, Json(entry.values)}
      BY <2>1, <2>5 DEF Holds
    <3> QED  BY <2>2, <2>3, <3>1, <3>2, SanitizedShows
  <2>6. ASSUME NEW j \in DOMAIN entry.values
        PROVE  CASE entry.kind = "list" /\ j \in DOMAIN headers ->
                      Shows(shown[j], entry.values[j], entry.values)
                 [] entry.kind = "object" ->
                      \A k \in Places(headers, entry.keys[j]) :
                          Shows(shown[k], entry.values[j], entry.values)
                 [] OTHER -> TRUE
    <3>1. CASE entry.kind = "list" /\ j \in DOMAIN headers
      BY <2>4, <3>1
    <3>2. CASE entry.kind = "object"
      BY <2>5, <3>2
    <3>3. CASE ~(entry.kind = "list" /\ j \in DOMAIN headers)
               /\ entry.kind # "object"
      BY <3>3
    <3> QED  BY <3>1, <3>2, <3>3
  <2> QED  BY <2>6 DEF InPlace, entry, shown, headers
<1> QED  BY <1>1, <1>4, <1>5, <1>6, <1>7

(* For any number of tables, rows, keys and values, and whatever they are  *)
(* called: sheets and files have names of their own, what is written       *)
(* stands in its row and under its header, headers meet only by the        *)
(* apostrophe one of them gets, nothing written is taken for a formula,    *)
(* and an ordinary output is never refused and nothing of it is lost.      *)
THEOREM ExportsAreFaithful == TablesSpec => []ExportFaithful
<1>1. ExportInv => ExportFaithful
  BY NamesAreApart, CellsAreInPlace, OrdinaryIsKept DEF ExportFaithful
<1> QED  BY <1>1, ExportInvHolds, PTL

-----------------------------------------------------------------------------
(***************************************************************************)
(* Uploads.  First what the operators of Upload compute.                   *)
(***************************************************************************)

(* A set of naturals with a bound has a largest.                           *)
LEMMA LargestFacts ==
    ASSUME NEW m \in Nat, NEW T \in SUBSET (0 .. m), T # {}
    PROVE  Largest(T) \in T /\ \A k \in T : k <= Largest(T)
<1> DEFINE R == {x \in Nat : m - x \in T}
<1>1. R # {}
  <2>1. PICK k \in T : TRUE
    OBVIOUS
  <2>2. PICK x \in Nat : x = m - k
    BY <2>1
  <2>3. m - x = k
    BY <2>1, <2>2
  <2> QED  BY <2>1, <2>3
<1>2. PICK x \in R : \A y \in R : x <= y
  <2> HIDE DEF R
  <2>1. R \in SUBSET Nat
    BY DEF R
  <2> QED  BY <1>1, <2>1, Least
<1>3. ASSUME NEW k \in T PROVE k <= m - x
  <2>1. PICK y \in Nat : y = m - k
    OBVIOUS
  <2>2. m - y = k
    BY <2>1
  <2>3. y \in R
    BY <2>2
  <2> QED  BY <1>2, <2>1, <2>3
<1>4. m - x \in T
  BY <1>2
<1>5. \E n \in T : \A k \in T : k <= n
  BY <1>3, <1>4
<1> QED  BY <1>5 DEF Largest

(* So has one of integers that are listed.                                 *)
LEMMA LargestOfThree ==
    ASSUME NEW a \in Int, NEW b \in Int, NEW c \in Int
    PROVE  /\ Largest({a, b, c}) \in Int
           /\ a <= Largest({a, b, c}) /\ b <= Largest({a, b, c}) /\ c <= Largest({a, b, c})
<1>1. \E n \in {a, b, c} : \A k \in {a, b, c} : k <= n
  <2>1. CASE b <= a /\ c <= a
    BY <2>1
  <2>2. CASE a <= b /\ c <= b
    BY <2>2
  <2>3. CASE a <= c /\ b <= c
    BY <2>3
  <2> QED  BY <2>1, <2>2, <2>3
<1> QED  BY <1>1 DEF Largest

LEMMA LargestOfTwo ==
    ASSUME NEW a \in Int, NEW b \in Int
    PROVE  /\ Largest({a, b}) \in Int
           /\ a <= Largest({a, b}) /\ b <= Largest({a, b})
<1>1. {a, b} = {a, b, b}
  OBVIOUS
<1> QED  BY <1>1, LargestOfThree

LEMMA LargestOfFive ==
    ASSUME NEW a \in Int, NEW b \in Int, NEW c \in Int, NEW d \in Int, NEW e \in Int
    PROVE  Largest({a, b, c, d, e}) \in Int /\ a <= Largest({a, b, c, d, e})
<1>1. PICK n \in {a, b, c} : \A k \in {a, b, c} : k <= n
  <2>1. CASE b <= a /\ c <= a
    BY <2>1
  <2>2. CASE a <= b /\ c <= b
    BY <2>2
  <2>3. CASE a <= c /\ b <= c
    BY <2>3
  <2> QED  BY <2>1, <2>2, <2>3
<1>2. PICK p \in {n, d, e} : \A k \in {n, d, e} : k <= p
  <2>1. n \in Int
    BY <1>1
  <2>2. CASE d <= n /\ e <= n
    BY <2>2, <2>1
  <2>3. CASE n <= d /\ e <= d
    BY <2>3, <2>1
  <2>4. CASE n <= e /\ d <= e
    BY <2>4, <2>1
  <2> QED  BY <2>1, <2>2, <2>3, <2>4
<1>3. p \in {a, b, c, d, e} /\ p \in Int /\ n \in Int
  BY <1>1, <1>2
<1>4. \A k \in {a, b, c, d, e} : k <= p
  <2>1. n <= p /\ d <= p /\ e <= p
    BY <1>2
  <2>2. a <= n /\ b <= n /\ c <= n
    BY <1>1
  <2>3. a <= p /\ b <= p /\ c <= p
    BY <1>3, <2>1, <2>2
  <2> QED  BY <2>1, <2>3
<1>5. \E l \in {a, b, c, d, e} : \A k \in {a, b, c, d, e} : k <= l
  BY <1>3, <1>4
<1> QED  BY <1>5 DEF Largest

(* What Word noted, and one page more than the breaks it rendered, is the  *)
(* least that a docx is taken to have.                                     *)
LEMMA PagesForInt ==
    ASSUME NEW amount \in Nat, NEW perPage \in Nat \ {0}
    PROVE  PagesFor(amount, perPage) \in Int
BY DEF PagesFor

LEMMA DocxPagesFacts ==
    ASSUME NEW h \in Hints
    PROVE  /\ DocxPages(h) \in Int /\ h.noted <= DocxPages(h)
           /\ h.xml = "document" => AfterBreaks(h.rendered) <= DocxPages(h)
<1>1. /\ h.noted \in Nat /\ h.rendered \in Nat /\ h.manual \in Nat /\ h.before \in Nat
      /\ h.inBody \in Nat /\ h.sections \in Nat /\ h.chars \in Nat /\ h.words \in Nat
      /\ h.blocks \in Nat /\ h.images \in Nat /\ h.area \in Nat /\ h.usable \in Nat \ {0}
  BY DEF Hints
<1>2. /\ CharsPerPage \in Nat \ {0} /\ WordsPerPage \in Nat \ {0}
      /\ BlocksPerPage \in Nat \ {0}
  BY UploadAssumption
<1>3. /\ AfterBreaks(h.rendered) \in Int /\ AfterBreaks(h.manual) \in Int
      /\ AfterBreaks(h.before) \in Int /\ AfterBreaks(h.inBody) \in Int
      /\ Sections(h.sections) \in Int
  BY <1>1 DEF AfterBreaks, Sections
<1>4. /\ PagesFor(h.chars, CharsPerPage) \in Int /\ PagesFor(h.words, WordsPerPage) \in Int
      /\ PagesFor(h.blocks, BlocksPerPage) \in Int
  BY <1>1, <1>2, PagesForInt
<1>5. ImagePages(h) \in Int
  <2>1. ImagesPerPage(h) \in Nat \ {0}
    BY DEF ImagesPerPage
  <2>2. PagesFor(h.images, ImagesPerPage(h)) \in Int
    BY <1>1, <2>1, PagesForInt
  <2>3. h.area * 100 \in Nat /\ h.usable * 65 \in Nat \ {0}
    BY <1>1
  <2>4. PagesFor(h.area * 100, h.usable * 65) \in Int
    BY <2>3, PagesForInt
  <2> DEFINE a == PagesFor(h.area * 100, h.usable * 65)
             b == PagesFor(h.images, ImagesPerPage(h))
  <2>5. ImagePages(h) = IF h.images = 0 THEN 0 ELSE Largest({a, b})
    BY DEF ImagePages
  <2> HIDE DEF a, b
  <2>6. a \in Int /\ b \in Int
    BY <2>2, <2>4 DEF a, b
  <2>7. Largest({a, b}) \in Int
    BY <2>6, LargestOfTwo
  <2> QED  BY <2>5, <2>7
<1>6. PythonDocxPages(h) \in Int
  <2> DEFINE a == AfterBreaks(h.inBody)
             b == Sections(h.sections)
             c == PagesFor(h.words, WordsPerPage)
             d == PagesFor(h.blocks, BlocksPerPage)
             e == ImagePages(h)
  <2>1. PythonDocxPages(h) = IF ~h.opens THEN 0 ELSE Largest({a, b, c, d, e})
    BY DEF PythonDocxPages
  <2>2. a \in Int /\ b \in Int /\ c \in Int /\ d \in Int /\ e \in Int
    BY <1>3, <1>4, <1>5
  <2> HIDE DEF a, b, c, d, e
  <2>3. Largest({a, b, c, d, e}) \in Int
    BY <2>2, LargestOfFive
  <2> QED  BY <2>1, <2>3
<1>7. XmlPages(h) \in Int /\ (h.xml = "document" => AfterBreaks(h.rendered) <= XmlPages(h))
  BY <1>3, <1>4, LargestOfFive DEF XmlPages
<1>8. CASE h.xml = "missing"
  BY <1>1, <1>8 DEF DocxPages
<1>9. CASE h.xml # "missing"
  <2> DEFINE a == h.noted
             b == XmlPages(h)
             c == PythonDocxPages(h)
  <2>1. DocxPages(h) = Largest({a, b, c})
    BY <1>9 DEF DocxPages
  <2>2. a \in Int /\ b \in Int /\ c \in Int
    BY <1>1, <1>6, <1>7
  <2> HIDE DEF a, b, c
  <2>3. a <= Largest({a, b, c}) /\ b <= Largest({a, b, c}) /\ Largest({a, b, c}) \in Int
    BY <2>2, LargestOfThree
  <2>4. a <= DocxPages(h) /\ b <= DocxPages(h) /\ DocxPages(h) \in Int
    BY <2>1, <2>3
  <2>5. AfterBreaks(h.rendered) <= b /\ b <= DocxPages(h)
           => AfterBreaks(h.rendered) <= DocxPages(h)
    BY <1>3, <2>2, <2>4
  <2> QED  BY <1>7, <2>4, <2>5 DEF a, b
<1> QED  BY <1>8, <1>9

-----------------------------------------------------------------------------
(* InOrder lists what is in S, and in order: by induction over n.          *)
Ordered(s, S, n) ==
    /\ s \in Seq(Nat)
    /\ \A i \in 1 .. Len(s) : s[i] \in S /\ s[i] \in 1 .. n
    /\ \A i \in 1 .. Len(s), j \in 1 .. Len(s) : j < i => s[j] < s[i]
    /\ \A k \in 1 .. n : k \in S => \E i \in 1 .. Len(s) : s[i] = k

LEMMA OrderedStep ==
    ASSUME NEW S, NEW n \in Nat, NEW s, Ordered(s, S, n)
    PROVE  Ordered(IF n + 1 \in S THEN Append(s, n + 1) ELSE s, S, n + 1)
<1>1. PICK l \in Nat : l = Len(s)
  BY LenProperties DEF Ordered
<1>2. PICK m \in Nat : m = n + 1
  OBVIOUS
<1>3. /\ s \in Seq(Nat)
      /\ \A i \in 1 .. l : s[i] \in S /\ s[i] \in 1 .. n
      /\ \A i \in 1 .. l, j \in 1 .. l : j < i => s[j] < s[i]
      /\ \A k \in 1 .. n : k \in S => \E i \in 1 .. l : s[i] = k
  BY <1>1 DEF Ordered
<1>4. CASE m \notin S
  <2>1. \A i \in 1 .. l : s[i] \in 1 .. m
    BY <1>2, <1>3
  <2>2. \A k \in 1 .. m : k \in S => k \in 1 .. n
    BY <1>2, <1>4
  <2>3. Ordered(s, S, m)
    BY <1>1, <1>3, <2>1, <2>2 DEF Ordered
  <2> QED  BY <1>2, <1>4, <2>3
<1>5. CASE m \in S
  <2>0. s \in Seq(Nat) /\ m \in Nat
    BY <1>3
  <2>1. PICK t \in Seq(Nat) : t = Append(s, m)
    BY <2>0, AppendProperties
  <2>2. Len(t) = l + 1 /\ t[l + 1] = m /\ \A i \in 1 .. l : t[i] = s[i]
    BY <1>1, <1>3, <2>1
  <2>3. \A i \in 1 .. l + 1 : i = l + 1 \/ i \in 1 .. l
    OBVIOUS
  <2>4. ASSUME NEW i \in 1 .. l + 1 PROVE t[i] \in S /\ t[i] \in 1 .. m
    <3>1. CASE i = l + 1
      BY <1>2, <1>5, <2>2, <3>1
    <3>2. CASE i \in 1 .. l
      <4>1. t[i] = s[i]
        BY <2>2, <3>2
      <4>2. s[i] \in S /\ s[i] \in 1 .. n
        BY <1>3, <3>2
      <4> QED  BY <1>2, <4>1, <4>2
    <3> QED  BY <2>3, <3>1, <3>2
  <2>5. ASSUME NEW i \in 1 .. l + 1, NEW j \in 1 .. l + 1, j < i PROVE t[j] < t[i]
    <3>1. j \in 1 .. l /\ t[j] = s[j] /\ t[j] \in 1 .. n
      BY <1>3, <2>2, <2>5
    <3>2. CASE i = l + 1
      BY <1>2, <2>2, <3>1, <3>2
    <3>3. CASE i \in 1 .. l
      BY <1>3, <2>2, <2>5, <3>1, <3>3
    <3> QED  BY <2>3, <3>2, <3>3
  <2>6. ASSUME NEW k \in 1 .. m, k \in S PROVE \E i \in 1 .. l + 1 : t[i] = k
    <3>1. CASE k = m
      BY <2>2, <3>1
    <3>2. CASE k # m
      <4>1. k \in 1 .. n
        BY <1>2, <3>2
      <4>2. PICK i \in 1 .. l : s[i] = k
        BY <1>3, <2>6, <4>1
      <4>3. i \in 1 .. l + 1 /\ t[i] = k
        BY <2>2, <4>2
      <4> QED  BY <4>3
    <3> QED  BY <3>1, <3>2
  <2>7. Ordered(t, S, m)
    BY <2>1, <2>2, <2>4, <2>5, <2>6 DEF Ordered
  <2> QED  BY <1>2, <1>5, <2>1, <2>7
<1> QED  BY <1>4, <1>5

LEMMA InOrderFacts ==
    ASSUME NEW S, NEW m \in Nat
    PROVE  Ordered(InOrder(S, m), S, m)
<1> DEFINE Is(f) == f = [k \in 0 .. m |->
                          IF k = 0 THEN <<>>
                          ELSE IF k \in S THEN Append(f[k - 1], k) ELSE f[k - 1]]
           upTo == CHOOSE f : Is(f)
<1>1. InOrder(S, m) = upTo[m]
  BY DEF InOrder
<1>2. PICK D : D = Seq(Nat)
  OBVIOUS
<1>3. PICK start \in D : start = <<>>
  BY <1>2, EmptySeq
<1>4. PICK step \in [Nat -> [D -> D]] :
         \A n \in Nat : \A x \in D : step[n][x] = IF n \in S THEN Append(x, n) ELSE x
  <2> DEFINE to == [n \in Nat |-> [x \in D |-> IF n \in S THEN Append(x, n) ELSE x]]
  <2>1. \A n \in Nat : \A x \in D : Append(x, n) \in D
    BY <1>2
  <2>2. to \in [Nat -> [D -> D]]
    BY <2>1
  <2>3. \A n \in Nat : \A x \in D : to[n][x] = IF n \in S THEN Append(x, n) ELSE x
    OBVIOUS
  <2> QED  BY <2>2, <2>3
<1>5. PICK g : Follows(g, D, start, step, m)
  BY Iterates
<1>6. /\ g \in [0 .. m -> D] /\ g[0] = start
      /\ \A n \in 1 .. m : g[n] = step[n][g[n - 1]]
  BY <1>5 DEF Follows
<1>7. ASSUME NEW n \in 1 .. m
      PROVE  g[n] = IF n \in S THEN Append(g[n - 1], n) ELSE g[n - 1]
  <2>1. n - 1 \in 0 .. m
    OBVIOUS
  <2>2. g[n - 1] \in D
    BY <1>6, <2>1
  <2> QED  BY <1>4, <1>6, <2>2
<1>8. Is(g)
  <2> DEFINE body == [k \in 0 .. m |->
                        IF k = 0 THEN <<>>
                        ELSE IF k \in S THEN Append(g[k - 1], k) ELSE g[k - 1]]
  <2>1. \A k \in 0 .. m : g[k] = body[k]
    <3>1. \A k \in 0 .. m : k = 0 \/ k \in 1 .. m
      OBVIOUS
    <3> QED  BY <1>3, <1>6, <1>7, <3>1
  <2>2. g = [k \in 0 .. m |-> g[k]] /\ body = [k \in 0 .. m |-> body[k]]
    BY <1>6
  <2> HIDE DEF body
  <2>3. g = body
    BY <2>1, <2>2
  <2> QED  BY <2>3 DEF body
<1>9. Is(upTo)
  <2> HIDE DEF Is
  <2> QED  BY <1>8
<1> HIDE DEF upTo
<1>10. upTo[0] = <<>>
  BY <1>9
<1>11. ASSUME NEW n \in 1 .. m
       PROVE  upTo[n] = IF n \in S THEN Append(upTo[n - 1], n) ELSE upTo[n - 1]
  <2>1. n \in 0 .. m /\ n # 0
    OBVIOUS
  <2> QED  BY <1>9, <2>1
<1> HIDE DEF Is
<1> DEFINE T == {n \in Nat : n <= m => Ordered(upTo[n], S, n)}
<1>12. 0 \in T
  <2>1. <<>> \in Seq(Nat) /\ Len(<<>>) = 0
    BY EmptySeq
  <2>2. Ordered(<<>>, S, 0)
    BY <2>1 DEF Ordered
  <2> QED  BY <1>10, <2>2
<1>13. ASSUME NEW n \in Nat, n \in T PROVE n + 1 \in T
  <2> SUFFICES ASSUME n + 1 <= m PROVE Ordered(upTo[n + 1], S, n + 1)
    OBVIOUS
  <2>1. Ordered(upTo[n], S, n)
    BY <1>13
  <2>2. upTo[n + 1] = IF n + 1 \in S THEN Append(upTo[n], n + 1) ELSE upTo[n]
    <3>1. PICK p \in 1 .. m : p = n + 1 /\ p - 1 = n
      OBVIOUS
    <3> QED  BY <1>11, <3>1
  <2> QED  BY <2>1, <2>2, OrderedStep
<1>14. Ordered(upTo[m], S, m)
  <2>1. m \in T
    <3> HIDE DEF T
    <3>1. Nat \subseteq T
      BY <1>12, <1>13, SetInduction
    <3> QED  BY <3>1
  <2> QED  BY <2>1
<1> QED  BY <1>1, <1>14

-----------------------------------------------------------------------------
(* Rows.  The headers of a CSV differ once they are numbered, unless one   *)
(* looks numbered, so that no cell takes another's place.                  *)
LEMMA AppendApart ==
    ASSUME NEW s \in Seq(Nat), NEW t \in Seq(Nat), NEW a \in Nat, NEW b \in Nat,
           Append(s, a) = Append(t, b)
    PROVE  s = t /\ a = b
<1>1. PICK l \in Nat, k \in Nat : l = Len(s) /\ k = Len(t)
  BY LenProperties
<1>2. Len(Append(s, a)) = l + 1 /\ Len(Append(t, b)) = k + 1
  BY <1>1, AppendProperties
<1>3. l = k
  BY <1>1, <1>2
<1>4. Append(s, a)[l + 1] = a /\ Append(t, b)[l + 1] = b
  BY <1>1, <1>3, AppendProperties
<1>5. \A i \in 1 .. l : s[i] = t[i]
  <2>1. \A i \in 1 .. l : Append(s, a)[i] = s[i] /\ Append(t, b)[i] = t[i]
    BY <1>1, <1>3, AppendProperties
  <2> QED  BY <2>1
<1>6. s = [i \in 1 .. l |-> s[i]] /\ t = [i \in 1 .. l |-> t[i]]
  BY <1>1, <1>3, LenProperties
<1> QED  BY <1>4, <1>5, <1>6

(* How many headers before place i are as the one there.                   *)
Before(header, i) == {j \in 1 .. i - 1 : header[j] = header[i]}

LEMMA BeforeFacts ==
    ASSUME NEW header, NEW m \in Nat, NEW i \in 1 .. m
    PROVE  /\ IsFiniteSet(Before(header, i))
           /\ Cardinality(Before(header, i)) \in 0 .. m
           /\ Before(header, i) # {} => Cardinality(Before(header, i)) \in 1 .. m
<1>1. IsFiniteSet(1 .. i - 1) /\ Cardinality(1 .. i - 1) = i - 1
  BY FS_Interval
<1>2. Before(header, i) \subseteq 1 .. i - 1
  BY DEF Before
<1>3. IsFiniteSet(Before(header, i)) /\ Cardinality(Before(header, i)) <= i - 1
  BY <1>1, <1>2, FS_Subset
<1>4. Cardinality(Before(header, i)) \in Nat
  BY <1>3, FS_CardinalityType
<1>5. Before(header, i) # {} => Cardinality(Before(header, i)) # 0
  BY <1>3, FS_EmptySet
<1> QED  BY <1>3, <1>4, <1>5

LEMMA HeadersDiffer ==
    ASSUME NEW header \in Seq(Header), NoneLooksNumbered(header),
           NEW i \in DOMAIN header, NEW j \in DOMAIN header, j < i
    PROVE  UniqueHeader(header, j) # UniqueHeader(header, i)
<1>0. PICK m \in Nat : m = Len(header)
  BY LenProperties
<1>1. DOMAIN header = 1 .. m /\ \A k \in 1 .. m : header[k] \in Seq(Nat)
  BY <1>0, LenProperties, ElementOfSeq DEF Header
<1>2. i \in 1 .. m /\ j \in 1 .. m
  BY <1>1
<1> DEFINE a == Cardinality(Before(header, i))
           b == Cardinality(Before(header, j))
<1>3. /\ UniqueHeader(header, i) = IF Before(header, i) = {} THEN header[i]
                                   ELSE Append(header[i], a)
      /\ UniqueHeader(header, j) = IF Before(header, j) = {} THEN header[j]
                                   ELSE Append(header[j], b)
  BY DEF UniqueHeader, Before
<1>4. /\ IsFiniteSet(Before(header, i)) /\ IsFiniteSet(Before(header, j))
      /\ a \in 0 .. m /\ b \in 0 .. m
      /\ Before(header, i) # {} => a \in 1 .. m
      /\ Before(header, j) # {} => b \in 1 .. m
  BY <1>2, BeforeFacts
<1>5. header[i] = header[j] => j \in Before(header, i) /\ a # b
  <2> SUFFICES ASSUME header[i] = header[j] PROVE j \in Before(header, i) /\ a # b
    OBVIOUS
  <2>1. j \in Before(header, i) /\ j \notin Before(header, j)
    BY <1>2 DEF Before
  <2>2. Before(header, j) \subseteq Before(header, i)
    BY <1>2 DEF Before
  <2>3. b < a
    BY <1>4, <2>1, <2>2, FS_Subset
  <2> QED  BY <1>4, <2>1, <2>3
<1>6. \A k, l, n \in 1 .. m : header[k] # Append(header[l], n)
  BY <1>1 DEF NoneLooksNumbered
<1> HIDE DEF a, b
<1>7. a \in Nat /\ b \in Nat /\ header[i] \in Seq(Nat) /\ header[j] \in Seq(Nat)
  BY <1>1, <1>2, <1>4
<1>8. Append(header[j], b) = Append(header[i], a) => header[j] = header[i] /\ b = a
  BY <1>7, AppendApart
<1>9. CASE Before(header, i) = {} /\ Before(header, j) = {}
  BY <1>3, <1>5, <1>9
<1>10. CASE Before(header, i) = {} /\ Before(header, j) # {}
  BY <1>2, <1>3, <1>4, <1>6, <1>10
<1>11. CASE Before(header, i) # {} /\ Before(header, j) = {}
  BY <1>2, <1>3, <1>4, <1>6, <1>11
<1>12. CASE Before(header, i) # {} /\ Before(header, j) # {}
  BY <1>3, <1>5, <1>8, <1>12
<1> QED  BY <1>9, <1>10, <1>11, <1>12

LEMMA CellIsKept ==
    ASSUME NEW header \in Seq(Header), NoneLooksNumbered(header), NEW row,
           NEW i \in DOMAIN header, i <= Len(row)
    PROVE  RowDict(header, row)[UniqueHeader(header, i)] = row[i]
<1> DEFINE key == UniqueHeader(header, i)
           places == {j \in DOMAIN header : UniqueHeader(header, j) = key}
<1>0. \A j \in DOMAIN header : j \in Int
  BY LenProperties
<1>1. \A j \in DOMAIN header : j # i => UniqueHeader(header, j) # key
  <2> SUFFICES ASSUME NEW j \in DOMAIN header, j # i PROVE UniqueHeader(header, j) # key
    OBVIOUS
  <2>1. j < i \/ i < j
    BY <1>0
  <2> QED  BY <2>1, HeadersDiffer
<1>2. places = {i}
  BY <1>1
<1>3. Largest({i}) = i
  BY <1>0 DEF Largest
<1>4. RowDict(header, row)[key] = LET k == Largest(places)
                                  IN  IF k <= Len(row) THEN row[k] ELSE 0
  BY DEF RowDict
<1> HIDE DEF key, places
<1> QED  BY <1>2, <1>3, <1>4 DEF key

(* A row that is not blank and ends in no text like a marker is known from *)
(* its marked form.                                                        *)
LEMMA MarkedIsKnown ==
    ASSUME NEW row \in Seq(Int), \E i \in DOMAIN row : row[i] # 0, row[Len(row)] >= 0
    PROVE  Unmarked(MarkedRow(row)) = row
<1>0. PICK m \in Nat : m = Len(row)
  BY LenProperties
<1>1. /\ DOMAIN row = 1 .. m /\ \A i \in 1 .. m : row[i] \in Int
      /\ row = [i \in 1 .. m |-> row[i]]
  BY <1>0, LenProperties, ElementOfSeq
<1> DEFINE T == {0} \cup {i \in DOMAIN row : row[i] # 0}
           w == Largest(T)
<1>2. w \in T /\ \A k \in T : k <= w
  <2>1. T \in SUBSET (0 .. m) /\ T # {}
    BY <1>1
  <2> HIDE DEF T
  <2> QED  BY <2>1, LargestFacts
<1>5. MarkedRow(row) = IF w = m THEN row ELSE Append(SubSeq(row, 1, w), w - m)
  BY <1>0 DEF MarkedRow
<1> HIDE DEF w
<1>3. w \in 1 .. m /\ row[w] # 0
  <2>1. PICK i \in 1 .. m : row[i] # 0
    BY <1>1
  <2>2. i \in T
    BY <1>1, <2>1
  <2>3. i <= w /\ (w = 0 \/ (w \in 1 .. m /\ row[w] # 0))
    BY <1>1, <1>2, <2>2
  <2> QED  BY <2>1, <2>3
<1>4. \A i \in 1 .. m : w < i => row[i] = 0
  <2> SUFFICES ASSUME NEW i \in 1 .. m, w < i, row[i] # 0 PROVE FALSE
    OBVIOUS
  <2>1. i \in T
    BY <1>1
  <2>2. i <= w
    BY <1>2, <2>1
  <2> QED  BY <1>3, <2>2
<1> HIDE DEF T
<1>6. CASE w = m
  <2>1. MarkedRow(row) = row /\ row[Len(row)] >= 0
    BY <1>0, <1>1, <1>3, <1>5, <1>6
  <2> QED  BY <2>1 DEF Unmarked
<1>7. CASE w # m
  <2>1. PICK s \in Seq(Int) : s = SubSeq(row, 1, w)
    <3>0. w \in Int /\ 1 \in Int /\ \A i \in 1 .. w : row[i] \in Int
      BY <1>1, <1>3
    <3>1. SubSeq(row, 1, w) \in Seq(Int)
      BY <3>0, SubSeqProperties
    <3> QED  BY <3>1
  <2>2. Len(s) = w /\ \A i \in 1 .. w : s[i] = row[i]
    BY <1>1, <1>3, <2>1, SubSeqProperties
  <2>3. PICK d \in Int : d = w - m
    BY <1>3
  <2>4. PICK t \in Seq(Int) : t = Append(s, d)
    BY AppendProperties
  <2>5. Len(t) = w + 1 /\ t[w + 1] = d /\ \A i \in 1 .. w : t[i] = s[i]
    BY <1>3, <2>2, <2>4
  <2>6. MarkedRow(row) = t
    BY <1>5, <1>7, <2>1, <2>3, <2>4
  <2>7. PICK l \in Int : l = w + 1
    BY <1>3
  <2>8. d < 0 /\ l - 1 - d = m
    BY <1>3, <1>7, <2>3, <2>7
  <2>9. Unmarked(t) = [i \in 1 .. l - 1 - d |-> IF i < l THEN t[i] ELSE 0]
    <3>1. Len(t) = l /\ t[l] = d /\ ~(d >= 0)
      BY <2>5, <2>7, <2>8
    <3> QED  BY <3>1 DEF Unmarked
  <2>10. \A i \in 1 .. m : (IF i < l THEN t[i] ELSE 0) = row[i]
    <3> SUFFICES ASSUME NEW i \in 1 .. m
                 PROVE  (IF i < l THEN t[i] ELSE 0) = row[i]
      OBVIOUS
    <3>1. CASE i < l
      <4>1. i \in 1 .. w
        BY <1>3, <2>7, <3>1
      <4> QED  BY <2>2, <2>5, <3>1, <4>1
    <3>2. CASE ~(i < l)
      BY <1>3, <1>4, <2>7, <3>2
    <3> QED  BY <3>1, <3>2
  <2>11. Unmarked(t) = [i \in 1 .. m |-> row[i]]
    BY <2>8, <2>9, <2>10
  <2> QED  BY <1>1, <2>6, <2>11
<1> QED  BY <1>6, <1>7

LEMMA FullRowsFacts ==
    ASSUME NEW f \in PostedFile, NEW n \in DOMAIN FullRows(f)
    PROVE  FullRows(f)[n] \in Seq(Int) /\ IsFull(f, FullRows(f)[n])
<1> DEFINE S == {k \in DOMAIN f.rows : IsFull(f, f.rows[k])}
           order == InOrder(S, Len(f.rows))
<1>1. f.rows \in Seq(Seq(Int))
  BY DEF PostedFile
<1>2. Len(f.rows) \in Nat
  BY <1>1, LenProperties
<1>3. Ordered(order, S, Len(f.rows))
  <2> HIDE DEF S
  <2> QED  BY <1>2, InOrderFacts
<1>4. FullRows(f) = [k \in DOMAIN order |-> f.rows[order[k]]]
  BY DEF FullRows
<1> HIDE DEF order
<1>5. DOMAIN order = 1 .. Len(order)
  BY <1>3, LenProperties DEF Ordered
<1>6. n \in 1 .. Len(order) /\ FullRows(f)[n] = f.rows[order[n]]
  BY <1>4, <1>5
<1>7. order[n] \in S
  BY <1>3, <1>6 DEF Ordered
<1>8. order[n] \in DOMAIN f.rows /\ IsFull(f, f.rows[order[n]])
  BY <1>7
<1> QED  BY <1>1, <1>6, <1>8, ElementOfSeq, LenProperties

-----------------------------------------------------------------------------
(* What content of a PDF is made of: of the layer, of the layer and of OCR *)
(* of pages the layer has nothing of, of text, or of OCR alone.            *)
ByLayer ==
    extracted = LayerPages(posted) /\ EmptyPages(LayerPages(posted)) = {} /\ ~overall
ByBoth ==
    /\ HasText(LayerPages(posted))
    /\ \E images \in SUBSET EmptyPages(LayerPages(posted)) :
          /\ extracted = Merged(LayerPages(posted), images)
          /\ overall = CoversAll(LayerPages(posted), images)
OfText == TextIsEnough(posted) /\ extracted = TextPages(posted) /\ ~overall
ByScan ==
    /\ overall
    /\ \E images \in SUBSET DOMAIN posted.pages : extracted = ScannedPages(posted, images)

ReadPdf == IsPdf /\ PdfFits(posted) /\ (ByLayer \/ ByBoth \/ OfText \/ ByScan)
ReadOther ==
    /\ ~IsPdf /\ IsReadable(posted)
    /\ overall = (posted.ext \in ImageExtensions)
    /\ extracted = <<PageEntry(1, 1, IF overall THEN "ocr" ELSE "text")>>
    /\ parsed = ParsedRows(posted)

(* The inductive invariant: a file is read once it was found fit, a page   *)
(* at a time only of a PDF, and an answer was made in one of these ways.   *)
UploadInv ==
    /\ UploadTypeOK
    /\ work \in {"save", "read", "layer", "augment", "whole", "again"} \/ Answered
          => FileFits(posted)
    /\ work \in {"layer", "augment", "whole", "again"} => IsPdf /\ PdfFits(posted)
    /\ work = "augment" => extracted = LayerPages(posted) /\ HasText(extracted)
    /\ work \notin {"remove", "over"} => status = 0 /\ ~overall
    /\ Answered => ReadPdf \/ ReadOther
    /\ work # "over" =>
          /\ leftover = "no"
          /\ temp = IF work \in {"receive", "validate", "save"} THEN "none" ELSE "whole"
    /\ LeftoversExplained

Content == Seq([page : Nat, of : Nat, told : BOOLEAN,
                by : {"layer", "text", "ocr", "nobody"}])

LEMMA EntryTyped ==
    ASSUME NEW p \in Nat, NEW reader \in {"layer", "text", "ocr", "nobody"}
    PROVE  PageEntry(p, p, reader) \in [page : Nat, of : Nat, told : BOOLEAN,
                                        by : {"layer", "text", "ocr", "nobody"}]
BY DEF PageEntry

LEMMA EntryFields ==
    ASSUME NEW p, NEW reader
    PROVE  /\ PageEntry(p, p, reader).page = p /\ PageEntry(p, p, reader).of = p
           /\ PageEntry(p, p, reader).by = reader
           /\ PageEntry(p, p, reader).told <=> reader = "ocr"
<1>1. PageEntry(p, p, reader).told = (reader = "ocr")
  BY Zenon DEF PageEntry
<1>2. PageEntry(p, p, reader).told <=> reader = "ocr"
  BY <1>1, Zenon
<1> QED  BY <1>2 DEF PageEntry

LEMMA ImageFields ==
    ASSUME NEW listed, NEW p
    PROVE  /\ PageEntry(listed, p, "ocr").page = listed /\ PageEntry(listed, p, "ocr").of = p
           /\ PageEntry(listed, p, "ocr").by = "ocr" /\ PageEntry(listed, p, "ocr").told
<1>1. PageEntry(listed, p, "ocr") =
         [page |-> listed, of |-> p, by |-> "ocr", told |-> TRUE]
  BY DEF PageEntry
<1> QED  BY <1>1

LEMMA LayerTyped ==
    ASSUME NEW f \in PostedFile
    PROVE  LayerPages(f) \in Content
<1>1. PICK m \in Nat : m = Len(f.pages) /\ DOMAIN f.pages = 1 .. m
  BY LenProperties DEF PostedFile
<1>2. \A p \in 1 .. m : PageEntry(p, p, IF f.pages[p].layer THEN "layer" ELSE "nobody")
                           \in [page : Nat, of : Nat, told : BOOLEAN,
                                by : {"layer", "text", "ocr", "nobody"}]
  <2>1. \A p \in 1 .. m : p \in Nat
    OBVIOUS
  <2> QED  BY <2>1, EntryTyped, Zenon
<1> QED  BY <1>1, <1>2 DEF LayerPages, Content

LEMMA ScanTyped ==
    ASSUME NEW f \in PostedFile, NEW images
    PROVE  /\ ScannedPages(f, images) \in Content
           /\ Ordered(InOrder(images, Len(f.pages)), images, Len(f.pages))
<1>1. Len(f.pages) \in Nat
  BY LenProperties DEF PostedFile
<1> DEFINE shown == InOrder(images, Len(f.pages))
<1>2. Ordered(shown, images, Len(f.pages))
  BY <1>1, InOrderFacts
<1>3. PICK l \in Nat : l = Len(shown) /\ DOMAIN shown = 1 .. l
  BY <1>2, LenProperties DEF Ordered
<1>4. \A i \in 1 .. l : i \in Nat /\ shown[i] \in Nat
  BY <1>1, <1>2, <1>3 DEF Ordered
<1>5. ScannedPages(f, images) = [i \in 1 .. l |-> PageEntry(i, shown[i], "ocr")]
  BY <1>3 DEF ScannedPages
<1> HIDE DEF shown
<1>6. \A i \in 1 .. l : PageEntry(i, shown[i], "ocr")
                           \in [page : Nat, of : Nat, told : BOOLEAN,
                                by : {"layer", "text", "ocr", "nobody"}]
  BY <1>4 DEF PageEntry
<1> QED  BY <1>2, <1>5, <1>6 DEF Content, shown

LEMMA TextTyped ==
    ASSUME NEW f \in PostedFile
    PROVE  /\ TextPages(f) \in Content
           /\ Ordered(PagesOfText(f), {p \in DOMAIN f.pages : f.pages[p].chars > 0},
                      Len(f.pages))
<1>1. Len(f.pages) \in Nat
  BY LenProperties DEF PostedFile
<1>2. Ordered(PagesOfText(f), {p \in DOMAIN f.pages : f.pages[p].chars > 0}, Len(f.pages))
  BY <1>1, InOrderFacts DEF PagesOfText
<1>3. PICK l \in Nat : l = Len(PagesOfText(f)) /\ DOMAIN PagesOfText(f) = 1 .. l
  BY <1>2, LenProperties DEF Ordered
<1>4. \A i \in 1 .. l : PagesOfText(f)[i] \in Nat
  BY <1>1, <1>2, <1>3 DEF Ordered
<1>5. \A i \in 1 .. l : PageEntry(PagesOfText(f)[i], PagesOfText(f)[i], "text")
                           \in [page : Nat, of : Nat, told : BOOLEAN,
                                by : {"layer", "text", "ocr", "nobody"}]
  BY <1>4, EntryTyped
<1> QED  BY <1>2, <1>3, <1>5 DEF TextPages, Content

LEMMA MergedTyped ==
    ASSUME NEW content \in Content, NEW images
    PROVE  Merged(content, images) \in Content
<1>1. PICK m \in Nat : m = Len(content) /\ DOMAIN content = 1 .. m
  BY LenProperties DEF Content
<1>2. \A i \in 1 .. m : content[i] \in [page : Nat, of : Nat, told : BOOLEAN,
                                        by : {"layer", "text", "ocr", "nobody"}]
  BY <1>1, ElementOfSeq DEF Content
<1>3. \A i \in 1 .. m : PageEntry(content[i].page, content[i].page, "ocr")
                           \in [page : Nat, of : Nat, told : BOOLEAN,
                                by : {"layer", "text", "ocr", "nobody"}]
  BY <1>2, EntryTyped
<1> QED  BY <1>1, <1>2, <1>3 DEF Merged, Content

-----------------------------------------------------------------------------
(* What of UploadInv an action can change.                                 *)
LEMMA UploadInvInit == UploadInit => UploadInv
<1> SUFFICES ASSUME UploadInit PROVE UploadInv
  OBVIOUS
<1>1. posted \in PostedFile
  BY UploadAssumption DEF UploadInit
<1>2. UploadTypeOK
  BY <1>1, EmptySeq DEF UploadInit, UploadTypeOK
<1> QED  BY <1>2 DEF UploadInit, UploadInv, Answered, LeftoversExplained

LEMMA ReceiveKeeps == UploadInv /\ Receive => UploadInv'
<1> SUFFICES ASSUME UploadInv, Receive PROVE UploadInv'
  OBVIOUS
<1>1. UploadTypeOK'
  BY DEF UploadInv, UploadTypeOK, Receive, Refused, found, onDisk
<1>2. /\ work = "receive" /\ ~Answered' /\ work' \in {"validate", "over"}
      /\ work' = "validate" => status' = 0
      /\ overall' = overall /\ leftover' = leftover /\ temp' = temp
  BY DEF UploadInv, Receive, Refused, found, onDisk, Answered
<1> QED  BY <1>1, <1>2 DEF UploadInv, LeftoversExplained

LEMMA ValidateKeeps == UploadInv /\ Validate => UploadInv'
<1> SUFFICES ASSUME UploadInv, Validate PROVE UploadInv'
  OBVIOUS
<1>1. UploadTypeOK'
  BY DEF UploadInv, UploadTypeOK, Validate, Refused, found, onDisk
<1>2. /\ work = "validate" /\ ~Answered' /\ work' \in {"save", "over"}
      /\ work' = "save" => status' = 0 /\ FileFits(posted)
      /\ posted' = posted
      /\ overall' = overall /\ leftover' = leftover /\ temp' = temp
  BY DEF UploadInv, Validate, Refused, found, onDisk, Answered
<1>3. FileFits(posted') <=> FileFits(posted)
  BY <1>2
<1> QED  BY <1>1, <1>2, <1>3 DEF UploadInv, LeftoversExplained

LEMMA SaveKeeps == UploadInv /\ Save => UploadInv'
<1> SUFFICES ASSUME UploadInv, Save PROVE UploadInv'
  OBVIOUS
<1>1. UploadTypeOK'
  BY DEF UploadInv, UploadTypeOK, Save, Refused, found, onDisk
<1>2. /\ work = "save" /\ ~Answered' /\ posted' = posted /\ overall' = overall
      /\ \/ work' = "read" /\ status' = 0 /\ temp' = "whole" /\ leftover' = "no"
         \/ work' = "over" /\ temp' = "none" /\ leftover' = "no"
         \/ work' = "over" /\ temp' = "part" /\ leftover' = "save"
  BY DEF UploadInv, Save, Refused, found, onDisk, Answered
<1>3. FileFits(posted') <=> FileFits(posted)
  BY <1>2
<1> QED  BY <1>1, <1>2, <1>3 DEF UploadInv, LeftoversExplained

LEMMA ParseKeeps == UploadInv /\ ParseFile => UploadInv'
<1> SUFFICES ASSUME UploadInv, ParseFile PROVE UploadInv'
  OBVIOUS
<1>1. /\ work = "read" /\ work' = "remove" /\ posted' = posted /\ ~IsPdf
      /\ temp' = temp /\ leftover' = leftover /\ status' \in {200, 400}
      /\ \/ status' = 400 /\ overall' = overall /\ extracted' = extracted
         \/ /\ IsReadable(posted)
            /\ overall' = (posted.ext \in ImageExtensions)
            /\ extracted' = <<PageEntry(1, 1, IF overall' THEN "ocr" ELSE "text")>>
            /\ parsed' = ParsedRows(posted)
  BY DEF ParseFile, Decided, found, onDisk, IsPdf
<1>2. UploadTypeOK'
  <2>1. <<PageEntry(1, 1, "ocr")>> \in Content /\ <<PageEntry(1, 1, "text")>> \in Content
    BY EntryTyped DEF Content
  <2>2. extracted' \in Content
    BY <1>1, <2>1 DEF UploadInv, UploadTypeOK, Content
  <2>3. overall' \in BOOLEAN
    <3>1. overall \in BOOLEAN
      BY DEF UploadInv, UploadTypeOK
    <3>2. CASE overall' = overall
      BY <3>1, <3>2
    <3>3. CASE overall' = (posted.ext \in ImageExtensions)
      <4>1. CASE posted.ext \in ImageExtensions
        BY <3>3, <4>1
      <4>2. CASE posted.ext \notin ImageExtensions
        BY <3>3, <4>2
      <4> QED  BY <4>1, <4>2
    <3> QED  BY <1>1, <3>2, <3>3
  <2> QED  BY <1>1, <2>2, <2>3 DEF UploadInv, UploadTypeOK, Content
<1>3. /\ FileFits(posted') <=> FileFits(posted)
      /\ ParsedRows(posted') = ParsedRows(posted)
      /\ IsReadable(posted') <=> IsReadable(posted)
  BY <1>1
<1>4. Answered' => ReadOther'
  BY <1>1, <1>3 DEF ReadOther, Answered, IsPdf
<1> QED  BY <1>1, <1>2, <1>3, <1>4 DEF UploadInv, LeftoversExplained

LEMMA CheckKeeps == UploadInv /\ CheckPdf => UploadInv'
<1> SUFFICES ASSUME UploadInv, CheckPdf PROVE UploadInv'
  OBVIOUS
<1>1. UploadTypeOK'
  BY DEF UploadInv, UploadTypeOK, CheckPdf, Decided, found, onDisk
<1>2. /\ work = "read" /\ ~Answered' /\ work' \in {"layer", "remove"}
      /\ work' = "layer" => status' = 0 /\ IsPdf /\ PdfFits(posted)
      /\ posted' = posted
      /\ overall' = overall /\ leftover' = leftover /\ temp' = temp
  BY DEF UploadInv, CheckPdf, Decided, found, onDisk, Answered, IsPdf
<1>3. /\ FileFits(posted') <=> FileFits(posted)
      /\ PdfFits(posted') <=> PdfFits(posted)
      /\ IsPdf' <=> IsPdf
  BY <1>2 DEF IsPdf
<1> QED  BY <1>1, <1>2, <1>3 DEF UploadInv, LeftoversExplained

LEMMA LayerKeeps == UploadInv /\ ReadLayer => UploadInv'
<1> SUFFICES ASSUME UploadInv, ReadLayer PROVE UploadInv'
  OBVIOUS
<1>1. /\ work = "layer" /\ posted' = posted /\ overall' = overall /\ ~overall
      /\ temp' = temp /\ leftover' = leftover /\ status = 0
      /\ IsPdf /\ PdfFits(posted) /\ FileFits(posted)
  BY DEF UploadInv, ReadLayer, onDisk
<1>2. \/ work' = "again" /\ status' = 0 /\ extracted' = extracted
      \/ /\ extracted' = LayerPages(posted)
         /\ \/ work' = "whole" /\ status' = 0
            \/ work' = "augment" /\ status' = 0 /\ HasText(LayerPages(posted))
            \/ /\ EmptyPages(LayerPages(posted)) = {}
               /\ work' = "remove" /\ status' = 200
  <2>1. CASE work' = "again" /\ UNCHANGED <<status, extracted>>
    BY <1>1, <2>1
  <2>2. CASE extracted' = LayerPages(posted)
    BY <1>1, <2>2 DEF ReadLayer, Decided
  <2> QED  BY <2>1, <2>2 DEF ReadLayer
<1>3. UploadTypeOK'
  <2>1. extracted' \in Content
    BY <1>2, LayerTyped DEF UploadInv, UploadTypeOK, Content
  <2> QED  BY <1>1, <1>2, <2>1 DEF UploadInv, UploadTypeOK, Content
<1>4. /\ FileFits(posted') <=> FileFits(posted)
      /\ PdfFits(posted') <=> PdfFits(posted)
      /\ LayerPages(posted') = LayerPages(posted)
      /\ IsPdf' <=> IsPdf
  BY <1>1 DEF IsPdf
<1>5. work' = "augment" => extracted' = LayerPages(posted') /\ HasText(extracted')
  BY <1>1, <1>2, <1>4
<1>6. Answered' => work' = "remove" /\ ByLayer'
  BY <1>1, <1>2, <1>4 DEF Answered, ByLayer
<1>7. Answered' => ReadPdf'
  BY <1>1, <1>4, <1>6 DEF ReadPdf
<1> QED  BY <1>1, <1>2, <1>3, <1>4, <1>5, <1>6, <1>7 DEF UploadInv, LeftoversExplained

LEMMA AugmentKeeps == UploadInv /\ Augment => UploadInv'
<1> SUFFICES ASSUME UploadInv, Augment PROVE UploadInv'
  OBVIOUS
<1>1. /\ work = "augment" /\ posted' = posted /\ ~overall
      /\ temp' = temp /\ leftover' = leftover /\ status = 0
      /\ IsPdf /\ PdfFits(posted) /\ FileFits(posted)
      /\ extracted = LayerPages(posted) /\ HasText(LayerPages(posted))
  BY DEF UploadInv, Augment, onDisk
<1>2. /\ FileFits(posted') <=> FileFits(posted)
      /\ PdfFits(posted') <=> PdfFits(posted)
      /\ LayerPages(posted') = LayerPages(posted)
      /\ IsPdf' <=> IsPdf
  BY <1>1 DEF IsPdf
<1>3. CASE work' = "again" /\ UNCHANGED <<status, extracted, overall>>
  <2>1. UploadTypeOK'
    BY <1>1, <1>3 DEF UploadInv, UploadTypeOK
  <2> QED  BY <1>1, <1>2, <1>3, <2>1 DEF UploadInv, LeftoversExplained, Answered
<1>4. CASE \E images \in SUBSET EmptyPages(extracted) :
              /\ extracted' = Merged(extracted, images)
              /\ overall' = CoversAll(extracted, images)
              /\ Decided(200)
  <2>1. PICK images \in SUBSET EmptyPages(LayerPages(posted)) :
           /\ extracted' = Merged(LayerPages(posted), images)
           /\ overall' = CoversAll(LayerPages(posted), images)
           /\ Decided(200)
    BY <1>1, <1>4
  <2>2. work' = "remove" /\ status' = 200
    BY <2>1 DEF Decided
  <2>3. extracted' \in Content
    BY <1>1, <2>1, MergedTyped DEF UploadInv, UploadTypeOK, Content
  <2>4. overall' \in BOOLEAN
    BY <2>1, Zenon DEF CoversAll
  <2>5. UploadTypeOK'
    BY <1>1, <2>2, <2>3, <2>4 DEF UploadInv, UploadTypeOK, Content
  <2>6. ByBoth'
    BY <1>1, <1>2, <2>1 DEF ByBoth
  <2>7. ReadPdf'
    BY <1>1, <1>2, <2>6 DEF ReadPdf
  <2> QED  BY <1>1, <1>2, <2>2, <2>5, <2>7 DEF UploadInv, LeftoversExplained
<1> QED  BY <1>3, <1>4 DEF Augment

LEMMA WholeKeeps == UploadInv /\ ReadWhole => UploadInv'
<1> SUFFICES ASSUME UploadInv, ReadWhole PROVE UploadInv'
  OBVIOUS
<1>1. /\ work \in {"whole", "again"} /\ posted' = posted /\ ~overall
      /\ temp' = temp /\ leftover' = leftover /\ status = 0
      /\ IsPdf /\ PdfFits(posted) /\ FileFits(posted)
  BY DEF UploadInv, ReadWhole, onDisk
<1>2. /\ FileFits(posted') <=> FileFits(posted)
      /\ PdfFits(posted') <=> PdfFits(posted)
      /\ TextPages(posted') = TextPages(posted)
      /\ DOMAIN posted'.pages = DOMAIN posted.pages
      /\ \A images : ScannedPages(posted', images) = ScannedPages(posted, images)
      /\ TextIsEnough(posted') <=> TextIsEnough(posted)
      /\ IsPdf' <=> IsPdf
  BY <1>1 DEF IsPdf
<1>3. CASE /\ IF work = "whole" THEN work' = "again" /\ UNCHANGED status ELSE Decided(500)
           /\ UNCHANGED <<extracted, overall>>
  <2>1. \/ work' = "again" /\ status' = 0
        \/ work' = "remove" /\ status' = 500
    BY <1>1, <1>3 DEF Decided
  <2>2. UploadTypeOK'
    BY <1>1, <1>3, <2>1 DEF UploadInv, UploadTypeOK
  <2> QED  BY <1>1, <1>2, <1>3, <2>1, <2>2 DEF UploadInv, LeftoversExplained, Answered
<1>4. CASE /\ TextIsEnough(posted)
           /\ extracted' = TextPages(posted) /\ overall' = FALSE
           /\ Decided(200)
  <2>1. work' = "remove" /\ status' = 200
    BY <1>4 DEF Decided
  <2>2. extracted' \in Content
    BY <1>4, TextTyped DEF UploadInv, UploadTypeOK
  <2>3. UploadTypeOK'
    BY <1>1, <1>4, <2>1, <2>2 DEF UploadInv, UploadTypeOK, Content
  <2>4. OfText'
    BY <1>2, <1>4 DEF OfText
  <2>5. ReadPdf'
    BY <1>1, <1>2, <2>4 DEF ReadPdf
  <2> QED  BY <1>1, <1>2, <2>1, <2>3, <2>5 DEF UploadInv, LeftoversExplained
<1>5. CASE /\ \E images \in SUBSET DOMAIN posted.pages :
                  extracted' = ScannedPages(posted, images)
           /\ overall' = TRUE
           /\ Decided(200)
  <2>1. work' = "remove" /\ status' = 200
    BY <1>5 DEF Decided
  <2>2. PICK images \in SUBSET DOMAIN posted.pages :
            extracted' = ScannedPages(posted, images)
    BY <1>5
  <2>3. extracted' \in Content
    BY <2>2, ScanTyped DEF UploadInv, UploadTypeOK
  <2>4. UploadTypeOK'
    BY <1>1, <1>5, <2>1, <2>3 DEF UploadInv, UploadTypeOK, Content
  <2>5. ByScan'
    BY <1>2, <1>5, <2>2 DEF ByScan
  <2>6. ReadPdf'
    BY <1>1, <1>2, <2>5 DEF ReadPdf
  <2> QED  BY <1>1, <1>2, <2>1, <2>4, <2>6 DEF UploadInv, LeftoversExplained
<1> QED  BY <1>1, <1>3, <1>4, <1>5 DEF ReadWhole

LEMMA RemoveKeeps == UploadInv /\ RemoveTemp => UploadInv'
<1> SUFFICES ASSUME UploadInv, RemoveTemp PROVE UploadInv'
  OBVIOUS
<1>1. /\ work = "remove" /\ work' = "over" /\ posted' = posted /\ status' = status
      /\ extracted' = extracted /\ overall' = overall /\ parsed' = parsed
      /\ temp = "whole" /\ leftover = "no"
      /\ \/ temp' = "none" /\ leftover' = "no"
         \/ temp' = "whole" /\ leftover' = "remove"
  BY DEF UploadInv, RemoveTemp, found
<1>2. UploadTypeOK'
  BY <1>1 DEF UploadInv, UploadTypeOK
<1>3. /\ FileFits(posted') <=> FileFits(posted)
      /\ ReadPdf' <=> ReadPdf
      /\ ReadOther' <=> ReadOther
      /\ Answered' <=> Answered
  BY <1>1 DEF ReadPdf, ReadOther, ByLayer, ByBoth, OfText, ByScan, IsPdf, Answered
<1> QED  BY <1>1, <1>2, <1>3 DEF UploadInv, LeftoversExplained

LEMMA KilledKeeps == UploadInv /\ Killed => UploadInv'
<1> SUFFICES ASSUME UploadInv, Killed PROVE UploadInv'
  OBVIOUS
<1>1. /\ work' = "over" /\ status' = 0 /\ ~Answered'
      /\ posted' = posted /\ extracted' = extracted /\ overall' = overall
      /\ leftover = "no"
  BY DEF UploadInv, Killed, Refused, Answered, found
<1>2. /\ temp' \in {"none", "part", "whole"}
      /\ leftover' = IF temp' = "none" THEN "no" ELSE "killed"
  BY <1>1 DEF UploadInv, UploadTypeOK, Killed
<1>3. UploadTypeOK'
  BY <1>1, <1>2 DEF UploadInv, UploadTypeOK
<1> QED  BY <1>1, <1>2, <1>3 DEF UploadInv, LeftoversExplained

LEMMA UploadInvHolds == UploadSpec => []UploadInv
<1>1. UploadInv /\ [UploadNext]_uploadVars => UploadInv'
  <2> SUFFICES ASSUME UploadInv, [UploadNext]_uploadVars PROVE UploadInv'
    OBVIOUS
  <2>1. CASE UploadNext
    BY <2>1, ReceiveKeeps, ValidateKeeps, SaveKeeps, ParseKeeps, CheckKeeps, LayerKeeps,
       AugmentKeeps, WholeKeeps, RemoveKeeps, KilledKeeps DEF UploadNext
  <2>2. CASE UNCHANGED uploadVars
    BY <2>2 DEF uploadVars, UploadInv, UploadTypeOK, ReadPdf, ReadOther, ByLayer, ByBoth,
                OfText, ByScan, IsPdf, Answered, LeftoversExplained
  <2> QED  BY <2>1, <2>2
<1> QED  BY <1>1, UploadInvInit, PTL DEF UploadSpec

-----------------------------------------------------------------------------
(* What was found fit, and read, is what it says it is.                    *)
LEMMA FitIsIntact ==
    ASSUME NEW f \in PostedFile, FileFits(f),
           f.ext = "pdf" => PdfFits(f), f.ext # "pdf" => IsReadable(f)
    PROVE  Intact(f) /\ WithinPages(f)
<1>1. f.ext \in {"pdf", "xls", "xlsx", "doc", "docx", "txt", "csv", "png", "jpg", "jpeg"}
  BY DEF PostedFile, FileFits
<1>2. CASE f.ext \in ImageExtensions
  BY <1>2 DEF FileFits, ImageFits, Intact, WithinPages, KindsOf, ImageExtensions
<1>3. CASE f.ext = "pdf"
  <2>1. f.size <= MaxFileSize
    BY <1>3 DEF FileFits, ImageExtensions
  <2> QED  BY <1>3, <2>1 DEF PdfFits, Intact, WithinPages, KindsOf
<1>4. CASE f.ext \in {"txt", "csv"}
  <2>1. f.size <= MaxFileSize /\ MimeFits(f)
    BY <1>4 DEF FileFits, ImageExtensions
  <2>2. f.content \in {"text", "other"}
    BY <1>4, <2>1 DEF MimeFits, HasBinarySignature
  <2>3. f.whole
    BY <1>4 DEF IsReadable
  <2> QED  BY <1>4, <2>1, <2>2, <2>3 DEF Intact, WithinPages, KindsOf
<1>5. CASE f.ext = "doc"
  <2>1. f.size <= MaxFileSize /\ ~f.locked
    BY <1>5 DEF FileFits, ImageExtensions, WordFits
  <2>2. f.content = "doc" /\ f.whole
    BY <1>5 DEF IsReadable
  <2> QED  BY <1>5, <2>1, <2>2 DEF Intact, WithinPages, KindsOf
<1>6. CASE f.ext = "docx"
  <2>1. f.size <= MaxFileSize /\ f.content = "docx" /\ f.whole /\ DocxPages(f.hints) <= MaxPages
    BY <1>6 DEF FileFits, ImageExtensions, WordFits
  <2> DEFINE h == f.hints
  <2>2. h \in Hints
    BY DEF PostedFile
  <2>3. h.noted \in Nat /\ h.rendered \in Nat /\ MaxPages \in Nat
    BY <2>2, UploadAssumption DEF Hints
  <2>4. /\ h.noted <= DocxPages(h)
        /\ h.xml = "document" => AfterBreaks(h.rendered) <= DocxPages(h)
    BY <2>2, DocxPagesFacts
  <2>5. DocxPages(h) \in Int
    BY <2>2, DocxPagesFacts
  <2>6. h.noted <= MaxPages
    BY <2>1, <2>3, <2>4, <2>5
  <2>7. h.xml = "document" => h.rendered = 0 \/ h.rendered < MaxPages
    BY <2>1, <2>3, <2>4, <2>5 DEF AfterBreaks
  <2>8. Intact(f)
    BY <1>6, <2>1 DEF Intact, KindsOf
  <2> QED  BY <1>6, <2>6, <2>7, <2>8 DEF WithinPages
<1>7. CASE f.ext \in {"xls", "xlsx"}
  <2>1. f.size <= MaxFileSize /\ f.sheets <= MaxPages
    BY <1>7 DEF FileFits, ImageExtensions, SheetsFit
  <2>2. /\ f.whole
        /\ f.ext = "xls" => f.content = "xls"
        /\ f.ext = "xlsx" => f.content \in {"xls", "xlsx"}
    <3>1. CASE f.ext = "xls"
      BY <3>1 DEF IsReadable, IsLegacyXls
    <3>2. CASE f.ext = "xlsx"
      BY <3>2 DEF IsReadable, IsLegacyXls
    <3> QED  BY <1>7, <3>1, <3>2
  <2> QED  BY <1>7, <2>1, <2>2 DEF Intact, WithinPages, KindsOf
<1> QED  BY <1>1, <1>2, <1>3, <1>4, <1>5, <1>6, <1>7 DEF ImageExtensions

LEMMA IsAnsweredAsItIs == UploadInv => AnsweredAsItIs
<1> SUFFICES ASSUME UploadInv, Answered PROVE Intact(posted) /\ WithinPages(posted)
  BY DEF AnsweredAsItIs
<1>1. /\ posted \in PostedFile /\ FileFits(posted)
      /\ posted.ext = "pdf" => PdfFits(posted)
      /\ posted.ext # "pdf" => IsReadable(posted)
  BY DEF UploadInv, UploadTypeOK, ReadPdf, ReadOther, IsPdf
<1> QED  BY <1>1, FitIsIntact

-----------------------------------------------------------------------------
(* Content that was made page by page has an entry for each page, in its   *)
(* place; that of the layer marks what the layer has.                      *)
ByPage ==
    /\ DOMAIN extracted = DOMAIN posted.pages
    /\ \A p \in DOMAIN posted.pages :
          /\ extracted[p].page = p /\ extracted[p].of = p
          /\ extracted[p].told <=> extracted[p].by = "ocr"
Marks ==
    /\ \A p \in DOMAIN posted.pages :
          /\ posted.pages[p].layer => extracted[p].by = "layer"
          /\ ~posted.pages[p].layer => extracted[p].by \in {"nobody", "ocr"}
    /\ \A p \in DOMAIN posted.pages : extracted[p].by = "nobody" =>
          \E k \in DOMAIN posted.pages : extracted[k].by = "layer"

LEMMA LayerFacts ==
    ASSUME NEW f, NEW p \in DOMAIN f.pages
    PROVE  /\ DOMAIN LayerPages(f) = DOMAIN f.pages
           /\ LayerPages(f)[p].page = p /\ LayerPages(f)[p].of = p
           /\ LayerPages(f)[p].told <=> LayerPages(f)[p].by = "ocr"
           /\ f.pages[p].layer => LayerPages(f)[p].by = "layer"
           /\ ~f.pages[p].layer => LayerPages(f)[p].by = "nobody"
<1>1. LayerPages(f)[p] = PageEntry(p, p, IF f.pages[p].layer THEN "layer" ELSE "nobody")
  BY DEF LayerPages
<1>2. DOMAIN LayerPages(f) = DOMAIN f.pages
  BY DEF LayerPages
<1>3. CASE f.pages[p].layer
  <2>1. LayerPages(f)[p] = PageEntry(p, p, "layer")
    BY <1>1, <1>3
  <2> QED  BY <1>2, <1>3, <2>1, EntryFields
<1>4. CASE ~f.pages[p].layer
  <2>1. LayerPages(f)[p] = PageEntry(p, p, "nobody")
    BY <1>1, <1>4
  <2> QED  BY <1>2, <1>4, <2>1, EntryFields
<1> QED  BY <1>3, <1>4

LEMMA EmptyFacts ==
    ASSUME NEW f
    PROVE  EmptyPages(LayerPages(f)) = {p \in DOMAIN f.pages : ~f.pages[p].layer}
<1>1. DOMAIN LayerPages(f) = DOMAIN f.pages
  BY DEF LayerPages
<1>2. \A p \in DOMAIN f.pages : /\ LayerPages(f)[p].page = p
                                /\ LayerPages(f)[p].by = "nobody" <=> ~f.pages[p].layer
  BY LayerFacts
<1> QED  BY <1>1, <1>2 DEF EmptyPages

LEMMA ByLayerIsByPage == ByLayer => ByPage /\ Marks
<1> SUFFICES ASSUME ByLayer PROVE ByPage /\ Marks
  OBVIOUS
<1>1. extracted = LayerPages(posted) /\ DOMAIN extracted = DOMAIN posted.pages
  BY DEF ByLayer, LayerPages
<1>2. \A p \in DOMAIN posted.pages : posted.pages[p].layer
  BY EmptyFacts DEF ByLayer
<1>3. \A p \in DOMAIN posted.pages :
         /\ extracted[p].page = p /\ extracted[p].of = p
         /\ extracted[p].told <=> extracted[p].by = "ocr"
         /\ extracted[p].by = "layer"
  BY <1>1, <1>2, LayerFacts
<1> QED  BY <1>1, <1>2, <1>3 DEF ByPage, Marks

LEMMA ByBothIsByPage == ByBoth /\ posted \in PostedFile => ByPage /\ Marks /\ ~overall
<1> SUFFICES ASSUME ByBoth, posted \in PostedFile PROVE ByPage /\ Marks /\ ~overall
  OBVIOUS
<1>1. PICK m \in Nat : m = Len(posted.pages) /\ DOMAIN posted.pages = 1 .. m
  BY LenProperties DEF PostedFile
<1> DEFINE layer == LayerPages(posted)
           empty == {p \in DOMAIN posted.pages : ~posted.pages[p].layer}
<1>2. PICK images \in SUBSET empty :
         extracted = Merged(layer, images) /\ overall = CoversAll(layer, images)
  BY EmptyFacts DEF ByBoth
<1>3. DOMAIN layer = 1 .. m /\ Len(layer) = m
  <2>1. DOMAIN layer = 1 .. m
    BY <1>1 DEF LayerPages
  <2>2. layer \in Content
    BY LayerTyped
  <2>3. DOMAIN layer = 1 .. Len(layer) /\ Len(layer) \in Nat
    BY <2>2, LenProperties DEF Content
  <2>4. Len(layer) = m
    BY <2>1, <2>3
  <2> QED  BY <2>1, <2>4
<1>4. \A p \in 1 .. m : /\ layer[p].page = p /\ layer[p].of = p
                        /\ layer[p].told <=> layer[p].by = "ocr"
                        /\ posted.pages[p].layer => layer[p].by = "layer"
                        /\ ~posted.pages[p].layer => layer[p].by = "nobody"
  BY <1>1, LayerFacts
<1>5. PICK k \in 1 .. m : layer[k].by # "nobody"
  BY <1>3 DEF ByBoth, HasText
<1>6. posted.pages[k].layer /\ k \notin images
  BY <1>1, <1>2, <1>4, <1>5
<1> HIDE DEF layer
<1>7. /\ DOMAIN extracted = 1 .. m
      /\ \A p \in 1 .. m : extracted[p] = IF p \in images THEN PageEntry(p, p, "ocr")
                                           ELSE layer[p]
  BY <1>2, <1>3, <1>4 DEF Merged
<1>8. ASSUME NEW p \in 1 .. m
      PROVE  /\ extracted[p].page = p /\ extracted[p].of = p
             /\ extracted[p].told <=> extracted[p].by = "ocr"
             /\ posted.pages[p].layer => extracted[p].by = "layer"
             /\ ~posted.pages[p].layer => extracted[p].by \in {"nobody", "ocr"}
  <2>1. CASE p \in images
    <3>1. extracted[p] = PageEntry(p, p, "ocr") /\ ~posted.pages[p].layer
      BY <1>2, <1>7, <2>1
    <3> QED  BY <3>1, EntryFields
  <2>2. CASE p \notin images
    <3>1. extracted[p] = layer[p]
      BY <1>7, <2>2
    <3> QED  BY <1>4, <3>1
  <2> QED  BY <2>1, <2>2
<1>9. ~CoversAll(layer, images)
  <2>1. IsFiniteSet(1 .. m) /\ Cardinality(1 .. m) = m
    BY FS_Interval
  <2>2. images \subseteq 1 .. m /\ images # 1 .. m
    BY <1>1, <1>2, <1>6
  <2>3. Cardinality(images) # m
    BY <2>1, <2>2, FS_Subset
  <2> QED  BY <1>3, <2>3 DEF CoversAll
<1> QED  BY <1>1, <1>2, <1>6, <1>7, <1>8, <1>9 DEF ByPage, Marks

(* Numbers that grow from place to place are not less than their places,   *)
(* and are their places when there are as many of them as there can be.    *)
LEMMA PlacesAtMost ==
    ASSUME NEW l \in Nat, NEW s, \A i \in 1 .. l : s[i] \in Nat \ {0},
           \A i \in 1 .. l, j \in 1 .. l : j < i => s[j] < s[i]
    PROVE  \A i \in 1 .. l : i <= s[i]
<1> DEFINE T == {n \in Nat : n \in 1 .. l => n <= s[n]}
<1>1. 0 \in T
  OBVIOUS
<1>2. ASSUME NEW n \in Nat, n \in T PROVE n + 1 \in T
  <2> SUFFICES ASSUME n + 1 \in 1 .. l PROVE n + 1 <= s[n + 1]
    OBVIOUS
  <2>1. PICK i \in 1 .. l : i = n + 1
    OBVIOUS
  <2>2. CASE n = 0
    BY <2>1, <2>2
  <2>3. CASE n # 0
    <3>1. n \in 1 .. l /\ n < i
      BY <2>1, <2>3
    <3>2. n <= s[n] /\ s[n] < s[i] /\ s[n] \in Nat /\ s[i] \in Nat
      BY <1>2, <3>1
    <3>3. i <= s[i]
      BY <2>1, <3>2
    <3> QED  BY <2>1, <3>3
  <2> QED  BY <2>2, <2>3
<1>3. Nat \subseteq T
  <2> HIDE DEF T
  <2> QED  BY <1>1, <1>2, SetInduction
<1> QED  BY <1>3

LEMMA PlacesAreTheirs ==
    ASSUME NEW m \in Nat, NEW s, \A i \in 1 .. m : s[i] \in 1 .. m,
           \A i \in 1 .. m, j \in 1 .. m : j < i => s[j] < s[i]
    PROVE  \A i \in 1 .. m : s[i] = i
<1>1. \A i \in 1 .. m : i <= s[i]
  <2>1. \A i \in 1 .. m : s[i] \in Nat \ {0}
    OBVIOUS
  <2> QED  BY <2>1, PlacesAtMost
<1> DEFINE T == {n \in Nat : n < m => s[m - n] <= m - n}
<1>2. 0 \in T
  OBVIOUS
<1>3. ASSUME NEW n \in Nat, n \in T PROVE n + 1 \in T
  <2> SUFFICES ASSUME n + 1 < m PROVE s[m - (n + 1)] <= m - (n + 1)
    OBVIOUS
  <2>1. PICK i \in 1 .. m, j \in 1 .. m : i = m - n /\ j = m - (n + 1) /\ j < i
    OBVIOUS
  <2>2. s[i] <= i /\ s[j] < s[i] /\ s[i] \in Nat /\ s[j] \in Nat
    BY <1>3, <2>1
  <2>3. s[j] <= j
    BY <2>1, <2>2
  <2> QED  BY <2>1, <2>3
<1>4. Nat \subseteq T
  <2> HIDE DEF T
  <2> QED  BY <1>2, <1>3, SetInduction
<1>5. ASSUME NEW i \in 1 .. m PROVE s[i] <= i
  <2>1. PICK n \in Nat : n = m - i
    OBVIOUS
  <2>2. n \in T /\ n < m /\ m - n = i
    BY <1>4, <2>1
  <2>3. s[m - n] <= m - n
    BY <2>2
  <2> QED  BY <2>2, <2>3
<1>6. ASSUME NEW i \in 1 .. m PROVE s[i] = i
  <2>1. i <= s[i] /\ s[i] <= i /\ s[i] \in Int
    BY <1>1, <1>5
  <2> QED  BY <2>1
<1> QED  BY <1>6

(* A scan lists what became an image, in order: all pages, each in its     *)
(* place, or fewer entries than there are pages.                           *)
Scanned ==
    /\ overall
    /\ \A i \in DOMAIN extracted :
          /\ extracted[i].page = i /\ i <= extracted[i].of
          /\ extracted[i].by = "ocr" /\ extracted[i].told
          /\ i \in DOMAIN posted.pages /\ extracted[i].of \in DOMAIN posted.pages
    /\ \A i, j \in DOMAIN extracted : j < i => extracted[j].of < extracted[i].of
    /\ Len(extracted) = Len(posted.pages) => ByPage

LEMMA ByScanIsScanned == ByScan /\ posted \in PostedFile => Scanned
<1> SUFFICES ASSUME ByScan, posted \in PostedFile PROVE Scanned
  OBVIOUS
<1>1. PICK m \in Nat : m = Len(posted.pages) /\ DOMAIN posted.pages = 1 .. m
  BY LenProperties DEF PostedFile
<1>2. PICK images \in SUBSET (1 .. m) : extracted = ScannedPages(posted, images)
  BY <1>1 DEF ByScan
<1> DEFINE shown == InOrder(images, Len(posted.pages))
<1>3. Ordered(shown, images, m) /\ extracted \in Content
  BY <1>1, <1>2, ScanTyped
<1>4. PICK l \in Nat : l = Len(shown) /\ DOMAIN shown = 1 .. l
  BY <1>3, LenProperties DEF Ordered
<1>5. /\ DOMAIN extracted = 1 .. l
      /\ \A i \in 1 .. l : extracted[i] = PageEntry(i, shown[i], "ocr")
  BY <1>2, <1>4 DEF ScannedPages
<1> HIDE DEF shown
<1>6. Len(extracted) = l
  BY <1>3, <1>4, <1>5, LenProperties DEF Content
<1>7. /\ \A i \in 1 .. l : shown[i] \in 1 .. m
      /\ \A i \in 1 .. l, j \in 1 .. l : j < i => shown[j] < shown[i]
  BY <1>3, <1>4 DEF Ordered
<1>8. \A i \in 1 .. l : /\ extracted[i].page = i /\ extracted[i].of = shown[i]
                        /\ extracted[i].by = "ocr" /\ extracted[i].told
  BY <1>5, ImageFields
<1>9. \A i \in 1 .. l : i <= shown[i] /\ i \in 1 .. m
  <2>1. \A i \in 1 .. l : shown[i] \in Nat \ {0}
    BY <1>7
  <2>2. \A i \in 1 .. l : i <= shown[i]
    BY <1>7, <2>1, PlacesAtMost
  <2> QED  BY <1>7, <2>2
<1>10. ASSUME l = m PROVE ByPage
  <2>1. \A i \in 1 .. m : shown[i] = i
    BY <1>7, <1>10, PlacesAreTheirs
  <2> QED  BY <1>1, <1>5, <1>8, <1>10, <2>1 DEF ByPage
<1> QED  BY <1>1, <1>5, <1>6, <1>7, <1>8, <1>9, <1>10 DEF Scanned, ByScan

(* Content that was made of text has the pages that have some, in order.   *)
TextInOrder ==
    /\ \A i \in DOMAIN extracted :
          /\ extracted[i].of = extracted[i].page /\ extracted[i].by = "text"
          /\ ~extracted[i].told /\ extracted[i].page \in DOMAIN posted.pages
    /\ \A i, j \in DOMAIN extracted : j < i => extracted[j].page < extracted[i].page
    /\ \A p \in DOMAIN posted.pages : posted.pages[p].chars > 0 => Lists(p)

LEMMA OfTextInOrder == OfText /\ posted \in PostedFile => TextInOrder
<1> SUFFICES ASSUME OfText, posted \in PostedFile PROVE TextInOrder
  OBVIOUS
<1>1. PICK m \in Nat : m = Len(posted.pages) /\ DOMAIN posted.pages = 1 .. m
  BY LenProperties DEF PostedFile
<1> DEFINE S == {p \in DOMAIN posted.pages : posted.pages[p].chars > 0}
           order == PagesOfText(posted)
<1>2. Ordered(order, S, m)
  BY <1>1, TextTyped
<1>3. PICK l \in Nat : l = Len(order) /\ DOMAIN order = 1 .. l
  BY <1>2, LenProperties DEF Ordered
<1> HIDE DEF S
<1>4. /\ \A i \in 1 .. l : order[i] \in 1 .. m
      /\ \A i \in 1 .. l, j \in 1 .. l : j < i => order[j] < order[i]
      /\ \A k \in 1 .. m : k \in S => \E i \in 1 .. l : order[i] = k
  BY <1>2, <1>3 DEF Ordered
<1>5. /\ DOMAIN extracted = 1 .. l
      /\ \A i \in 1 .. l : extracted[i] = PageEntry(order[i], order[i], "text")
  BY <1>3 DEF OfText, TextPages
<1> HIDE DEF order
<1>6. \A i \in 1 .. l : /\ extracted[i].page = order[i] /\ extracted[i].of = order[i]
                        /\ extracted[i].by = "text" /\ ~extracted[i].told
  BY <1>5, EntryFields
<1>7. ASSUME NEW p \in DOMAIN posted.pages, posted.pages[p].chars > 0 PROVE Lists(p)
  <2>1. p \in S /\ p \in 1 .. m
    BY <1>1, <1>7 DEF S
  <2>2. PICK i \in 1 .. l : order[i] = p
    BY <1>4, <2>1
  <2> QED  BY <1>5, <1>6, <2>2 DEF Lists
<1> QED  BY <1>1, <1>4, <1>5, <1>6, <1>7 DEF TextInOrder

(* An answer has one of four forms.                                        *)
OneEntry ==
    /\ DOMAIN extracted = {1} /\ extracted[1].page = 1 /\ extracted[1].of = 1
    /\ extracted[1].told <=> extracted[1].by = "ocr"
    /\ overall => extracted[1].by = "ocr"

LEMMA OtherIsOneEntry == ReadOther => OneEntry
<1> SUFFICES ASSUME ReadOther PROVE OneEntry
  OBVIOUS
<1>1. CASE overall
  <2>1. extracted = <<PageEntry(1, 1, "ocr")>>
    BY <1>1 DEF ReadOther
  <2> QED  BY <1>1, <2>1, EntryFields DEF OneEntry
<1>2. CASE ~overall
  <2>1. extracted = <<PageEntry(1, 1, "text")>>
    BY <1>2 DEF ReadOther
  <2> QED  BY <1>2, <2>1, EntryFields DEF OneEntry
<1> QED  BY <1>1, <1>2

LEMMA AnswerForms ==
    ASSUME UploadInv, Answered
    PROVE  \/ ~IsPdf /\ OneEntry
           \/ IsPdf /\ ByPage /\ Marks /\ ~overall
           \/ IsPdf /\ Scanned
           \/ IsPdf /\ TextInOrder /\ TextIsEnough(posted) /\ ~overall
<1>1. posted \in PostedFile
  BY DEF UploadInv, UploadTypeOK
<1>2. CASE ReadOther
  BY <1>2, OtherIsOneEntry DEF ReadOther
<1>3. CASE ReadPdf
  <2>1. CASE ByLayer
    BY <1>3, <2>1, ByLayerIsByPage DEF ReadPdf, ByLayer
  <2>2. CASE ByBoth
    BY <1>1, <1>3, <2>2, ByBothIsByPage DEF ReadPdf
  <2>3. CASE ByScan
    BY <1>1, <1>3, <2>3, ByScanIsScanned DEF ReadPdf
  <2>4. CASE OfText
    BY <1>1, <1>3, <2>4, OfTextInOrder DEF ReadPdf, OfText
  <2> QED  BY <1>3, <2>1, <2>2, <2>3, <2>4 DEF ReadPdf
<1> QED  BY <1>2, <1>3 DEF UploadInv

LEMMA PagesAreInPlace == UploadInv => PagesInPlace
<1> SUFFICES ASSUME UploadInv, Answered, NEW i \in DOMAIN extracted
             PROVE  /\ \/ extracted[i].of = extracted[i].page
                       \/ PagesSkipped /\ extracted[i].page <= extracted[i].of
                    /\ \A j \in 1 .. i - 1 : /\ extracted[j].page < extracted[i].page
                                             /\ extracted[j].of < extracted[i].of
                    /\ IsPdf => {extracted[i].page, extracted[i].of}
                                    \subseteq DOMAIN posted.pages
  BY DEF PagesInPlace
<1>1. PICK l \in Nat : l = Len(extracted) /\ DOMAIN extracted = 1 .. l
  BY LenProperties DEF UploadInv, UploadTypeOK
<1>2. \A j \in 1 .. i - 1 : j \in DOMAIN extracted /\ j < i
  BY <1>1
<1>3. CASE ~IsPdf /\ OneEntry
  BY <1>2, <1>3 DEF OneEntry
<1>4. CASE IsPdf /\ ByPage
  <2>1. \A j \in 1 .. i - 1 : extracted[j].page = j /\ extracted[j].of = j
    BY <1>2, <1>4 DEF ByPage
  <2>2. extracted[i].page = i /\ extracted[i].of = i /\ i \in DOMAIN posted.pages
    BY <1>4 DEF ByPage
  <2> QED  BY <1>2, <2>1, <2>2
<1>5. CASE IsPdf /\ TextInOrder
  <2>1. \A j \in 1 .. i - 1 : extracted[j].page < extracted[i].page
    BY <1>2, <1>5 DEF TextInOrder
  <2>2. \A j \in DOMAIN extracted : extracted[j].of = extracted[j].page
    BY <1>5 DEF TextInOrder
  <2> QED  BY <1>2, <1>5, <2>1, <2>2 DEF TextInOrder
<1>6. CASE IsPdf /\ Scanned
  <2>1. CASE Len(extracted) = Len(posted.pages)
    BY <1>4, <1>6, <2>1 DEF Scanned
  <2>2. CASE Len(extracted) # Len(posted.pages)
    <3>1. PagesSkipped
      BY <1>6, <2>2 DEF Scanned, PagesSkipped
    <3>2. \A j \in 1 .. i - 1 : /\ extracted[j].page = j /\ extracted[i].page = i
                               /\ extracted[j].of < extracted[i].of
      BY <1>2, <1>6 DEF Scanned
    <3> QED  BY <1>2, <1>6, <3>1, <3>2 DEF Scanned
  <2> QED  BY <2>1, <2>2
<1> QED  BY <1>3, <1>4, <1>5, <1>6, AnswerForms

LEMMA NoPageIsLost == UploadInv => NoPageLost
<1> SUFFICES ASSUME UploadInv, Answered, IsPdf PROVE NoPageLost
  BY DEF NoPageLost
<1>1. CASE ByPage
  BY <1>1 DEF ByPage, NoPageLost, Lists
<1>2. CASE TextInOrder /\ TextIsEnough(posted)
  BY <1>2 DEF TextInOrder, NoPageLost, ByText
<1>3. CASE Scanned
  BY <1>1, <1>3 DEF Scanned, NoPageLost, PagesSkipped
<1> QED  BY <1>1, <1>2, <1>3, AnswerForms

LEMMA TheLayerIsKept == UploadInv => LayerIsKept
<1> SUFFICES ASSUME UploadInv, Answered, IsPdf,
                    NEW i \in DOMAIN extracted, NEW j \in DOMAIN extracted
             PROVE  /\ extracted[i].by = "layer" /\ posted.pages[extracted[j].page].layer
                           => extracted[j].by = "layer"
                    /\ extracted[i].by = "nobody" =>
                           /\ ~posted.pages[extracted[i].page].layer
                           /\ \E k \in DOMAIN extracted : extracted[k].by = "layer"
  BY DEF LayerIsKept
<1>1. CASE ByPage /\ Marks
  <2>1. /\ i \in DOMAIN posted.pages /\ j \in DOMAIN posted.pages
        /\ extracted[i].page = i /\ extracted[j].page = j
        /\ DOMAIN extracted = DOMAIN posted.pages
    BY <1>1 DEF ByPage
  <2>2. posted.pages[j].layer => extracted[j].by = "layer"
    BY <1>1, <2>1 DEF Marks
  <2>3. extracted[i].by = "nobody" => ~posted.pages[i].layer
    BY <1>1, <2>1 DEF Marks
  <2>4. extracted[i].by = "nobody" =>
            \E k \in DOMAIN extracted : extracted[k].by = "layer"
    BY <1>1, <2>1 DEF Marks
  <2> QED  BY <2>1, <2>2, <2>3, <2>4
<1>2. CASE Scanned
  BY <1>2 DEF Scanned
<1>3. CASE TextInOrder
  BY <1>3 DEF TextInOrder
<1> QED  BY <1>1, <1>2, <1>3, AnswerForms

LEMMA TheMetadataIsTrue == UploadInv => MetadataIsTrue
<1> SUFFICES ASSUME UploadInv, Answered PROVE MetadataIsTrue
  BY DEF MetadataIsTrue
<1>1. CASE ~IsPdf /\ OneEntry
  BY <1>1 DEF OneEntry, MetadataIsTrue
<1>2. CASE ByPage /\ ~overall
  BY <1>2 DEF ByPage, MetadataIsTrue
<1>3. CASE IsPdf /\ Scanned
  <2>1. \A i \in DOMAIN extracted : extracted[i].told /\ extracted[i].by = "ocr"
    BY <1>3 DEF Scanned
  <2>2. PagesSkipped \/ \A p \in DOMAIN posted.pages : Lists(p)
    BY <1>3 DEF Scanned, PagesSkipped, ByPage, Lists
  <2> QED  BY <2>1, <2>2 DEF MetadataIsTrue
<1>4. CASE TextInOrder /\ ~overall
  <2>1. \A i \in DOMAIN extracted : ~extracted[i].told /\ extracted[i].by = "text"
    BY <1>4 DEF TextInOrder
  <2> QED  BY <1>4, <2>1 DEF MetadataIsTrue
<1> QED  BY <1>1, <1>2, <1>3, <1>4, AnswerForms

LEMMA CellsAreKept == UploadInv => CsvCellsKept
<1> SUFFICES ASSUME UploadInv, Answered, posted.ext = "csv",
                    NoneLooksNumbered(posted.header),
                    NEW n \in DOMAIN FullRows(posted), NEW i \in DOMAIN posted.header,
                    i <= Len(FullRows(posted)[n])
             PROVE  parsed[n][UniqueHeader(posted.header, i)] = FullRows(posted)[n][i]
  BY DEF CsvCellsKept
<1>1. posted.header \in Seq(Header)
  BY DEF UploadInv, UploadTypeOK, PostedFile
<1>2. parsed = ParsedRows(posted)
  BY DEF UploadInv, ReadPdf, IsPdf, ReadOther
<1>3. parsed = [k \in DOMAIN FullRows(posted) |-> RowDict(posted.header, FullRows(posted)[k])]
  BY <1>2 DEF ParsedRows
<1>4. parsed[n] = RowDict(posted.header, FullRows(posted)[n])
  BY <1>3
<1> QED  BY <1>1, <1>4, CellIsKept

LEMMA SheetRowsAreKept == UploadInv => SheetRowsKept
<1> SUFFICES ASSUME UploadInv, Answered, posted.ext \in {"xls", "xlsx"},
                    NEW n \in DOMAIN FullRows(posted),
                    FullRows(posted)[n][Len(FullRows(posted)[n])] >= 0
             PROVE  Unmarked(parsed[n]) = FullRows(posted)[n]
  BY DEF SheetRowsKept
<1>1. posted \in PostedFile
  BY DEF UploadInv, UploadTypeOK
<1>2. parsed = ParsedRows(posted)
  BY DEF UploadInv, ReadPdf, IsPdf, ReadOther
<1>3. parsed = [k \in DOMAIN FullRows(posted) |-> MarkedRow(FullRows(posted)[k])]
  BY <1>2 DEF ParsedRows
<1>4. parsed[n] = MarkedRow(FullRows(posted)[n])
  BY <1>3
<1>5. FullRows(posted)[n] \in Seq(Int) /\ IsFull(posted, FullRows(posted)[n])
  BY <1>1, FullRowsFacts
<1>6. \E i \in DOMAIN FullRows(posted)[n] : FullRows(posted)[n][i] # 0
  BY <1>5 DEF IsFull
<1> QED  BY <1>4, <1>5, <1>6, MarkedIsKnown

(* For any files, whatever libmagic, the client and the libraries make of  *)
(* them, any limits and any number of pages, rows and headers: what is     *)
(* answered as read is what the file says it is and within the limits, its *)
(* pages are in their places and none is lost unless poppler left one out  *)
(* of a scan, OCR replaces no text of the layer, rows and cells are known  *)
(* from what is answered unless they look like a marker or a numbered      *)
(* header, and a temporary file that is left has a reason.                 *)
THEOREM UploadsAreTrue == UploadSpec => []UploadTrue
<1>1. UploadInv => UploadTrue
  BY IsAnsweredAsItIs, PagesAreInPlace, NoPageIsLost, TheLayerIsKept, TheMetadataIsTrue,
     CellsAreKept, SheetRowsAreKept DEF UploadTrue, UploadInv
<1> QED  BY <1>1, UploadInvHolds, PTL
=============================================================================
