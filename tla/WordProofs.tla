----------------------------- MODULE WordProofs -----------------------------
(***************************************************************************)
(* Lemmas about words: remainders, the low bits of a number, its fields,   *)
(* and the bitwise operations.                                             *)
(***************************************************************************)
EXTENDS JitTypes, WellFoundedInduction, TLAPS

(* A remainder is below the divisor, and what is divided out is whole.      *)
LEMMA ModRange ==
    ASSUME NEW x \in Int, NEW m \in Nat \ {0}
    PROVE  /\ x % m \in 0 .. m - 1
           /\ x \div m \in Int
           /\ x = m * (x \div m) + (x % m)
<1>1. x % m \in 0 .. m - 1
  OBVIOUS
<1>2. x \div m \in Int
  OBVIOUS
<1>3. x = m * (x \div m) + (x % m)
  OBVIOUS
<1>4. QED BY <1>1, <1>2, <1>3

(* Quotient and remainder are the only ones.                                *)
LEMMA ModUnique ==
    ASSUME NEW m \in Nat \ {0}, NEW x \in Int, NEW q \in Int, NEW s \in 0 .. m - 1,
           x = m * q + s
    PROVE  x % m = s /\ x \div m = q
<1>1. x % m = s
  OBVIOUS
<1>2. x \div m = q
  OBVIOUS
<1>3. QED BY <1>1, <1>2

(* Two numbers have the same remainder if they differ by a multiple.        *)
LEMMA ModCongruent ==
    ASSUME NEW m \in Nat \ {0}, NEW x \in Int, NEW y \in Int
    PROVE  x % m = y % m <=> \E k \in Int : x = y + m * k
<1>1. ASSUME x % m = y % m
      PROVE  \E k \in Int : x = y + m * k
  <2> DEFINE a == x \div m
             b == y \div m
             s == x % m
  <2>1. a \in Int /\ b \in Int /\ s \in Int
    BY ModRange
  <2>2. x = m * a + s /\ y = m * b + s
    BY <1>1, ModRange
  <2> HIDE DEF a, b, s
  <2>3. x = y + m * (a - b)
    BY <2>1, <2>2
  <2>4. QED BY <2>1, <2>3
<1>2. ASSUME NEW k \in Int, x = y + m * k
      PROVE  x % m = y % m
  <2> DEFINE b == y \div m
             s == y % m
  <2>1. b \in Int /\ s \in 0 .. m - 1 /\ y = m * b + s
    BY ModRange
  <2> HIDE DEF b, s
  <2>2. x = m * (b + k) + s
    BY <1>2, <2>1
  <2>3. b + k \in Int
    BY <2>1
  <2>4. x % m = s
    BY <2>1, <2>2, <2>3, ModUnique
  <2>5. QED BY <2>4 DEF s
<1>3. QED BY <1>1, <1>2

-----------------------------------------------------------------------------
(* Widths and their powers.                                                 *)
LEMMA Power ==
    /\ W64 \in Nat /\ 2 ^ W64 \in Nat \ {0}
    /\ \A w \in 0 .. W64 : w \in Nat /\ 2 ^ w \in Nat \ {0}
    /\ \A v, w \in 0 .. W64 : v <= w => \E k \in Nat \ {0} : 2 ^ w = 2 ^ v * k
    /\ \A w \in 1 .. W64 : 2 ^ w = 2 * 2 ^ (w - 1)
    /\ \A w \in 0 .. W64 : \E k \in Nat \ {0} : 2 ^ W64 = 2 ^ w * k
<1>1. W64 \in Nat
  BY WidthAssumption
<1>2. \A w \in 0 .. W64 : w \in Nat /\ 2 ^ w \in Nat \ {0}
  BY <1>1, PowerAssumption
<1>3. ASSUME NEW v \in 0 .. W64, NEW w \in 0 .. W64, v <= w
      PROVE  \E k \in Nat \ {0} : 2 ^ w = 2 ^ v * k
  <2>1. w - v \in 0 .. W64 /\ v + (w - v) = w
    BY <1>1, <1>3
  <2>2. 2 ^ w = 2 ^ v * 2 ^ (w - v)
    BY <1>1, <2>1, PowerAssumption
  <2>3. QED BY <1>2, <2>1, <2>2
<1>4. ASSUME NEW w \in 1 .. W64
      PROVE  2 ^ w = 2 * 2 ^ (w - 1)
  <2>1. w - 1 \in 0 .. W64 /\ 1 \in 0 .. W64 /\ 1 + (w - 1) = w /\ 2 ^ 1 = 2
    BY <1>1
  <2>2. \A k \in 0 .. W64 : 1 + k <= W64 => 2 ^ (1 + k) = 2 ^ 1 * 2 ^ k
    BY <2>1, PowerAssumption
  <2>3. 2 ^ (1 + (w - 1)) = 2 ^ 1 * 2 ^ (w - 1)
    BY <1>1, <2>1, <2>2
  <2>4. QED BY <2>1, <2>3
<1>5. ASSUME NEW w \in 0 .. W64
      PROVE  \E k \in Nat \ {0} : 2 ^ W64 = 2 ^ w * k
  <2>1. W64 \in 0 .. W64 /\ w <= W64
    BY <1>1
  <2>2. QED BY <1>3, <2>1
<1>6. QED BY <1>1, <1>2, <1>3, <1>4, <1>5

Widths == {W8, W16, W32, W64}

(* Every width is one that powers are known of.                             *)
LEMMA WidthsInRange ==
    /\ \A w \in Widths : w \in 1 .. W64 /\ W8 <= w /\ w \in Nat
    /\ \A t \in IntTypes : Width(t) \in Widths
<1>1. \A w \in Widths : w \in 1 .. W64 /\ W8 <= w /\ w \in Nat
  BY WidthAssumption DEF Widths
<1>2. \A t \in IntTypes : Width(t) \in Widths
  BY DEF IntTypes, UnsignedTypes, SignedTypes, Width, Widths
<1>3. QED BY <1>1, <1>2
-----------------------------------------------------------------------------
(* Induction from 0 to N, for a set.                                        *)
LEMMA UpTo ==
    ASSUME NEW N \in Nat, NEW S, 0 \in S,
           \A k \in 1 .. N : k - 1 \in S => k \in S
    PROVE  0 .. N \subseteq S
<1> DEFINE T == (0 .. N) \ S
<1> SUFFICES ASSUME T # {}
             PROVE  FALSE
  OBVIOUS
<1>1. PICK x \in T : \A y \in T : ~(<<y, x>> \in OpToRel(<, Nat))
  <2>1. T \subseteq Nat
    OBVIOUS
  <2> HIDE DEF T
  <2>2. QED BY <2>1, NatLessThanWellFounded, WFMin
<1>2. x \in 1 .. N /\ x \notin S
  OBVIOUS
<1>3. x - 1 \in 0 .. N /\ x - 1 \notin S /\ x - 1 < x
  BY <1>2
<1>4. <<x - 1, x>> \in OpToRel(<, Nat)
  BY <1>2, <1>3 DEF OpToRel
<1>5. QED BY <1>1, <1>3, <1>4

(* A function defined by recursion from 0 to N exists.                      *)
Recursion(g, N, b, next) ==
    g[0] = b /\ \A k \in 1 .. N : g[k] = next[k][g[k - 1]]

(* A function defined by recursion up to N exists.                          *)
LEMMA RecursionUpTo ==
    ASSUME NEW N \in Nat, NEW S, NEW b \in S, NEW next \in [1 .. N -> [S -> S]]
    PROVE  \E g \in [0 .. N -> S] : Recursion(g, N, b, next)
<1> DEFINE Until(g, m) == g[0] = b /\ \A k \in 1 .. m : g[k] = next[k][g[k - 1]]
           U == {m \in 0 .. N : \E g \in [0 .. N -> S] : Until(g, m)}
<1>1. 0 \in U
  <2> DEFINE g == [k \in 0 .. N |-> b]
  <2>1. g \in [0 .. N -> S] /\ Until(g, 0)
    OBVIOUS
  <2>2. 0 \in 0 .. N
    OBVIOUS
  <2> HIDE DEF g, Until
  <2>3. QED BY <2>1, <2>2
<1>2. ASSUME NEW m \in 1 .. N, m - 1 \in U
      PROVE  m \in U
  <2>1. PICK g \in [0 .. N -> S] : Until(g, m - 1)
    BY <1>2
  <2> DEFINE h == [g EXCEPT ![m] = next[m][g[m - 1]]]
  <2>2. next[m][g[m - 1]] \in S
    <3>1. g[m - 1] \in S
      OBVIOUS
    <3>2. next[m] \in [S -> S]
      OBVIOUS
    <3>3. QED BY <3>1, <3>2
  <2>3. h \in [0 .. N -> S]
    BY <2>2
  <2>4. h[0] = b
    BY <2>1
  <2>5. ASSUME NEW k \in 1 .. m
        PROVE  h[k] = next[k][h[k - 1]]
    <3>1. h[k - 1] = g[k - 1]
      OBVIOUS
    <3>2. CASE k = m
      BY <3>1, <3>2
    <3>3. CASE k # m
      BY <2>1, <3>1, <3>3
    <3>4. QED BY <3>2, <3>3
  <2>6. Until(h, m) /\ m \in 0 .. N
    BY <2>4, <2>5
  <2> HIDE DEF h, Until
  <2>7. QED BY <2>3, <2>6
<1>3. N \in U
  <2> HIDE DEF U
  <2>1. 0 .. N \subseteq U
    BY <1>1, <1>2, UpTo
  <2>2. QED BY <2>1
<1>4. PICK g \in [0 .. N -> S] : Until(g, N)
  BY <1>3
<1>5. Recursion(g, N, b, next)
  BY <1>4 DEF Recursion
<1>6. QED BY <1>5

-----------------------------------------------------------------------------
(* The low bits of a number.                                                *)
LEMMA LowRange ==
    ASSUME NEW w \in 0 .. W64, NEW x \in Int
    PROVE  /\ Low(w, x) \in 0 .. 2 ^ w - 1
           /\ Low(w, x) \in Int
           /\ Low(w, x) \in Word
<1>1. 2 ^ w \in Nat \ {0}
  BY Power
<1>2. Low(w, x) \in 0 .. 2 ^ w - 1
  BY <1>1, ModRange DEF Low
<1>3. PICK k \in Nat \ {0} : 2 ^ W64 = 2 ^ w * k
  BY Power
<1>4. 2 ^ w <= 2 ^ w * k
  BY <1>1
<1>5. QED BY <1>1, <1>2, <1>3, <1>4, Power DEF Word

(* Numbers that differ by a multiple of 2^w have the same low w bits.       *)
LEMMA LowSame ==
    ASSUME NEW w \in 0 .. W64, NEW x \in Int, NEW y \in Int
    PROVE  Low(w, x) = Low(w, y) <=> \E k \in Int : x = y + 2 ^ w * k
<1>1. 2 ^ w \in Nat \ {0}
  BY Power
<1>2. QED BY <1>1, ModCongruent DEF Low

(* A number of w bits is its own low part.                                  *)
LEMMA LowId ==
    ASSUME NEW w \in 0 .. W64, NEW x \in 0 .. 2 ^ w - 1
    PROVE  Low(w, x) = x
<1>1. 2 ^ w \in Nat \ {0}
  BY Power
<1>2. x = 2 ^ w * 0 + x /\ x \in Int
  BY <1>1
<1>3. QED BY <1>1, <1>2, ModUnique DEF Low

(* Numbers that agree in some low bits agree in fewer.                      *)
LEMMA LowFewer ==
    ASSUME NEW w \in 0 .. W64, NEW v \in 0 .. w, NEW x \in Int, NEW y \in Int,
           Low(w, x) = Low(w, y)
    PROVE  Low(v, x) = Low(v, y)
<1>1. v \in 0 .. W64 /\ v <= w
  BY Power
<1>2. PICK j \in Nat \ {0} : 2 ^ w = 2 ^ v * j
  BY <1>1, Power
<1>3. PICK k \in Int : x = y + 2 ^ w * k
  BY LowSame
<1>4. 2 ^ v \in Nat
  BY <1>1, Power
<1>5. x = y + 2 ^ v * (j * k) /\ j * k \in Int
  BY <1>2, <1>3, <1>4
<1>6. QED BY <1>1, <1>5, LowSame

(* Low bits of low bits.                                                    *)
LEMMA LowOfLow ==
    ASSUME NEW w \in 0 .. W64, NEW v \in 0 .. w, NEW x \in Int
    PROVE  Low(v, Low(w, x)) = Low(v, x)
<1>1. Low(w, x) \in 0 .. 2 ^ w - 1 /\ Low(w, x) \in Int
  BY LowRange
<1>2. Low(w, Low(w, x)) = Low(w, x)
  BY <1>1, LowId
<1>3. QED BY <1>1, <1>2, LowFewer

(* Sums, differences and products depend on the low bits only.              *)
LEMMA LowArithmetic ==
    ASSUME NEW w \in 0 .. W64, NEW a \in Int, NEW b \in Int, NEW c \in Int, NEW d \in Int,
           Low(w, a) = Low(w, c), Low(w, b) = Low(w, d)
    PROVE  /\ Low(w, a + b) = Low(w, c + d)
           /\ Low(w, a - b) = Low(w, c - d)
           /\ Low(w, a * b) = Low(w, c * d)
<1>1. PICK j \in Int : a = c + 2 ^ w * j
  BY LowSame
<1>2. PICK k \in Int : b = d + 2 ^ w * k
  BY LowSame
<1> DEFINE m == 2 ^ w
<1>3. m \in Int
  BY Power
<1> HIDE DEF m
<1>4. a = c + m * j /\ b = d + m * k
  BY <1>1, <1>2 DEF m
<1>5. a + b = (c + d) + m * (j + k) /\ j + k \in Int
  BY <1>3, <1>4
<1>6. a - b = (c - d) + m * (j - k) /\ j - k \in Int
  BY <1>3, <1>4
<1>7. a * b = c * d + m * (c * k + j * d + j * (m * k)) /\ c * k + j * d + j * (m * k) \in Int
  BY <1>3, <1>4
<1>8. a + b \in Int /\ c + d \in Int /\ a - b \in Int /\ c - d \in Int
      /\ a * b \in Int /\ c * d \in Int
  OBVIOUS
<1>9. Low(w, a + b) = Low(w, c + d)
  BY <1>5, <1>8, LowSame DEF m
<1>10. Low(w, a - b) = Low(w, c - d)
  BY <1>6, <1>8, LowSame DEF m
<1>11. Low(w, a * b) = Low(w, c * d)
  <2> DEFINE x == a * b
             y == c * d
             i == c * k + j * d + j * (m * k)
  <2>1. x = y + m * i /\ i \in Int /\ x \in Int /\ y \in Int
    BY <1>7, <1>8
  <2> HIDE DEF x, y, i
  <2>2. Low(w, x) = Low(w, y)
    BY <2>1, LowSame DEF m
  <2>3. QED BY <2>2 DEF x, y
<1>12. QED BY <1>9, <1>10, <1>11

(* Replacing the low bits of a word leaves a word.                          *)
LEMMA LowReplaced ==
    ASSUME NEW w \in 0 .. W64, NEW x \in Word, NEW v \in Int
    PROVE  /\ x - Low(w, x) + Low(w, v) \in Word
           /\ Low(w, x - Low(w, x) + Low(w, v)) = Low(w, v)
<1> DEFINE m == 2 ^ w
           q == x \div m
<1>1. m \in Nat \ {0} /\ x \in Int /\ 2 ^ W64 \in Nat
  BY Power DEF Word
<1>2. PICK k \in Nat \ {0} : 2 ^ W64 = m * k
  <2>1. \E k \in Nat \ {0} : 2 ^ W64 = 2 ^ w * k
    BY Power
  <2>2. QED BY <2>1
<1>3. x \in 0 .. m * k - 1
  BY <1>2 DEF Word
<1>4. Low(w, x) \in 0 .. m - 1 /\ q \in Int /\ x = m * q + Low(w, x)
  BY <1>1, ModRange DEF Low
<1>5. Low(w, v) \in 0 .. m - 1
  BY LowRange
<1> DEFINE s == Low(w, x)
           y == Low(w, v)
<1> HIDE DEF m, q, s, y
<1>6. x - s + y = m * q + y /\ s \in 0 .. m - 1 /\ y \in 0 .. m - 1 /\ x = m * q + s
  BY <1>1, <1>4, <1>5 DEF s, y
<1>7. q \in 0 .. k - 1
  <2>1. q >= 0
    <3> SUFFICES ASSUME q <= -1
                 PROVE  FALSE
      BY <1>4
    <3>1. m * q <= m * (-1)
      BY <1>1, <1>4
    <3>2. QED BY <1>1, <1>3, <1>4, <1>6, <3>1
  <2>2. q <= k - 1
    <3> SUFFICES ASSUME k <= q
                 PROVE  FALSE
      BY <1>4
    <3>1. m * k <= m * q
      BY <1>1, <1>4
    <3>2. QED BY <1>1, <1>3, <1>4, <1>6, <3>1
  <2>3. QED BY <1>4, <2>1, <2>2
<1>8. m * q <= m * (k - 1) /\ m * (k - 1) = m * k - m /\ m * q >= 0 /\ m * q \in Int
      /\ m * k \in Int
  BY <1>1, <1>7
<1>9. m * q + y \in 0 .. m * k - 1
  BY <1>1, <1>6, <1>8
<1>10. x - s + y \in Word
  BY <1>2, <1>6, <1>9 DEF Word
<1>11. x - s + y = y + 2 ^ w * q /\ y \in Int /\ x - s + y \in Int
  BY <1>1, <1>6, <1>8 DEF m
<1>12. Low(w, x - s + y) = Low(w, y)
  BY <1>4, <1>11, LowSame
<1>13. Low(w, y) = y
  BY <1>5, LowId DEF y, m
<1>14. QED BY <1>10, <1>12, <1>13 DEF s, y

(* A number and its signed reading have the same low bits, and one reading  *)
(* determines the other.                                                    *)
LEMMA SignedLow ==
    ASSUME NEW w \in 1 .. W64, NEW x \in Int
    PROVE  /\ ToSigned(w, x) \in Int
           /\ Low(w, ToSigned(w, x)) = Low(w, x)
           /\ ToSigned(w, Low(w, x)) = ToSigned(w, x)
           /\ Low(w, x) < 2 ^ (w - 1) => ToSigned(w, x) = Low(w, x)
<1>1. w \in 0 .. W64 /\ w - 1 \in 0 .. W64
  BY Power
<1>2. 2 ^ w \in Nat /\ 2 ^ (w - 1) \in Nat
  BY <1>1, Power
<1>3. Low(w, x) \in 0 .. 2 ^ w - 1 /\ Low(w, x) \in Int
  BY <1>1, LowRange
<1>4. Low(w, Low(w, x)) = Low(w, x)
  BY <1>1, <1>3, LowId
<1>5. ToSigned(w, x) \in Int
  BY <1>2, <1>3 DEF ToSigned
<1>6. Low(w, Low(w, x) - 2 ^ w) = Low(w, Low(w, x))
  <2>1. Low(w, x) - 2 ^ w = Low(w, x) + 2 ^ w * (-1) /\ Low(w, x) - 2 ^ w \in Int
    BY <1>2, <1>3
  <2>2. QED BY <1>1, <1>3, <2>1, LowSame
<1>7. Low(w, ToSigned(w, x)) = Low(w, x)
  BY <1>4, <1>6 DEF ToSigned
<1>8. ToSigned(w, Low(w, x)) = ToSigned(w, x)
  BY <1>4 DEF ToSigned
<1>9. Low(w, x) < 2 ^ (w - 1) => ToSigned(w, x) = Low(w, x)
  BY <1>2, <1>3 DEF ToSigned
<1>10. QED BY <1>5, <1>7, <1>8, <1>9

(* Signed readings are the same if the low bits are.                        *)
LEMMA SignedSame ==
    ASSUME NEW w \in 1 .. W64, NEW x \in Int, NEW y \in Int
    PROVE  Low(w, x) = Low(w, y) <=> ToSigned(w, x) = ToSigned(w, y)
<1>1. Low(w, x) = Low(w, y) => ToSigned(w, x) = ToSigned(w, y)
  BY DEF ToSigned
<1>2. ToSigned(w, x) = ToSigned(w, y) => Low(w, x) = Low(w, y)
  BY SignedLow
<1>3. QED BY <1>1, <1>2

-----------------------------------------------------------------------------
(* Bits: the next one of a number, and the ones of its low part.            *)
LEMMA BitRange ==
    ASSUME NEW k \in 0 .. W64, NEW x \in Int
    PROVE  Bit(k, x) \in 0 .. 1
<1>1. 2 ^ k \in Nat \ {0}
  BY Power
<1>2. x \div 2 ^ k \in Int
  BY <1>1, ModRange
<1>3. QED BY <1>2, ModRange DEF Bit

(* One more low bit: the bit, and the low bits below it.                    *)
LEMMA NextBit ==
    ASSUME NEW k \in 1 .. W64, NEW x \in Int
    PROVE  Low(k, x) = Low(k - 1, x) + 2 ^ (k - 1) * Bit(k - 1, x)
<1>1. k - 1 \in 0 .. W64 /\ k \in 0 .. W64
  BY Power
<1> DEFINE m == 2 ^ (k - 1)
           q == x \div m
           s == x % m
           i == q \div 2
           b == q % 2
<1>2. m \in Nat \ {0} /\ 2 ^ k = 2 * m
  BY <1>1, Power
<1> HIDE DEF m
<1>3. q \in Int /\ s \in 0 .. m - 1 /\ x = m * q + s
  BY <1>2, ModRange
<1> HIDE DEF q, s
<1>4. i \in Int /\ b \in 0 .. 1 /\ q = 2 * i + b
  <2>1. 2 \in Nat \ {0} /\ 2 - 1 = 1
    OBVIOUS
  <2>2. b \in 0 .. 2 - 1 /\ i \in Int /\ q = 2 * i + b
    BY <1>3, <2>1, ModRange
  <2>3. QED BY <2>1, <2>2
<1> HIDE DEF i, b
<1>5. x = (2 * m) * i + (m * b + s)
  BY <1>2, <1>3, <1>4
<1>6. m * b + s \in 0 .. (2 * m) - 1
  BY <1>2, <1>3, <1>4
<1>7. x % (2 * m) = m * b + s
  <2> DEFINE l == m * b + s
             j == 2 * m
  <2>1. j \in Nat \ {0} /\ l \in 0 .. j - 1 /\ x = j * i + l
    BY <1>2, <1>5, <1>6
  <2> HIDE DEF j, l
  <2>2. x % j = l
    BY <1>4, <2>1, ModUnique
  <2>3. QED BY <2>2 DEF j, l
<1>8. Low(k, x) = m * b + s
  BY <1>2, <1>7 DEF Low
<1>9. Low(k - 1, x) = s
  BY DEF Low, s, m
<1>10. Bit(k - 1, x) = b
  BY DEF Bit, b, q, m
<1>11. m * b \in Int /\ s \in Int
  BY <1>2, <1>3, <1>4
<1>12. QED BY <1>8, <1>9, <1>10, <1>11 DEF m

(* Numbers that agree in their low bits agree in each of them.              *)
LEMMA BitSame ==
    ASSUME NEW w \in 0 .. W64, NEW x \in Int, NEW y \in Int, Low(w, x) = Low(w, y),
           NEW k \in 0 .. w - 1
    PROVE  Bit(k, x) = Bit(k, y)
<1>1. k + 1 \in 1 .. W64 /\ k + 1 \in 0 .. w /\ k \in 0 .. w /\ k \in 0 .. W64 /\ (k + 1) - 1 = k
  BY Power
<1>2. Low(k, x) = Low(k, y) /\ Low(k + 1, x) = Low(k + 1, y)
  BY <1>1, LowFewer
<1>3. /\ Low(k + 1, x) = Low(k, x) + 2 ^ k * Bit(k, x)
      /\ Low(k + 1, y) = Low(k, y) + 2 ^ k * Bit(k, y)
  BY <1>1, NextBit
<1>4. Bit(k, x) \in 0 .. 1 /\ Bit(k, y) \in 0 .. 1
  BY <1>1, BitRange
<1>5. Low(k, x) \in Int /\ 2 ^ k \in Nat \ {0}
  BY <1>1, LowRange, Power
<1> DEFINE m == 2 ^ k
           a == Bit(k, x)
           b == Bit(k, y)
           l == Low(k, x)
<1>6. l + m * a = l + m * b
  BY <1>2, <1>3
<1>7. a \in 0 .. 1 /\ b \in 0 .. 1 /\ l \in Int /\ m \in Nat \ {0}
  BY <1>4, <1>5
<1> HIDE DEF m, a, b, l
<1>8. a = b
  BY <1>6, <1>7
<1>9. QED BY <1>8 DEF a, b

(* The bits of the complement.                                              *)
LEMMA BitOfComplement ==
    ASSUME NEW k \in 0 .. W64 - 1, NEW x \in Int
    PROVE  Bit(k, 2 ^ W64 - 1 - x) = 1 - Bit(k, x)
<1>1. k \in 0 .. W64 /\ k + 1 \in 1 .. W64 /\ k + 1 \in 0 .. W64 /\ k + 1 <= W64 /\ (k + 1) - 1 = k
      /\ W64 \in 0 .. W64
  BY Power
<1> DEFINE m == 2 ^ k
           q == x \div m
           s == x % m
           i == q \div 2
           b == q % 2
<1>2. m \in Nat \ {0} /\ 2 ^ (k + 1) = 2 * m
  BY <1>1, Power
<1>3. PICK j \in Nat \ {0} : 2 ^ W64 = 2 ^ (k + 1) * j
  BY <1>1, Power
<1>4. 2 ^ W64 = (2 * m) * j
  BY <1>2, <1>3
<1> HIDE DEF m
<1>5. q \in Int /\ s \in 0 .. m - 1 /\ x = m * q + s
  BY <1>2, ModRange
<1> HIDE DEF q, s
<1>6. i \in Int /\ b \in 0 .. 1 /\ q = 2 * i + b
  BY <1>5, ModRange
<1> HIDE DEF i, b
<1> DEFINE y == 2 ^ W64 - 1 - x
           d == 2 * (j - i - 1) + (1 - b)
<1>7. y = m * d + (m - 1 - s) /\ d \in Int /\ m - 1 - s \in 0 .. m - 1 /\ y \in Int
  BY <1>2, <1>4, <1>5, <1>6
<1>8. y \div m = d
  <2> HIDE DEF y, d
  <2>1. QED BY <1>2, <1>7, ModUnique
<1>9. d % 2 = 1 - b
  <2>1. j - i - 1 \in Int /\ 1 - b \in 0 .. 1
    BY <1>6
  <2> DEFINE e == j - i - 1
             c == 1 - b
  <2>2. d = 2 * e + c /\ e \in Int /\ c \in 0 .. 1
    BY <2>1
  <2> HIDE DEF e, c
  <2>3. d % 2 = c
    BY <1>7, <2>2, ModUnique
  <2>4. QED BY <2>3 DEF c
<1>10. Bit(k, y) = 1 - b
  <2> HIDE DEF y, d
  <2>1. QED BY <1>8, <1>9 DEF Bit, m
<1>11. Bit(k, x) = b
  BY DEF Bit, b, q, m
<1>12. QED BY <1>10, <1>11

-----------------------------------------------------------------------------
(* The bitwise operations.  Parts holds of the partial results of BitByBit. *)
BitFunctions == [(0 .. 1) \X (0 .. 1) -> 0 .. 1]
Parts(low, f, x, y) ==
    /\ low[0] = 0
    /\ \A k \in 1 .. W64 :
           low[k] = low[k - 1] + 2 ^ (k - 1) * f[<<Bit(k - 1, x), Bit(k - 1, y)>>]

(* The recursion in BitByBit, unfolded.                                     *)
LEMMA BitByBitParts ==
    ASSUME NEW f \in BitFunctions, NEW x \in Int, NEW y \in Int
    PROVE  \E low \in [0 .. W64 -> Int] :
               Parts(low, f, x, y) /\ BitByBit(f, x, y) = low[W64]
<1> DEFINE bit(k) == f[<<Bit(k - 1, x), Bit(k - 1, y)>>]
           Rec(h) == h = [k \in 0 .. W64 |->
                             IF k = 0 THEN 0
                             ELSE h[k - 1] + 2 ^ (k - 1) * f[<<Bit(k - 1, x), Bit(k - 1, y)>>]]
           low == CHOOSE h : Rec(h)
           next == [k \in 1 .. W64 |-> [s \in Int |-> s + 2 ^ (k - 1) * bit(k)]]
<1>1. ASSUME NEW k \in 1 .. W64
      PROVE  bit(k) \in Int /\ 2 ^ (k - 1) \in Int
  <2>1. k - 1 \in 0 .. W64
    BY Power
  <2>2. <<Bit(k - 1, x), Bit(k - 1, y)>> \in (0 .. 1) \X (0 .. 1)
    BY <2>1, BitRange
  <2>3. bit(k) \in 0 .. 1
    BY <2>2 DEF BitFunctions
  <2>4. QED BY <2>1, <2>3, Power
<1>2. next \in [1 .. W64 -> [Int -> Int]]
  <2> HIDE DEF bit
  <2>1. ASSUME NEW k \in 1 .. W64
        PROVE  [s \in Int |-> s + 2 ^ (k - 1) * bit(k)] \in [Int -> Int]
    BY <1>1
  <2>2. QED BY <2>1
<1>3. PICK g \in [0 .. W64 -> Int] : Recursion(g, W64, 0, next)
  <2> HIDE DEF next
  <2>1. 0 \in Int /\ W64 \in Nat
    BY Power
  <2>2. QED BY <1>2, <2>1, RecursionUpTo
<1>4. \A k \in 1 .. W64 : g[k] = g[k - 1] + 2 ^ (k - 1) * bit(k)
  <2> SUFFICES ASSUME NEW k \in 1 .. W64
               PROVE  g[k] = g[k - 1] + 2 ^ (k - 1) * bit(k)
    OBVIOUS
  <2> HIDE DEF bit
  <2>1. k - 1 \in 0 .. W64
    BY Power
  <2>2. g[k - 1] \in Int
    BY <2>1
  <2>3. QED BY <1>3, <2>2 DEF Recursion
<1>5. Rec(g)
  <2>1. g = [k \in 0 .. W64 |-> g[k]]
    OBVIOUS
  <2>2. \A k \in 0 .. W64 : g[k] = IF k = 0 THEN 0 ELSE g[k - 1] + 2 ^ (k - 1) * bit(k)
    <3> HIDE DEF bit
    <3>1. \A k \in 0 .. W64 : k = 0 \/ k \in 1 .. W64
      BY Power
    <3>2. QED BY <1>3, <1>4, <3>1 DEF Recursion
  <2>3. QED BY <2>1, <2>2
<1>6. BitByBit(f, x, y) = low[W64]
  BY Zenon DEF BitByBit
<1> HIDE DEF Rec
<1>7. Rec(low)
  BY <1>5
<1> HIDE DEF low
<1>8. low \in [0 .. W64 -> Int] /\ Parts(low, f, x, y)
  <2> DEFINE In(k) == low[k] = IF k = 0 THEN 0 ELSE low[k - 1] + 2 ^ (k - 1) * bit(k)
  <2>1. low = [k \in 0 .. W64 |-> low[k]] /\ \A k \in 0 .. W64 : In(k)
    BY <1>7 DEF Rec
  <2> HIDE DEF bit
  <2>2. low[0] = 0
    <3>1. 0 \in 0 .. W64
      BY Power
    <3>2. In(0)
      BY <2>1, <3>1
    <3>3. QED BY <3>2
  <2>3. ASSUME NEW k \in 1 .. W64
        PROVE  low[k] = low[k - 1] + 2 ^ (k - 1) * bit(k)
    <3>1. k \in 0 .. W64 /\ k # 0
      BY Power
    <3>2. In(k)
      BY <2>1, <3>1
    <3>3. QED BY <3>1, <3>2
  <2> DEFINE S == {k \in 0 .. W64 : low[k] \in Int}
  <2>4. 0 \in S
    BY <2>2, Power
  <2>5. ASSUME NEW k \in 1 .. W64, k - 1 \in S
        PROVE  k \in S
    BY <1>1, <2>3, <2>5
  <2>6. 0 .. W64 \subseteq S
    <3> HIDE DEF S
    <3>1. QED BY <2>4, <2>5, Power, UpTo
  <2>7. low \in [0 .. W64 -> Int]
    BY <2>1, <2>6
  <2>8. QED BY <2>2, <2>3, <2>7 DEF Parts, bit
<1>9. QED BY <1>6, <1>8

(* The low part of the result is made of the low bits.                      *)
LEMMA PartsLow ==
    ASSUME NEW f \in BitFunctions, NEW x \in Int, NEW y \in Int,
           NEW low \in [0 .. W64 -> Int], Parts(low, f, x, y)
    PROVE  \A k \in 0 .. W64 : /\ low[k] \in 0 .. 2 ^ k - 1
                               /\ Low(k, low[W64]) = low[k]
<1> DEFINE bit(k) == f[<<Bit(k - 1, x), Bit(k - 1, y)>>]
<1>1. ASSUME NEW k \in 1 .. W64
      PROVE  /\ bit(k) \in 0 .. 1
             /\ low[k] = low[k - 1] + 2 ^ (k - 1) * bit(k)
             /\ k - 1 \in 0 .. W64
             /\ 2 ^ (k - 1) \in Nat \ {0} /\ 2 ^ k = 2 * 2 ^ (k - 1)
  <2>1. k - 1 \in 0 .. W64
    BY Power
  <2>2. <<Bit(k - 1, x), Bit(k - 1, y)>> \in (0 .. 1) \X (0 .. 1)
    BY <2>1, BitRange
  <2>3. bit(k) \in 0 .. 1
    BY <2>2 DEF BitFunctions
  <2>4. QED BY <2>1, <2>3, Power DEF Parts
<1> HIDE DEF bit
<1>2. \A k \in 0 .. W64 : low[k] \in 0 .. 2 ^ k - 1
  <2> DEFINE S == {k \in 0 .. W64 : low[k] \in 0 .. 2 ^ k - 1}
  <2>1. 0 \in S
    BY Power DEF Parts
  <2>2. ASSUME NEW k \in 1 .. W64, k - 1 \in S
        PROVE  k \in S
    <3> DEFINE m == 2 ^ (k - 1)
               b == bit(k)
               l == low[k - 1]
    <3>1. l \in 0 .. m - 1 /\ m \in Nat \ {0} /\ b \in 0 .. 1 /\ 2 ^ k = 2 * m /\ low[k] = l + m * b
      BY <1>1, <2>2
    <3> HIDE DEF m, b, l
    <3>2. low[k] \in 0 .. 2 ^ k - 1
      BY <3>1
    <3>3. QED BY <3>2, Power
  <2>3. 0 .. W64 \subseteq S
    <3> HIDE DEF S
    <3>1. QED BY <2>1, <2>2, Power, UpTo
  <2>4. QED BY <2>3
<1>3. ASSUME NEW k \in 0 .. W64
      PROVE  Low(k, low[W64]) = low[k]
  <2> DEFINE S == {i \in 0 .. W64 : i < k \/ Low(k, low[i]) = low[k]}
  <2>1. 0 \in S
    <3>1. CASE k = 0
      <4>1. 0 \in 0 .. W64 /\ low[0] \in 0 .. 2 ^ 0 - 1
        BY <1>2, <3>1
      <4>2. QED BY <3>1, <4>1, LowId
    <3>2. CASE k # 0
      BY <3>2, Power
    <3>3. QED BY <3>1, <3>2
  <2>2. ASSUME NEW i \in 1 .. W64, i - 1 \in S
        PROVE  i \in S
    <3>1. CASE i < k
      BY <3>1, Power
    <3>2. CASE i = k
      <4>1. low[k] \in 0 .. 2 ^ k - 1
        BY <1>2
      <4>2. QED BY <3>2, <4>1, LowId
    <3>3. CASE i > k
      <4>1. i - 1 \in 0 .. W64 /\ k <= i - 1 /\ ~(i - 1 < k)
        BY <3>3, Power
      <4>2. Low(k, low[i - 1]) = low[k]
        BY <2>2, <4>1
      <4>3. PICK j \in Nat \ {0} : 2 ^ (i - 1) = 2 ^ k * j
        BY <4>1, Power
      <4> DEFINE m == 2 ^ k
                 b == bit(i)
                 l == low[i - 1]
                 h == low[i]
      <4>4. m \in Nat \ {0} /\ b \in Int /\ l \in Int /\ h \in Int /\ h = l + (m * j) * b
        BY <1>1, <4>1, <4>3, Power
      <4> HIDE DEF m, b, l, h
      <4>5. h = l + m * (j * b) /\ j * b \in Int
        BY <4>4
      <4>6. Low(k, h) = Low(k, l)
        <5> DEFINE e == j * b
        <5>1. h = l + 2 ^ k * e /\ e \in Int
          BY <4>5 DEF m
        <5> HIDE DEF e
        <5>2. QED BY <4>4, <5>1, LowSame
      <4>7. QED BY <4>2, <4>6, Power DEF h, l
    <3>4. QED BY <3>1, <3>2, <3>3, Power
  <2>3. 0 .. W64 \subseteq S
    <3> HIDE DEF S
    <3>1. QED BY <2>1, <2>2, Power, UpTo
  <2>4. W64 \in S /\ ~(W64 < k)
    BY <2>3, Power
  <2>5. QED BY <2>4
<1>4. QED BY <1>2, <1>3

(* A bitwise operation yields a word.                                       *)
LEMMA BitwiseRange ==
    ASSUME NEW f \in BitFunctions, NEW x \in Int, NEW y \in Int
    PROVE  BitByBit(f, x, y) \in Word /\ BitByBit(f, x, y) \in Int
<1>1. PICK low \in [0 .. W64 -> Int] : Parts(low, f, x, y) /\ BitByBit(f, x, y) = low[W64]
  BY BitByBitParts
<1>2. W64 \in 0 .. W64
  BY Power
<1>3. low[W64] \in 0 .. 2 ^ W64 - 1
  BY <1>1, <1>2, PartsLow
<1>4. QED BY <1>1, <1>2, <1>3 DEF Word

(* What BitByBit says of itself: bit k of the result is f of the bits k.    *)
LEMMA BitOfBitwise ==
    ASSUME NEW f \in BitFunctions, NEW x \in Int, NEW y \in Int, NEW k \in 0 .. W64 - 1
    PROVE  Bit(k, BitByBit(f, x, y)) = f[<<Bit(k, x), Bit(k, y)>>]
<1>1. PICK low \in [0 .. W64 -> Int] : Parts(low, f, x, y) /\ BitByBit(f, x, y) = low[W64]
  BY BitByBitParts
<1> DEFINE z == BitByBit(f, x, y)
           m == 2 ^ k
           a == Bit(k, z)
           b == f[<<Bit(k, x), Bit(k, y)>>]
           l == Low(k, z)
<1>2. z \in Int
  BY BitwiseRange
<1>3. k \in 0 .. W64 /\ k + 1 \in 1 .. W64 /\ k + 1 \in 0 .. W64 /\ (k + 1) - 1 = k
  BY Power
<1>4. Low(k + 1, z) = l + m * a
  BY <1>2, <1>3, NextBit
<1>5. Low(k + 1, z) = low[k + 1] /\ l = low[k]
  <2>1. \A i \in 0 .. W64 : Low(i, low[W64]) = low[i]
    BY <1>1, PartsLow
  <2>2. QED BY <1>1, <1>3, <2>1
<1>6. low[k + 1] = low[k] + m * b
  <2>1. low[k + 1] = low[(k + 1) - 1] + 2 ^ ((k + 1) - 1)
                         * f[<<Bit((k + 1) - 1, x), Bit((k + 1) - 1, y)>>]
    BY <1>1, <1>3 DEF Parts
  <2>2. QED BY <1>3, <2>1
<1>7. a \in 0 .. 1 /\ l \in Int /\ m \in Nat \ {0}
  BY <1>2, <1>3, BitRange, LowRange, Power
<1>8. b \in 0 .. 1
  <2>1. <<Bit(k, x), Bit(k, y)>> \in (0 .. 1) \X (0 .. 1)
    BY <1>3, BitRange
  <2>2. QED BY <2>1 DEF BitFunctions
<1>9. l + m * a = l + m * b
  BY <1>4, <1>5, <1>6
<1> HIDE DEF z, m, a, b, l
<1>10. a = b
  BY <1>7, <1>8, <1>9
<1>11. QED BY <1>10 DEF a, b, z

(* Numbers whose first bits are the same have the same low part.            *)
LEMMA SameBits ==
    ASSUME NEW w \in 0 .. W64, NEW x \in Int, NEW y \in Int,
           \A k \in 0 .. w - 1 : Bit(k, x) = Bit(k, y)
    PROVE  Low(w, x) = Low(w, y)
<1> DEFINE S == {k \in 0 .. w : Low(k, x) = Low(k, y)}
<1>1. 0 \in S
  <2>1. 2 ^ 0 = 1 /\ 0 \in 0 .. W64 /\ 0 \in 0 .. w
    BY Power
  <2>2. Low(0, x) \in 0 .. 2 ^ 0 - 1 /\ Low(0, y) \in 0 .. 2 ^ 0 - 1
    BY <2>1, LowRange
  <2>3. Low(0, x) = Low(0, y)
    BY <2>1, <2>2
  <2>4. QED BY <2>1, <2>3
<1>2. ASSUME NEW k \in 1 .. w, k - 1 \in S
      PROVE  k \in S
  <2>1. k \in 1 .. W64 /\ k \in 0 .. w /\ k - 1 \in 0 .. w - 1
    BY Power
  <2>2. /\ Low(k, x) = Low(k - 1, x) + 2 ^ (k - 1) * Bit(k - 1, x)
        /\ Low(k, y) = Low(k - 1, y) + 2 ^ (k - 1) * Bit(k - 1, y)
    BY <2>1, NextBit
  <2>3. Low(k - 1, x) = Low(k - 1, y) /\ Bit(k - 1, x) = Bit(k - 1, y)
    BY <1>2, <2>1
  <2>4. QED BY <2>1, <2>2, <2>3
<1>3. 0 .. w \subseteq S
  <2> HIDE DEF S
  <2>1. w \in Nat
    BY Power
  <2>2. QED BY <1>1, <1>2, <2>1, UpTo
<1>4. w \in S
  BY <1>3, Power
<1>5. QED BY <1>4

-----------------------------------------------------------------------------
(* Bitwise operations depend on the low bits only.                          *)
LEMMA LowBitwise ==
    ASSUME NEW f \in BitFunctions, NEW w \in 0 .. W64,
           NEW a \in Int, NEW b \in Int, NEW c \in Int, NEW d \in Int,
           Low(w, a) = Low(w, c), Low(w, b) = Low(w, d)
    PROVE  Low(w, BitByBit(f, a, b)) = Low(w, BitByBit(f, c, d))
<1>1. BitByBit(f, a, b) \in Int /\ BitByBit(f, c, d) \in Int
  BY BitwiseRange
<1>2. ASSUME NEW k \in 0 .. w - 1
      PROVE  Bit(k, BitByBit(f, a, b)) = Bit(k, BitByBit(f, c, d))
  <2>1. k \in 0 .. W64 - 1
    BY Power
  <2>2. Bit(k, a) = Bit(k, c) /\ Bit(k, b) = Bit(k, d)
    BY BitSame
  <2>3. /\ Bit(k, BitByBit(f, a, b)) = f[<<Bit(k, a), Bit(k, b)>>]
        /\ Bit(k, BitByBit(f, c, d)) = f[<<Bit(k, c), Bit(k, d)>>]
    BY <2>1, BitOfBitwise
  <2>4. QED BY <2>2, <2>3
<1>3. QED BY <1>1, <1>2, SameBits

(* And, or and exclusive or map bits to bits, whatever the order.           *)
LEMMA BitFunctionsTyped ==
    /\ AndBit \in BitFunctions /\ OrBit \in BitFunctions /\ XorBit \in BitFunctions
    /\ \A a, b \in 0 .. 1 : /\ AndBit[<<a, b>>] = a * b
                            /\ OrBit[<<a, b>>] = OrBit[<<b, a>>]
                            /\ XorBit[<<a, b>>] = XorBit[<<b, a>>]
    /\ \A a \in 0 .. 1 : XorBit[<<a, a>>] = 0
<1>1. \A a, b \in 0 .. 1 : a * b \in 0 .. 1 /\ a + b - a * b \in 0 .. 1 /\ (a + b) % 2 \in 0 .. 1
                           /\ a * b = b * a
  OBVIOUS
<1>2. \A p \in (0 .. 1) \X (0 .. 1) : p[1] \in 0 .. 1 /\ p[2] \in 0 .. 1
  OBVIOUS
<1>3. AndBit \in BitFunctions
  BY <1>1, <1>2 DEF AndBit, BitFunctions
<1>4. OrBit \in BitFunctions
  BY <1>1, <1>2 DEF OrBit, BitFunctions
<1>5. XorBit \in BitFunctions
  BY <1>1, <1>2 DEF XorBit, BitFunctions
<1>6. ASSUME NEW a \in 0 .. 1, NEW b \in 0 .. 1
      PROVE  /\ AndBit[<<a, b>>] = a * b
             /\ OrBit[<<a, b>>] = OrBit[<<b, a>>]
             /\ XorBit[<<a, b>>] = XorBit[<<b, a>>]
             /\ XorBit[<<a, a>>] = 0
  <2>1. <<a, b>> \in (0 .. 1) \X (0 .. 1) /\ <<b, a>> \in (0 .. 1) \X (0 .. 1)
        /\ <<a, a>> \in (0 .. 1) \X (0 .. 1)
    OBVIOUS
  <2>2. AndBit[<<a, b>>] = a * b
    BY <2>1 DEF AndBit
  <2>3. OrBit[<<a, b>>] = OrBit[<<b, a>>]
    BY <2>1 DEF OrBit
  <2>4. XorBit[<<a, b>>] = XorBit[<<b, a>>]
    BY <2>1 DEF XorBit
  <2>5. XorBit[<<a, a>>] = (a + a) % 2 /\ (a + a) % 2 = 0
    BY <2>1 DEF XorBit
  <2>6. QED BY <2>2, <2>3, <2>4, <2>5
<1>7. QED BY <1>3, <1>4, <1>5, <1>6

(* The same of the operations by their names, and that they commute.        *)
LEMMA LowLogic ==
    ASSUME NEW w \in 0 .. W64, NEW a \in Int, NEW b \in Int, NEW c \in Int, NEW d \in Int,
           Low(w, a) = Low(w, c), Low(w, b) = Low(w, d)
    PROVE  /\ Low(w, BitAnd(a, b)) = Low(w, BitAnd(c, d))
           /\ Low(w, BitOr(a, b)) = Low(w, BitOr(c, d))
           /\ Low(w, BitXor(a, b)) = Low(w, BitXor(c, d))
BY LowBitwise, BitFunctionsTyped DEF BitAnd, BitOr, BitXor

(* The bitwise operations yield words.                                      *)
LEMMA LogicRange ==
    ASSUME NEW x \in Int, NEW y \in Int
    PROVE  /\ BitAnd(x, y) \in Word /\ BitAnd(x, y) \in Int
           /\ BitOr(x, y) \in Word /\ BitOr(x, y) \in Int
           /\ BitXor(x, y) \in Word /\ BitXor(x, y) \in Int
BY BitwiseRange, BitFunctionsTyped DEF BitAnd, BitOr, BitXor

(* The bitwise operations commute.                                          *)
LEMMA LogicCommutes ==
    ASSUME NEW w \in 0 .. W64, NEW x \in Int, NEW y \in Int
    PROVE  /\ Low(w, BitAnd(x, y)) = Low(w, BitAnd(y, x))
           /\ Low(w, BitOr(x, y)) = Low(w, BitOr(y, x))
           /\ Low(w, BitXor(x, y)) = Low(w, BitXor(y, x))
<1>1. ASSUME NEW f \in BitFunctions, \A a, b \in 0 .. 1 : f[<<a, b>>] = f[<<b, a>>]
      PROVE  Low(w, BitByBit(f, x, y)) = Low(w, BitByBit(f, y, x))
  <2>1. BitByBit(f, x, y) \in Int /\ BitByBit(f, y, x) \in Int
    BY BitwiseRange
  <2>2. ASSUME NEW k \in 0 .. w - 1
        PROVE  Bit(k, BitByBit(f, x, y)) = Bit(k, BitByBit(f, y, x))
    <3>1. k \in 0 .. W64 - 1 /\ k \in 0 .. W64
      BY Power
    <3>2. Bit(k, x) \in 0 .. 1 /\ Bit(k, y) \in 0 .. 1
      BY <3>1, BitRange
    <3>3. /\ Bit(k, BitByBit(f, x, y)) = f[<<Bit(k, x), Bit(k, y)>>]
          /\ Bit(k, BitByBit(f, y, x)) = f[<<Bit(k, y), Bit(k, x)>>]
      BY <3>1, BitOfBitwise
    <3>4. QED BY <1>1, <3>2, <3>3
  <2>3. QED BY <2>1, <2>2, SameBits
<1>2. \A a, b \in 0 .. 1 : AndBit[<<a, b>>] = AndBit[<<b, a>>]
  BY BitFunctionsTyped
<1>3. QED BY <1>1, <1>2, BitFunctionsTyped DEF BitAnd, BitOr, BitXor

(* All ones are neutral; a number cancels itself, and its complement.       *)
LEMMA LogicConstants ==
    ASSUME NEW w \in 0 .. W64, NEW x \in Int
    PROVE  /\ Low(w, BitAnd(x, 2 ^ W64 - 1)) = Low(w, x)
           /\ Low(w, BitXor(x, x)) = 0
           /\ Low(w, BitAnd(2 ^ W64 - 1 - x, x)) = 0
<1> DEFINE ones == 2 ^ W64 - 1
<1>1. ones \in Int /\ ones - x \in Int /\ ones - 0 = ones /\ 0 \in Int
  BY Power
<1>2. Low(w, 0) = 0
  <2>1. 2 ^ w \in Nat \ {0}
    BY Power
  <2>2. 0 \in 0 .. 2 ^ w - 1
    BY <2>1
  <2>3. QED BY <2>2, LowId
<1>3. ASSUME NEW k \in 0 .. W64 - 1
      PROVE  /\ Bit(k, 0) = 0 /\ Bit(k, x) \in 0 .. 1
             /\ Bit(k, ones) = 1 /\ Bit(k, ones - x) = 1 - Bit(k, x)
  <2>1. k \in 0 .. W64
    BY Power
  <2>2. Bit(k, 0) = 0
    <3>1. 2 ^ k \in Nat \ {0}
      BY <2>1, Power
    <3>2. 0 \div 2 ^ k = 0
      <4> DEFINE m == 2 ^ k
      <4>1. 0 = m * 0 + 0 /\ 0 \in 0 .. m - 1 /\ m \in Nat \ {0}
        BY <3>1
      <4> HIDE DEF m
      <4>2. 0 \div m = 0
        BY <4>1, ModUnique
      <4>3. QED BY <4>2 DEF m
    <3>3. 0 % 2 = 0
      OBVIOUS
    <3>4. QED BY <3>2, <3>3 DEF Bit
  <2>3. Bit(k, ones - 0) = 1 - Bit(k, 0) /\ Bit(k, ones - x) = 1 - Bit(k, x)
    BY <1>1, BitOfComplement
  <2>4. QED BY <1>1, <2>1, <2>2, <2>3, BitRange
<1> HIDE DEF ones
<1>4. /\ BitByBit(AndBit, x, ones) \in Int
      /\ BitByBit(XorBit, x, x) \in Int
      /\ BitByBit(AndBit, ones - x, x) \in Int
  BY <1>1, BitwiseRange, BitFunctionsTyped
<1>5. ASSUME NEW k \in 0 .. w - 1
      PROVE  /\ Bit(k, BitByBit(AndBit, x, ones)) = Bit(k, x)
             /\ Bit(k, BitByBit(XorBit, x, x)) = Bit(k, 0)
             /\ Bit(k, BitByBit(AndBit, ones - x, x)) = Bit(k, 0)
  <2>1. k \in 0 .. W64 - 1
    BY Power
  <2>2. /\ Bit(k, BitByBit(AndBit, x, ones)) = AndBit[<<Bit(k, x), Bit(k, ones)>>]
        /\ Bit(k, BitByBit(XorBit, x, x)) = XorBit[<<Bit(k, x), Bit(k, x)>>]
        /\ Bit(k, BitByBit(AndBit, ones - x, x)) = AndBit[<<Bit(k, ones - x), Bit(k, x)>>]
    BY <1>1, <2>1, BitOfBitwise, BitFunctionsTyped
  <2>3. /\ Bit(k, x) \in 0 .. 1 /\ Bit(k, ones) = 1 /\ Bit(k, 0) = 0
        /\ Bit(k, ones - x) = 1 - Bit(k, x) /\ Bit(k, ones - x) \in 0 .. 1
    BY <1>3, <2>1
  <2>4. /\ AndBit[<<Bit(k, x), 1>>] = Bit(k, x) * 1
        /\ XorBit[<<Bit(k, x), Bit(k, x)>>] = 0
        /\ AndBit[<<Bit(k, ones - x), Bit(k, x)>>] = Bit(k, ones - x) * Bit(k, x)
    BY <2>3, BitFunctionsTyped
  <2>5. \A b \in 0 .. 1 : b * 1 = b /\ (1 - b) * b = 0
    OBVIOUS
  <2>6. QED BY <2>2, <2>3, <2>4, <2>5
<1>6. /\ Low(w, BitByBit(AndBit, x, ones)) = Low(w, x)
      /\ Low(w, BitByBit(XorBit, x, x)) = Low(w, 0)
      /\ Low(w, BitByBit(AndBit, ones - x, x)) = Low(w, 0)
  BY <1>1, <1>4, <1>5, SameBits
<1>7. QED BY <1>2, <1>6 DEF ones, BitAnd, BitXor
=============================================================================
