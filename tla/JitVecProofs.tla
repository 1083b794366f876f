--------------------------- MODULE JitVecProofs -----------------------------
(***************************************************************************)
(* Proofs about the vector instructions run by emulator and native code:   *)
(* what the loops of the emulator compute is what the native code does, and*)
(* the comparison by which the tests decide sees every difference.         *)
(***************************************************************************)
EXTENDS EmitVecProofs

-----------------------------------------------------------------------------
(* The emulator.  The field of a number that a type reads.                  *)
LEMMA FieldLow ==
    ASSUME NEW t \in IntTypes, NEW x \in Int
    PROVE  /\ Field(t, x) \in Int
           /\ Low(Width(t), Field(t, x)) = Low(Width(t), x)
<1>1. Width(t) \in 1 .. W64 /\ Width(t) \in 0 .. W64 /\ Width(t) \in 0 .. Width(t)
  BY WidthsInRange
<1>2. Low(Width(t), x) \in Int /\ Low(Width(t), Low(Width(t), x)) = Low(Width(t), x)
  BY <1>1, LowRange, LowOfLow
<1>3. ToSigned(Width(t), x) \in Int /\ Low(Width(t), ToSigned(Width(t), x)) = Low(Width(t), x)
  BY <1>1, SignedLow
<1>4. QED BY <1>2, <1>3 DEF Field

(* The unsigned and the signed type of the width of a type.                 *)
LEMMA TypesOfWidth ==
    \A t \in IntTypes : /\ Unsigned(t) \in UnsignedTypes /\ Unsigned(t) \in IntTypes
                        /\ SignedOf(t) \in SignedTypes /\ SignedOf(t) \in IntTypes
                        /\ SignedOf(t) \notin UnsignedTypes
                        /\ Width(Unsigned(t)) = Width(t) /\ Width(SignedOf(t)) = Width(t)
<1> SUFFICES ASSUME NEW t \in IntTypes
             PROVE  /\ Unsigned(t) \in UnsignedTypes /\ Unsigned(t) \in IntTypes
                    /\ SignedOf(t) \in SignedTypes /\ SignedOf(t) \in IntTypes
                    /\ SignedOf(t) \notin UnsignedTypes
                    /\ Width(Unsigned(t)) = Width(t) /\ Width(SignedOf(t)) = Width(t)
  OBVIOUS
<1>1. CASE t \in {"UINT8", "INT8"}
  BY <1>1 DEF IntTypes, UnsignedTypes, SignedTypes, Unsigned, SignedOf, Width
<1>2. CASE t \in {"UINT16", "INT16"}
  BY <1>2 DEF IntTypes, UnsignedTypes, SignedTypes, Unsigned, SignedOf, Width
<1>3. CASE t \in {"UINT32", "INT32"}
  BY <1>3 DEF IntTypes, UnsignedTypes, SignedTypes, Unsigned, SignedOf, Width
<1>4. CASE t \in {"UINT64", "INT64"}
  BY <1>4 DEF IntTypes, UnsignedTypes, SignedTypes, Unsigned, SignedOf, Width
<1>5. QED BY <1>1, <1>2, <1>3, <1>4 DEF IntTypes, UnsignedTypes, SignedTypes

(* The lane that a loop of the emulator reads: a number whose low bits are  *)
(* the lane.                                                                *)
LEMMA LaneFieldLow ==
    ASSUME NEW t \in IntTypes, NEW x \in Vector, NEW k \in LaneIndex(Width(t))
    PROVE  /\ Width(t) \in Widths
           /\ LaneField(t, x, k) \in Int
           /\ Low(Width(t), LaneField(t, x, k)) = Lane(Width(t), x, k)
           /\ Lane(Width(t), x, k) \in Values(Width(t))
           /\ t \in UnsignedTypes => LaneField(t, x, k) = Lane(Width(t), x, k)
<1> DEFINE w == Width(t)
           y == Lane(w, x, k)
<1>1. w \in Widths /\ w \in 0 .. W64
  BY WidthsInRange, WidthFacts
<1>2. y \in Values(w) /\ y \in Int
  <2> HIDE DEF w
  <2>1. QED BY <1>1, LaneRange DEF w
<1>3. Low(w, y) = y
  <2> HIDE DEF w, y
  <2>1. QED BY <1>1, <1>2, LowId DEF Values
<1>4. LaneField(t, x, k) = Field(t, y)
  BY DEF LaneField
<1>5. Field(t, y) \in Int /\ Low(w, Field(t, y)) = Low(w, y)
  <2> HIDE DEF y
  <2>1. QED BY <1>2, FieldLow DEF w
<1>6. t \in UnsignedTypes => Field(t, y) = Low(w, y)
  BY DEF Field
<1>7. QED BY <1>1, <1>2, <1>3, <1>4, <1>5, <1>6

(* The vector registers v1 with z in d.                                     *)
Put(v1, d, z) == [v1 EXCEPT ![d] = z]

(* A loop puts into the destination the vector of the low bits of what it   *)
(* computes for the lanes.                                                  *)
LEMMA LoopLanes ==
    ASSUME NEW t \in IntTypes, NEW v1, NEW d, NEW val,
           \A k \in LaneIndex(Width(t)) : val[k] \in Int
    PROVE  \E z \in Vector : /\ Loop(v1, t, d, val) = Put(v1, d, z)
                             /\ \A k \in LaneIndex(Width(t)) :
                                    Lane(Width(t), z, k) = Low(Width(t), val[k])
<1> DEFINE w == Width(t)
           L == [k \in LaneIndex(w) |-> Low(w, val[k])]
<1>1. w \in Widths /\ w \in 0 .. W64
  BY WidthsInRange, WidthFacts
<1>2. \A k \in LaneIndex(w) : L[k] \in Values(w)
  BY <1>1, LowRange DEF Values
<1>3. Pack(w, L) \in Vector /\ \A k \in LaneIndex(w) : Lane(w, Pack(w, L), k) = L[k]
  <2> HIDE DEF w, L
  <2>1. QED BY <1>1, <1>2, PackLanes
<1>4. Loop(v1, t, d, val) = Put(v1, d, Pack(w, L))
  BY DEF Loop, Lanes, Put
<1>5. QED BY <1>3, <1>4

(* It is the vector with those lanes.                                       *)
LEMMA LoopSame ==
    ASSUME NEW t \in IntTypes, NEW v1, NEW d, NEW val, NEW z \in Vector,
           \A k \in LaneIndex(Width(t)) : /\ val[k] \in Int
                                          /\ Lane(Width(t), z, k) = Low(Width(t), val[k])
    PROVE  Loop(v1, t, d, val) = Put(v1, d, z)
<1>1. PICK y \in Vector : /\ Loop(v1, t, d, val) = Put(v1, d, y)
                          /\ \A k \in LaneIndex(Width(t)) :
                                 Lane(Width(t), y, k) = Low(Width(t), val[k])
  BY LoopLanes
<1>2. Width(t) \in Widths
  BY WidthsInRange
<1>3. y = z
  BY <1>1, <1>2, SameLanes
<1>4. QED BY <1>1, <1>3

-----------------------------------------------------------------------------
(* What the loops compute for a lane is, in the low bits, what the          *)
(* processor computes for it.  u and v are what the emulator reads for      *)
(* lanes x and y.                                                           *)

(* The product by halves is the product.                                    *)
LEMMA ProductByHalves ==
    ASSUME NEW x \in Word, NEW y \in Word
    PROVE  MulLow(W64, x, y) = Low(W64, x * y)
<1> DEFINE h == 2 ^ W32
           a == x \div h
           b == x % h
           c == y \div h
           e == y % h
           s == (a * e + b * c) % h
           q == (a * e + b * c) \div h
<1>1. W64 \div 2 = W32
  BY WidthFacts
<1>2. h \in Nat \ {0} /\ 2 ^ W64 = h * h /\ x \in Int /\ y \in Int
  BY HalvesOfWord
<1>3. a \in Int /\ b \in Int /\ c \in Int /\ e \in Int /\ x = h * a + b /\ y = h * c + e
  BY HalvesOfWord DEF Low
<1>4. MulLow(W64, x, y) = Low(W64, b * e + h * s)
  BY <1>1 DEF MulLow
<1> HIDE DEF h, a, b, c, e
<1>5. q \in Int /\ s \in Int /\ a * e + b * c = h * q + s
  <2>1. a * e + b * c \in Int
    BY <1>3
  <2> DEFINE o == a * e + b * c
  <2> HIDE DEF o
  <2>2. o \in Int
    BY <2>1 DEF o
  <2>3. h \in Nat \ {0}
    BY <1>2
  <2>4. /\ o % h \in 0 .. h - 1
        /\ o \div h \in Int
        /\ o = h * (o \div h) + (o % h)
    BY <2>2, <2>3, ModRange
  <2>5. QED BY <2>3, <2>4 DEF o
<1> HIDE DEF q, s
<1>6. x * y = (b * e + h * s) + (h * h) * (a * c + q)
  <2>1. x * y = (h * h) * (a * c) + h * (a * e + b * c) + b * e
    BY <1>2, <1>3
  <2>2. h * (a * e + b * c) = (h * h) * q + h * s
    BY <1>2, <1>5
  <2>3. QED BY <1>2, <1>3, <1>5, <2>1, <2>2
<1> DEFINE i == b * e + h * s
           j == a * c + q
           o == x * y
<1>7. i \in Int /\ j \in Int /\ o \in Int
  BY <1>2, <1>3, <1>5
<1>8. o = i + 2 ^ W64 * j
  BY <1>2, <1>6
<1> HIDE DEF i, j, o
<1>9. Low(W64, o) = Low(W64, i)
  <2>1. W64 \in 0 .. W64
    BY WidthFacts
  <2>2. QED BY <1>7, <1>8, <2>1, LowSame
<1>10. QED BY <1>4, <1>9 DEF i, o

(* Sums, differences, products and negation.                                *)
LEMMA LaneArithmetic ==
    ASSUME NEW w \in Widths, NEW u \in Int, NEW u1 \in Int, NEW x \in Int, NEW y \in Int,
           Low(w, u) = Low(w, x), Low(w, u1) = Low(w, y)
    PROVE  /\ Low(w, vop_("add", u, u1)) = Low(w, x + y)
           /\ Low(w, vop_("sub", u, u1)) = Low(w, x - y)
           /\ Low(w, vop_("mul", u, u1)) = Low(w, x * y)
           /\ Low(w, vop1_("neg", u)) = Low(w, 0 - x)
           /\ Low(w, vop1_("nop", u)) = Low(w, x)
           /\ vop_("add", u, u1) \in Int /\ vop_("sub", u, u1) \in Int /\ vop_("mul", u, u1) \in Int
           /\ vop1_("neg", u) \in Int /\ vop1_("nop", u) \in Int
<1>1. w \in 0 .. W64 /\ w \in 0 .. W64 /\ W64 \in 0 .. W64
  BY WidthFacts
<1>2. /\ Low(w, u + u1) = Low(w, x + y)
      /\ Low(w, u - u1) = Low(w, x - y)
      /\ Low(w, u * u1) = Low(w, x * y)
  BY <1>1, LowArithmetic
<1>3. Low(w, 0 - u) = Low(w, 0 - x)
  <2> DEFINE zero == 0
  <2>1. zero \in Int /\ Low(w, zero) \in Int
    BY <1>1, LowRange
  <2> HIDE DEF zero
  <2>2. Low(w, zero - u) = Low(w, zero - x)
    BY <1>1, <2>1, LowArithmetic
  <2>3. QED BY <2>2 DEF zero
<1>4. Low(w, vop_("mul", u, u1)) = Low(w, x * y) /\ vop_("mul", u, u1) \in Int
  <2> DEFINE a == Low(W64, u)
             b == Low(W64, u1)
             c == a * b
  <2>1. a \in Word /\ b \in Word /\ a \in Int /\ b \in Int
        /\ Low(w, a) = Low(w, u) /\ Low(w, b) = Low(w, u1)
    BY <1>1, LowRange, LowOfLow
  <2>2. vop_("mul", u, u1) = MulLow(W64, a, b)
    BY DEF vop_
  <2> HIDE DEF a, b
  <2>3. MulLow(W64, a, b) = Low(W64, c) /\ c \in Int
    BY <2>1, ProductByHalves
  <2>4. Low(w, c) = Low(w, x * y)
    BY <1>1, <2>1, LowArithmetic
  <2> HIDE DEF c
  <2>5. Low(w, Low(W64, c)) = Low(w, c) /\ Low(W64, c) \in Int
    BY <1>1, <2>3, LowOfLow, LowRange
  <2>6. QED BY <2>2, <2>3, <2>4, <2>5
<1>5. /\ vop_("add", u, u1) = u + u1 /\ vop_("sub", u, u1) = u - u1
      /\ vop1_("neg", u) = 0 - u /\ vop1_("nop", u) = u
  BY DEF vop_, op_, vop1_, op_neg
<1>6. QED BY <1>2, <1>3, <1>4, <1>5

(* Exclusive or with all ones complements.                                  *)
LEMMA XorOnes ==
    ASSUME NEW w \in Widths, NEW u \in Int, NEW x \in Int, Low(w, u) = Low(w, x)
    PROVE  Low(w, BitXor(x, 2 ^ w - 1)) = Low(w, 2 ^ W64 - 1 - u)
<1> DEFINE e == 2 ^ w - 1
           f == 2 ^ W64 - 1
           y == BitXor(x, e)
           zero == 0
<1>1. w \in 0 .. W64 /\ 2 ^ w \in Nat \ {0} /\ 2 ^ W64 \in Nat \ {0} /\ W64 \in Nat /\ w \in Nat
  BY WidthFacts, Power
<1>2. e \in Int /\ f \in Int /\ f - u \in Int /\ zero \in Int /\ f - zero \in Int
  BY <1>1
<1>3. XorBit \in BitFunctions /\ y \in Int
  <2> HIDE DEF e
  <2>1. QED BY <1>2, BitFunctionsTyped, BitwiseRange DEF BitXor
<1>4. Low(w, e) = Low(w, f - zero)
  <2>1. PICK k \in Nat \ {0} : 2 ^ W64 = 2 ^ w * k
    BY <1>1, Power
  <2>2. f - zero = e + 2 ^ w * (k - 1) /\ k - 1 \in Int
    BY <1>1, <2>1
  <2> HIDE DEF e, f
  <2>3. QED BY <1>1, <1>2, <2>2, LowSame
<1>5. ASSUME NEW k \in 0 .. w - 1
      PROVE  Bit(k, y) = Bit(k, f - u)
  <2>1. k \in 0 .. W64 - 1 /\ k \in 0 .. W64
    BY <1>1
  <2>2. Bit(k, y) = XorBit[<< Bit(k, x), Bit(k, e) >>]
    <3> HIDE DEF e
    <3>1. QED BY <1>2, <1>3, <2>1, BitOfBitwise DEF BitXor
  <2>3. Bit(k, e) = Bit(k, f - zero)
    <3> HIDE DEF e, f
    <3>1. QED BY <1>1, <1>2, <1>4, BitSame
  <2>4. Bit(k, f - zero) = 1 - Bit(k, zero)
    BY <1>2, <2>1, BitOfComplement
  <2>5. Bit(k, zero) = 0
    <3>1. 2 ^ k \in Nat \ {0}
      BY <2>1, Power
    <3> DEFINE n == 2 ^ k
    <3> HIDE DEF n
    <3>2. n \in Nat \ {0}
      BY <3>1 DEF n
    <3>3. (0 \div n) % 2 = 0
      BY <3>2
    <3>4. QED BY <3>3 DEF n, Bit
  <2>6. Bit(k, f - u) = 1 - Bit(k, u)
    BY <2>1, BitOfComplement
  <2>7. Bit(k, u) = Bit(k, x) /\ Bit(k, x) \in 0 .. 1
    BY <1>1, <2>1, BitSame, BitRange
  <2> HIDE DEF y, e, f
  <2> DEFINE o == Bit(k, x)
  <2>8. XorBit[<< o, 1 >>] = 1 - o
    <3>1. o \in 0 .. 1
      BY <2>7
    <3> HIDE DEF o
    <3>2. << o, 1 >> \in (0 .. 1) \X (0 .. 1)
      BY <3>1
    <3>3. XorBit[<< o, 1 >>] = (o + 1) % 2
      BY <3>2 DEF XorBit
    <3>4. (o + 1) % 2 = 1 - o
      BY <3>1
    <3>5. QED BY <3>3, <3>4
  <2>9. Bit(k, e) = 1
    BY <2>3, <2>4, <2>5
  <2>10. QED BY <2>2, <2>6, <2>7, <2>8, <2>9
<1>6. Low(w, y) = Low(w, f - u)
  <2> HIDE DEF y, e, f
  <2>1. QED BY <1>1, <1>2, <1>3, <1>5, SameBits
<1>7. QED BY <1>6

(* Bitwise operations.                                                      *)
LEMMA LaneLogic ==
    ASSUME NEW w \in Widths, NEW u \in Int, NEW u1 \in Int, NEW x \in Int, NEW y \in Int,
           Low(w, u) = Low(w, x), Low(w, u1) = Low(w, y)
    PROVE  /\ Low(w, vop_("band", u, u1)) = Low(w, BitAnd(x, y))
           /\ Low(w, vop_("bor", u, u1)) = Low(w, BitOr(x, y))
           /\ Low(w, vop_("bxor", u, u1)) = Low(w, BitXor(x, y))
           /\ Low(w, vop_("bandn", u, u1)) = Low(w, BitAnd(Low(w, BitXor(x, 2 ^ w - 1)), y))
           /\ Low(w, vop1_("bnot", u)) = Low(w, BitXor(x, 2 ^ w - 1))
           /\ vop_("band", u, u1) \in Int /\ vop_("bor", u, u1) \in Int /\ vop_("bxor", u, u1) \in Int
           /\ vop_("bandn", u, u1) \in Int /\ vop1_("bnot", u) \in Int
<1> DEFINE c == Low(W64, u)
           d == Low(W64, u1)
           n == 2 ^ W64 - 1 - c
           o == BitXor(x, 2 ^ w - 1)
           o1 == Low(w, o)
<1>1. w \in 0 .. W64 /\ W64 \in 0 .. W64 /\ w \in 0 .. w /\ 2 ^ W64 \in Int /\ 2 ^ w - 1 \in Int
  BY WidthFacts, Power
<1>2. c \in Int /\ d \in Int /\ Low(w, c) = Low(w, x) /\ Low(w, d) = Low(w, y)
  BY <1>1, LowRange, LowOfLow
<1> HIDE DEF c, d
<1>3. n \in Int /\ Low(w, n) = Low(w, o)
  BY <1>1, <1>2, XorOnes
<1>4. o \in Int /\ o1 \in Int /\ Low(w, o1) = Low(w, o)
  <2>1. o \in Int
    BY <1>1, BitFunctionsTyped, BitwiseRange DEF BitXor
  <2> HIDE DEF o
  <2>2. QED BY <1>1, <2>1, LowRange, LowOfLow
<1>5. /\ Low(w, BitAnd(c, d)) = Low(w, BitAnd(x, y))
      /\ Low(w, BitOr(c, d)) = Low(w, BitOr(x, y))
      /\ Low(w, BitXor(c, d)) = Low(w, BitXor(x, y))
  BY <1>1, <1>2, LowLogic
<1>6. vop_("band", u, u1) = BitAnd(c, d) /\ vop_("bor", u, u1) = BitOr(c, d)
      /\ vop_("bxor", u, u1) = BitXor(c, d) /\ vop_("bandn", u, u1) = BitAnd(n, d)
      /\ vop1_("bnot", u) = n
  BY DEF vop_, op_, vop1_, op_bnot, Bits, c, d
<1> HIDE DEF n, o, o1
<1>7. Low(w, BitAnd(n, d)) = Low(w, BitAnd(o1, y))
  <2>1. Low(w, n) = Low(w, o1)
    BY <1>3, <1>4
  <2>2. /\ Low(w, BitAnd(n, d)) = Low(w, BitAnd(o1, y))
        /\ Low(w, BitOr(n, d)) = Low(w, BitOr(o1, y))
        /\ Low(w, BitXor(n, d)) = Low(w, BitXor(o1, y))
    BY <1>1, <1>2, <1>3, <1>4, <2>1, LowLogic
  <2>3. QED BY <2>2
<1>8. BitAnd(c, d) \in Int /\ BitOr(c, d) \in Int /\ BitXor(c, d) \in Int /\ BitAnd(n, d) \in Int
  BY <1>2, <1>3, BitFunctionsTyped, BitwiseRange DEF BitAnd, BitOr, BitXor
<1>9. QED BY <1>3, <1>5, <1>6, <1>7, <1>8 DEF o, o1

-----------------------------------------------------------------------------
(* Comparisons.  A mask is the low bits of what the emulator writes for a   *)
(* truth value, and complementing it negates it.                            *)
Flipped(w, x) == Low(w, BitXor(x, 2 ^ w - 1))

(* The truth values of the emulator and of the processor.                   *)
LEMMA Masks01 ==
    ASSUME NEW w \in Widths
    PROVE  /\ Low(w, True(TRUE)) = Mask(w, TRUE) /\ Low(w, True(FALSE)) = Mask(w, FALSE)
           /\ True(TRUE) \in Int /\ True(FALSE) \in Int
           /\ Flipped(w, Mask(w, TRUE)) = Mask(w, FALSE)
           /\ Flipped(w, Mask(w, FALSE)) = Mask(w, TRUE)
<1> DEFINE e == 2 ^ w - 1
           f == 2 ^ W64 - 1
           zero == 0
           minus == -1
<1>1. w \in 0 .. W64 /\ 2 ^ w \in Nat \ {0} /\ 2 ^ W64 \in Nat \ {0}
  BY WidthFacts, Power
<1>2. Low(w, minus) = e /\ Low(w, zero) = zero
  <2> DEFINE n == 2 ^ w
  <2> HIDE DEF n
  <2>1. n \in Nat \ {0} /\ minus = n * (-1) + (n - 1) /\ n - 1 \in 0 .. n - 1 /\ minus \in Int
        /\ zero = n * 0 + zero /\ zero \in 0 .. n - 1 /\ zero \in Int
    BY <1>1 DEF n
  <2>2. minus % n = n - 1
    BY <2>1, ModUnique
  <2>3. zero % n = zero
    BY <2>1
  <2>4. QED BY <2>2, <2>3 DEF Low, n
<1>3. PICK k \in Nat \ {0} : 2 ^ W64 = 2 ^ w * k
  BY <1>1, Power
<1>4. /\ e \in Int /\ f \in Int /\ f - zero \in Int /\ f - e \in Int /\ minus \in Int /\ zero \in Int
      /\ f - zero = minus + 2 ^ w * k /\ k \in Int /\ k - 1 \in Int
      /\ f - e = zero + 2 ^ w * (k - 1)
  BY <1>1, <1>3
<1> HIDE DEF e, f, zero, minus
<1>5. Low(w, f - zero) = e /\ Low(w, f - e) = zero
  <2> DEFINE p == f - zero
             q == f - e
             j == k - 1
  <2>1. /\ p \in Int /\ q \in Int /\ minus \in Int /\ zero \in Int /\ k \in Int /\ j \in Int
        /\ p = minus + 2 ^ w * k /\ q = zero + 2 ^ w * j
    BY <1>4
  <2> HIDE DEF p, q, j
  <2>2. Low(w, p) = Low(w, minus) /\ Low(w, q) = Low(w, zero)
    BY <1>1, <2>1, LowSame
  <2>3. QED BY <1>2, <2>2 DEF p, q
<1>6. Low(w, BitXor(zero, e)) = Low(w, f - zero) /\ Low(w, BitXor(e, e)) = Low(w, f - e)
  <2>1. \A x \in Int : Low(w, BitXor(x, 2 ^ w - 1)) = Low(w, 2 ^ W64 - 1 - x)
    BY XorOnes
  <2>2. QED BY <1>4, <2>1 DEF e, f
<1>7. Mask(w, TRUE) = e /\ Mask(w, FALSE) = zero /\ True(TRUE) = minus /\ True(FALSE) = zero
  BY DEF Mask, True, e, zero, minus
<1>8. QED BY <1>2, <1>4, <1>5, <1>6, <1>7 DEF Flipped, e

(* A comparison of signed lanes.                                            *)
LEMMA LaneCompare ==
    ASSUME NEW w \in Widths, NEW x \in Values(w), NEW y \in Values(w), NEW u, NEW u1,
           u = ToSigned(w, x), u1 = ToSigned(w, y)
    PROVE  /\ Low(w, vop_("cmpeq", u, u1)) = LaneWise("pcmpeq", w, x, y)
           /\ Low(w, vop_("cmpne", u, u1)) = Flipped(w, LaneWise("pcmpeq", w, x, y))
           /\ Low(w, vop_("cmplt", u, u1)) = LaneWise("pcmpgt", w, y, x)
           /\ Low(w, vop_("cmple", u, u1)) = Flipped(w, LaneWise("pcmpgt", w, x, y))
           /\ Low(w, vop_("cmpgt", u, u1)) = LaneWise("pcmpgt", w, x, y)
           /\ Low(w, vop_("cmpge", u, u1)) = Flipped(w, LaneWise("pcmpgt", w, y, x))
<1>1. w \in 0 .. W64 /\ w \in 1 .. W64 /\ x \in Int /\ y \in Int
  BY WidthFacts DEF Values
<1>2. u \in Int /\ u1 \in Int
  BY <1>1, SignedLow
<1>3. x = y <=> u = u1
  <2>1. Low(w, x) = x /\ Low(w, y) = y
    BY <1>1, LowId DEF Values
  <2>2. QED BY <1>1, <2>1, SignedSame
<1>4. /\ vop_("cmpeq", u, u1) = True(u = u1) /\ vop_("cmpne", u, u1) = True(u # u1)
      /\ vop_("cmplt", u, u1) = True(u < u1) /\ vop_("cmple", u, u1) = True(u <= u1)
      /\ vop_("cmpgt", u, u1) = True(u > u1) /\ vop_("cmpge", u, u1) = True(u >= u1)
  BY DEF vop_, op_
<1>5. /\ LaneWise("pcmpeq", w, x, y) = Mask(w, x = y)
      /\ LaneWise("pcmpgt", w, x, y) = Mask(w, u > u1)
      /\ LaneWise("pcmpgt", w, y, x) = Mask(w, u1 > u)
  BY DEF LaneWise
<1> DEFINE on == Mask(w, TRUE)
           off == Mask(w, FALSE)
<1>6. /\ Low(w, True(TRUE)) = on /\ Low(w, True(FALSE)) = off
      /\ Flipped(w, on) = off /\ Flipped(w, off) = on
  BY Masks01
<1>7. /\ True(u = u1) = IF u = u1 THEN True(TRUE) ELSE True(FALSE)
      /\ True(u # u1) = IF u = u1 THEN True(FALSE) ELSE True(TRUE)
      /\ True(u < u1) = IF u < u1 THEN True(TRUE) ELSE True(FALSE)
      /\ True(u <= u1) = IF u <= u1 THEN True(TRUE) ELSE True(FALSE)
      /\ True(u > u1) = IF u > u1 THEN True(TRUE) ELSE True(FALSE)
      /\ True(u >= u1) = IF u >= u1 THEN True(TRUE) ELSE True(FALSE)
  BY DEF True
<1>8. /\ Mask(w, x = y) = IF x = y THEN on ELSE off
      /\ Mask(w, u > u1) = IF u > u1 THEN on ELSE off
      /\ Mask(w, u1 > u) = IF u1 > u THEN on ELSE off
  BY DEF Mask
<1> HIDE DEF on, off
<1>9. CASE u < u1
  <2>1. ~(u = u1) /\ u <= u1 /\ ~(u > u1) /\ ~(u >= u1) /\ u1 > u /\ x # y
    BY <1>2, <1>3, <1>9
  <2>2. QED BY <1>4, <1>5, <1>6, <1>7, <1>8, <1>9, <2>1
<1>10. CASE u = u1
  <2>1. ~(u < u1) /\ u <= u1 /\ ~(u > u1) /\ u >= u1 /\ ~(u1 > u) /\ x = y
    BY <1>2, <1>3, <1>10
  <2>2. QED BY <1>4, <1>5, <1>6, <1>7, <1>8, <1>10, <2>1
<1>11. CASE u > u1
  <2>1. ~(u = u1) /\ ~(u <= u1) /\ ~(u < u1) /\ u >= u1 /\ ~(u1 > u) /\ x # y
    BY <1>2, <1>3, <1>11
  <2>2. QED BY <1>4, <1>5, <1>6, <1>7, <1>8, <1>11, <2>1
<1>12. QED BY <1>2, <1>9, <1>10, <1>11

(* The lanes of a complement.                                               *)
LEMMA NotLanes ==
    ASSUME NEW w \in Widths, NEW a \in Vector
    PROVE  /\ Not(a) \in Vector
           /\ \A k \in LaneIndex(w) : Lane(w, Not(a), k) = Flipped(w, Lane(w, a, k))
<1>1. "pxor" \in Logic /\ Ones \in Vector
  BY ConstantLanes DEF Logic
<1>2. /\ ExecVector("pxor", W64, a, Ones) \in Vector
      /\ \A i \in LaneIndex(w) :
             Lane(w, ExecVector("pxor", W64, a, Ones), i)
             = Low(w, LaneWise("pxor", w, Lane(w, a, i), Lane(w, Ones, i)))
  BY <1>1, LogicLanes
<1>3. \A x, y : LaneWise("pxor", w, x, y) = BitXor(x, y)
  BY DEF LaneWise
<1>4. QED BY <1>2, <1>3, ConstantLanes DEF Not, Flipped

-----------------------------------------------------------------------------
(* The lanes of what an instruction computes of two vectors, and what the   *)
(* emulator computes of the numbers it reads for lanes x and y.             *)
BaseOps == {"add", "sub", "rsub", "mul", "band", "bandn", "bor", "bxor"} \cup CompareOps
LaneBoth(op, w, x, y) ==
    CASE op = "add"   -> Low(w, x + y)
      [] op = "sub"   -> Low(w, x - y)
      [] op = "rsub"  -> Low(w, y - x)
      [] op = "mul"   -> Low(w, x * y)
      [] op = "band"  -> Low(w, BitAnd(x, y))
      [] op = "bandn" -> Low(w, BitAnd(Flipped(w, x), y))
      [] op = "bor"   -> Low(w, BitOr(x, y))
      [] op = "bxor"  -> Low(w, BitXor(x, y))
      [] op = "cmpeq" -> LaneWise("pcmpeq", w, x, y)
      [] op = "cmpne" -> Flipped(w, LaneWise("pcmpeq", w, x, y))
      [] op = "cmplt" -> LaneWise("pcmpgt", w, y, x)
      [] op = "cmple" -> Flipped(w, LaneWise("pcmpgt", w, x, y))
      [] op = "cmpgt" -> LaneWise("pcmpgt", w, x, y)
      [] op = "cmpge" -> Flipped(w, LaneWise("pcmpgt", w, y, x))
EmuBoth(op, u, u1) == IF op = "rsub" THEN vop_("sub", u1, u) ELSE vop_(op, u, u1)
FromLanes(op, w, x, y, e) ==
    \E u, u1 \in Int : /\ Low(w, u) = x /\ Low(w, u1) = y
                       /\ op \in CompareOps => u = ToSigned(w, x) /\ u1 = ToSigned(w, y)
                       /\ e = EmuBoth(op, u, u1)

(* The lanes of a result that one operation makes of two vectors.           *)
LEMMA LanesOfBoth ==
    ASSUME NEW w \in Widths, NEW op \in BaseOps, NEW a \in Vector, NEW b \in Vector
    PROVE  /\ Both(op, w, a, b) \in Vector
           /\ \A k \in LaneIndex(w) : Lane(w, Both(op, w, a, b), k)
                                      = LaneBoth(op, w, Lane(w, a, k), Lane(w, b, k))
<1>1. \A e \in {"padd", "psub", "pmull", "pcmpeq", "pcmpgt"} : e \in LaneWiseOps /\ PlainUse(e, w)
  BY DEF LaneWiseOps, PlainUse
<1>2. \A e \in {"padd", "psub", "pmull", "pcmpeq", "pcmpgt"} : \A c, d \in Vector :
          /\ ExecVector(e, w, c, d) \in Vector
          /\ \A k \in LaneIndex(w) : Lane(w, ExecVector(e, w, c, d), k)
                                     = LaneWise(e, w, Lane(w, c, k), Lane(w, d, k))
  BY <1>1, LaneWiseLanes
<1>3. \A e \in Logic : \A c, d \in Vector :
          /\ ExecVector(e, W64, c, d) \in Vector
          /\ \A k \in LaneIndex(w) : Lane(w, ExecVector(e, W64, c, d), k)
                                     = Low(w, LaneWise(e, w, Lane(w, c, k), Lane(w, d, k)))
  BY LogicLanes
<1>4. \A c \in Vector : /\ Not(c) \in Vector
                        /\ \A k \in LaneIndex(w) : Lane(w, Not(c), k) = Flipped(w, Lane(w, c, k))
  BY NotLanes
<1>5. \A x, y : /\ LaneWise("padd", w, x, y) = Low(w, x + y)
                /\ LaneWise("psub", w, x, y) = Low(w, x - y)
                /\ LaneWise("pmull", w, x, y) = Low(w, x * y)
                /\ LaneWise("pand", w, x, y) = BitAnd(x, y)
                /\ LaneWise("por", w, x, y) = BitOr(x, y)
                /\ LaneWise("pxor", w, x, y) = BitXor(x, y)
  BY DEF LaneWise
<1>6. "pand" \in Logic /\ "por" \in Logic /\ "pxor" \in Logic
  BY DEF Logic
<1>7. CASE op = "add"
  BY <1>2, <1>5, <1>7 DEF Both, LaneBoth
<1>8. CASE op = "sub"
  BY <1>2, <1>5, <1>8 DEF Both, LaneBoth
<1>9. CASE op = "rsub"
  BY <1>2, <1>5, <1>9 DEF Both, LaneBoth
<1>10. CASE op = "mul"
  BY <1>2, <1>5, <1>10 DEF Both, LaneBoth
<1>11. CASE op = "band"
  BY <1>3, <1>5, <1>6, <1>11 DEF Both, LaneBoth
<1>12. CASE op = "bandn"
  BY <1>3, <1>4, <1>5, <1>6, <1>12 DEF Both, LaneBoth
<1>13. CASE op = "bor"
  BY <1>3, <1>5, <1>6, <1>13 DEF Both, LaneBoth
<1>14. CASE op = "bxor"
  BY <1>3, <1>5, <1>6, <1>14 DEF Both, LaneBoth
<1>15. CASE op = "cmpeq"
  BY <1>2, <1>15 DEF Both, LaneBoth, Eq
<1>16. CASE op = "cmpne"
  BY <1>2, <1>4, <1>16 DEF Both, LaneBoth, Eq
<1>17. CASE op = "cmplt"
  BY <1>2, <1>17 DEF Both, LaneBoth, Gt
<1>18. CASE op = "cmple"
  BY <1>2, <1>4, <1>18 DEF Both, LaneBoth, Gt
<1>19. CASE op = "cmpgt"
  BY <1>2, <1>19 DEF Both, LaneBoth, Gt
<1>20. CASE op = "cmpge"
  BY <1>2, <1>4, <1>20 DEF Both, LaneBoth, Gt
<1>21. QED BY <1>7, <1>8, <1>9, <1>10, <1>11, <1>12, <1>13, <1>14, <1>15, <1>16, <1>17, <1>18,
              <1>19, <1>20 DEF BaseOps, CompareOps

(* What the emulator computes of two lanes has that lane's low bits.        *)
LEMMA EmuBothLow ==
    ASSUME NEW w \in Widths, NEW op \in BaseOps, NEW x \in Values(w), NEW y \in Values(w),
           NEW e, FromLanes(op, w, x, y, e)
    PROVE  e \in Int /\ Low(w, e) = LaneBoth(op, w, x, y)
<1>1. PICK u \in Int, u1 \in Int :
          /\ Low(w, u) = x /\ Low(w, u1) = y
          /\ op \in CompareOps => u = ToSigned(w, x) /\ u1 = ToSigned(w, y)
          /\ e = EmuBoth(op, u, u1)
  BY DEF FromLanes
<1>2. w \in 0 .. W64 /\ x \in Int /\ y \in Int /\ Low(w, x) = x /\ Low(w, y) = y
  BY WidthFacts, LowId DEF Values
<1>3. Low(w, u) = Low(w, x) /\ Low(w, u1) = Low(w, y)
  BY <1>1, <1>2
<1>4. CASE op \in {"add", "sub", "mul"}
  <2>1. /\ Low(w, vop_("add", u, u1)) = Low(w, x + y)
        /\ Low(w, vop_("sub", u, u1)) = Low(w, x - y)
        /\ Low(w, vop_("mul", u, u1)) = Low(w, x * y)
        /\ Low(w, vop1_("neg", u)) = Low(w, 0 - x)
        /\ Low(w, vop1_("nop", u)) = Low(w, x)
        /\ vop_("add", u, u1) \in Int /\ vop_("sub", u, u1) \in Int /\ vop_("mul", u, u1) \in Int
        /\ vop1_("neg", u) \in Int /\ vop1_("nop", u) \in Int
    BY <1>1, <1>2, <1>3, LaneArithmetic
  <2>2. QED BY <1>1, <1>4, <2>1 DEF EmuBoth, LaneBoth
<1>5. CASE op = "rsub"
  <2>1. /\ Low(w, vop_("add", u1, u)) = Low(w, y + x)
        /\ Low(w, vop_("sub", u1, u)) = Low(w, y - x)
        /\ Low(w, vop_("mul", u1, u)) = Low(w, y * x)
        /\ Low(w, vop1_("neg", u1)) = Low(w, 0 - y)
        /\ Low(w, vop1_("nop", u1)) = Low(w, y)
        /\ vop_("add", u1, u) \in Int /\ vop_("sub", u1, u) \in Int /\ vop_("mul", u1, u) \in Int
        /\ vop1_("neg", u1) \in Int /\ vop1_("nop", u1) \in Int
    BY <1>1, <1>2, <1>3, LaneArithmetic
  <2>2. QED BY <1>1, <1>5, <2>1 DEF EmuBoth, LaneBoth
<1>6. CASE op \in {"band", "bandn", "bor", "bxor"}
  <2>1. /\ Low(w, vop_("band", u, u1)) = Low(w, BitAnd(x, y))
        /\ Low(w, vop_("bor", u, u1)) = Low(w, BitOr(x, y))
        /\ Low(w, vop_("bxor", u, u1)) = Low(w, BitXor(x, y))
        /\ Low(w, vop_("bandn", u, u1)) = Low(w, BitAnd(Low(w, BitXor(x, 2 ^ w - 1)), y))
        /\ Low(w, vop1_("bnot", u)) = Low(w, BitXor(x, 2 ^ w - 1))
        /\ vop_("band", u, u1) \in Int /\ vop_("bor", u, u1) \in Int /\ vop_("bxor", u, u1) \in Int
        /\ vop_("bandn", u, u1) \in Int /\ vop1_("bnot", u) \in Int
    BY <1>1, <1>2, <1>3, LaneLogic
  <2>2. QED BY <1>1, <1>6, <2>1 DEF EmuBoth, LaneBoth, Flipped
<1>7. CASE op \in CompareOps
  <2>1. u = ToSigned(w, x) /\ u1 = ToSigned(w, y)
    BY <1>1, <1>7
  <2>2. /\ Low(w, vop_("cmpeq", u, u1)) = LaneWise("pcmpeq", w, x, y)
        /\ Low(w, vop_("cmpne", u, u1)) = Flipped(w, LaneWise("pcmpeq", w, x, y))
        /\ Low(w, vop_("cmplt", u, u1)) = LaneWise("pcmpgt", w, y, x)
        /\ Low(w, vop_("cmple", u, u1)) = Flipped(w, LaneWise("pcmpgt", w, x, y))
        /\ Low(w, vop_("cmpgt", u, u1)) = LaneWise("pcmpgt", w, x, y)
        /\ Low(w, vop_("cmpge", u, u1)) = Flipped(w, LaneWise("pcmpgt", w, y, x))
    BY <2>1, LaneCompare
  <2>3. Low(w, vop_(op, u, u1)) = LaneBoth(op, w, x, y)
    BY <1>7, <2>2 DEF CompareOps, LaneBoth
  <2>4. vop_(op, u, u1) \in Int
    BY <1>7 DEF CompareOps, vop_, op_, True
  <2>5. op # "rsub"
    BY <1>7 DEF CompareOps
  <2>6. QED BY <1>1, <2>3, <2>4, <2>5 DEF EmuBoth
<1>8. QED BY <1>4, <1>5, <1>6, <1>7 DEF BaseOps

(* So a loop of the emulator that reads such numbers makes that vector.     *)
LEMMA LoopBoth ==
    ASSUME NEW t \in IntTypes, NEW v1, NEW d, NEW op \in BaseOps, NEW a \in Vector, NEW b \in Vector,
           NEW val,
           \A k \in LaneIndex(Width(t)) :
               FromLanes(op, Width(t), Lane(Width(t), a, k), Lane(Width(t), b, k), val[k])
    PROVE  Loop(v1, t, d, val) = Put(v1, d, Both(op, Width(t), a, b))
<1> DEFINE w == Width(t)
           z == Both(op, w, a, b)
<1>1. w \in Widths
  BY WidthsInRange
<1>2. z \in Vector /\ \A k \in LaneIndex(w) : Lane(w, z, k)
                                              = LaneBoth(op, w, Lane(w, a, k), Lane(w, b, k))
  <2> HIDE DEF w
  <2>1. QED BY <1>1, LanesOfBoth
<1>3. ASSUME NEW k \in LaneIndex(w)
      PROVE  val[k] \in Int /\ Lane(w, z, k) = Low(w, val[k])
  <2> DEFINE x == Lane(w, a, k)
             y == Lane(w, b, k)
             e == val[k]
  <2>1. x \in Values(w) /\ y \in Values(w)
    <3> HIDE DEF w
    <3>1. QED BY <1>1, <1>3, LaneRange
  <2>2. FromLanes(op, w, x, y, e)
    BY <1>3
  <2>3. Lane(w, z, k) = LaneBoth(op, w, x, y)
    BY <1>2, <1>3
  <2> HIDE DEF x, y, w, e, z
  <2>4. e \in Int /\ Low(w, e) = LaneBoth(op, w, x, y)
    BY <1>1, <2>1, <2>2, EmuBothLow
  <2>5. QED BY <2>3, <2>4 DEF e
<1> HIDE DEF z
<1>4. QED BY <1>2, <1>3, LoopSame DEF z

-----------------------------------------------------------------------------
(* The emulator's instructions of two vectors, and of a vector and an       *)
(* immediate, put Both into the destination.                                *)
Alike(in, t) == in \in IntTypes /\ t \in IntTypes /\ Width(in) = Width(t)

(* The number that a loop reads of a lane.                                  *)
LEMMA LaneNumber ==
    ASSUME NEW in, NEW t, Alike(in, t), NEW a \in Vector, NEW k \in LaneIndex(Width(t))
    PROVE  /\ LaneField(in, a, k) \in Int
           /\ Low(Width(t), LaneField(in, a, k)) = Lane(Width(t), a, k)
           /\ in \in SignedTypes => LaneField(in, a, k) = ToSigned(Width(t), Lane(Width(t), a, k))
<1>1. in \in IntTypes /\ Width(in) = Width(t) /\ k \in LaneIndex(Width(in))
  BY DEF Alike
<1>2. /\ Width(in) \in Widths
      /\ LaneField(in, a, k) \in Int
      /\ Low(Width(in), LaneField(in, a, k)) = Lane(Width(in), a, k)
      /\ Lane(Width(in), a, k) \in Values(Width(in))
      /\ in \in UnsignedTypes => LaneField(in, a, k) = Lane(Width(in), a, k)
  BY <1>1, LaneFieldLow
<1>3. in \in SignedTypes => in \notin UnsignedTypes
  BY DEF SignedTypes, UnsignedTypes
<1>4. QED BY <1>1, <1>2, <1>3 DEF LaneField, Field

(* A loop over the lanes of two vectors.                                    *)
LEMMA PairLoop ==
    ASSUME NEW in, NEW t, Alike(in, t), NEW v1, NEW d, NEW i, NEW j,
           v1[i] \in Vector, v1[j] \in Vector, NEW op \in BaseOps, op # "rsub",
           op \in CompareOps => in \in SignedTypes
    PROVE  KFFVdij(in, t, v1, d, i, j, op) = Put(v1, d, Both(op, Width(t), v1[i], v1[j]))
<1> DEFINE w == Width(t)
           a == v1[i]
           b == v1[j]
           val == [k \in LaneIndex(w) |-> vop_(op, LaneField(in, a, k), LaneField(in, b, k))]
<1>1. t \in IntTypes /\ a \in Vector /\ b \in Vector
  BY DEF Alike
<1>2. KFFVdij(in, t, v1, d, i, j, op) = Loop(v1, t, d, val)
  BY DEF KFFVdij, Lanes
<1>3. ASSUME NEW k \in LaneIndex(w)
      PROVE  FromLanes(op, w, Lane(w, a, k), Lane(w, b, k), val[k])
  <2> DEFINE u == LaneField(in, a, k)
             u1 == LaneField(in, b, k)
  <2>1. u \in Int /\ Low(w, u) = Lane(w, a, k)
        /\ (in \in SignedTypes => u = ToSigned(w, Lane(w, a, k)))
    BY LaneNumber
  <2>2. u1 \in Int /\ Low(w, u1) = Lane(w, b, k)
        /\ (in \in SignedTypes => u1 = ToSigned(w, Lane(w, b, k)))
    BY LaneNumber
  <2>3. val[k] = EmuBoth(op, u, u1)
    BY DEF EmuBoth
  <2> HIDE DEF u, u1, val, w, a, b
  <2>4. QED BY <2>1, <2>2, <2>3 DEF FromLanes
<1> HIDE DEF val, a, b
<1>4. Loop(v1, t, d, val) = Put(v1, d, Both(op, Width(t), a, b))
  BY <1>1, <1>3, LoopBoth
<1>5. QED BY <1>2, <1>4 DEF a, b

(* The emulator's instructions of two vectors.                              *)
LEMMA EmulatedBinary ==
    ASSUME NEW p \in Instructions, p.op \in VecBinaryOps, NEW v1 \in [VRegs -> Vector], NEW r1
    PROVE  emulate_vec(p, p.type, v1, r1)
           = Put(v1, p.rd, Both(BaseOf[p.op], Width(p.type), v1[p.ri], v1[p.rj]))
<1> DEFINE t == p.type
           s == SignedOf(t)
           q == "UINT64"
           d == p.rd
           i == p.ri
           j == p.rj
           w == Width(t)
<1>1. t \in IntTypes /\ v1[i] \in Vector /\ v1[j] \in Vector
  <2>1. p.op # "vmovi"
    BY DEF VecBinaryOps, VecCompareOps
  <2>2. QED BY <2>1, InstructionRegs
<1>2. Alike(t, t) /\ Alike(s, t) /\ s \in SignedTypes
  BY <1>1, TypesOfWidth DEF Alike
<1>3. Alike(q, q) /\ Width(q) = W64
  BY DEF Alike, IntTypes, UnsignedTypes, Width
<1> HIDE DEF t, s, d, i, j, w, q
<1>4. ASSUME NEW op \in {"add", "sub", "mul"}
      PROVE  /\ KFFVdij(t, t, v1, d, i, j, op) = Put(v1, d, Both(op, w, v1[i], v1[j]))
             /\ KFFVdij(t, t, v1, d, j, i, op) = Put(v1, d, Both(op, w, v1[j], v1[i]))
  <2>1. op \in BaseOps /\ op # "rsub" /\ op \notin CompareOps
    BY DEF BaseOps, CompareOps
  <2>2. QED BY <1>1, <1>2, <2>1, PairLoop DEF w
<1>5. ASSUME NEW op \in {"band", "bandn", "bor", "bxor"}
      PROVE  KFFVdij(q, q, v1, d, i, j, op) = Put(v1, d, Both(op, w, v1[i], v1[j]))
  <2>1. op \in BaseOps /\ op # "rsub" /\ op \notin CompareOps
    BY DEF BaseOps, CompareOps
  <2>2. KFFVdij(q, q, v1, d, i, j, op) = Put(v1, d, Both(op, Width(q), v1[i], v1[j]))
    BY <1>1, <1>3, <2>1, PairLoop
  <2>3. Both(op, W64, v1[i], v1[j]) = Both(op, w, v1[i], v1[j])
    BY DEF Both
  <2>4. QED BY <1>3, <2>2, <2>3
<1>6. ASSUME NEW op \in CompareOps
      PROVE  KFFVdij(s, t, v1, d, i, j, op) = Put(v1, d, Both(op, w, v1[i], v1[j]))
  <2>1. op \in BaseOps /\ op # "rsub"
    BY DEF BaseOps, CompareOps
  <2>2. QED BY <1>1, <1>2, <2>1, PairLoop DEF w
<1>7. CASE p.op = "vadd"
  <2>1. emulate_vec(p, p.type, v1, r1) = emu_vadd(t, v1, d, i, j)
    BY <1>7 DEF emulate_vec, VecCompareOps, VecCompareImmOps, t, d, i, j
  <2>2. emu_vadd(t, v1, d, i, j) = KFFVdij(t, t, v1, d, i, j, "add")
    BY <1>7 DEF emu_vadd, vx_dij, KFV_vvv
  <2>3. BaseOf[p.op] = "add"
    BY <1>7 DEF BaseOf
  <2>4. KFFVdij(t, t, v1, d, i, j, "add") = Put(v1, d, Both("add", w, v1[i], v1[j]))
    BY <1>4
  <2>5. QED BY <2>1, <2>2, <2>3, <2>4 DEF w, t, d, i, j
<1>8. CASE p.op = "vsub"
  <2>1. emulate_vec(p, p.type, v1, r1) = emu_vsub(t, v1, d, i, j)
    BY <1>8 DEF emulate_vec, VecCompareOps, VecCompareImmOps, t, d, i, j
  <2>2. emu_vsub(t, v1, d, i, j) = KFFVdij(t, t, v1, d, i, j, "sub")
    BY <1>8 DEF emu_vsub, vx_dij, KFV_vvv
  <2>3. BaseOf[p.op] = "sub"
    BY <1>8 DEF BaseOf
  <2>4. KFFVdij(t, t, v1, d, i, j, "sub") = Put(v1, d, Both("sub", w, v1[i], v1[j]))
    BY <1>4
  <2>5. QED BY <2>1, <2>2, <2>3, <2>4 DEF w, t, d, i, j
<1>9. CASE p.op = "vmul"
  <2>1. emulate_vec(p, p.type, v1, r1) = emu_vmul(t, v1, d, i, j)
    BY <1>9 DEF emulate_vec, VecCompareOps, VecCompareImmOps, t, d, i, j
  <2>2. emu_vmul(t, v1, d, i, j) = KFFVdij(t, t, v1, d, i, j, "mul")
    BY <1>9 DEF emu_vmul, vx_dij, KFV_vvv
  <2>3. BaseOf[p.op] = "mul"
    BY <1>9 DEF BaseOf
  <2>4. KFFVdij(t, t, v1, d, i, j, "mul") = Put(v1, d, Both("mul", w, v1[i], v1[j]))
    BY <1>4
  <2>5. QED BY <2>1, <2>2, <2>3, <2>4 DEF w, t, d, i, j
<1>10. CASE p.op = "vrsub"
  <2>1. emulate_vec(p, p.type, v1, r1) = emu_vrsub(t, v1, d, i, j)
    BY <1>10 DEF emulate_vec, VecCompareOps, VecCompareImmOps, t, d, i, j
  <2>2. emu_vrsub(t, v1, d, i, j) = KFFVdij(t, t, v1, d, j, i, "sub")
    BY <1>10 DEF emu_vrsub, vx_dij, KFV_vvv
  <2>3. BaseOf[p.op] = "rsub"
    BY <1>10 DEF BaseOf
  <2>4. KFFVdij(t, t, v1, d, j, i, "sub") = Put(v1, d, Both("rsub", w, v1[i], v1[j]))
    BY <1>4 DEF Both
  <2>5. QED BY <2>1, <2>2, <2>3, <2>4 DEF w, t, d, i, j
<1>11. CASE p.op = "vband"
  <2>1. emulate_vec(p, p.type, v1, r1) = emu_vbit(v1, d, i, j, VecOp[p.op])
    BY <1>11 DEF emulate_vec, VecCompareOps, VecCompareImmOps, t, d, i, j
  <2>2. emu_vbit(v1, d, i, j, VecOp[p.op]) = KFFVdij(q, q, v1, d, i, j, "band")
    BY <1>11 DEF emu_vbit, VecOp, q
  <2>3. BaseOf[p.op] = "band"
    BY <1>11 DEF BaseOf
  <2>4. KFFVdij(q, q, v1, d, i, j, "band") = Put(v1, d, Both("band", w, v1[i], v1[j]))
    BY <1>5
  <2>5. QED BY <2>1, <2>2, <2>3, <2>4 DEF w, t, d, i, j
<1>12. CASE p.op = "vbandn"
  <2>1. emulate_vec(p, p.type, v1, r1) = emu_vbit(v1, d, i, j, VecOp[p.op])
    BY <1>12 DEF emulate_vec, VecCompareOps, VecCompareImmOps, t, d, i, j
  <2>2. emu_vbit(v1, d, i, j, VecOp[p.op]) = KFFVdij(q, q, v1, d, i, j, "bandn")
    BY <1>12 DEF emu_vbit, VecOp, q
  <2>3. BaseOf[p.op] = "bandn"
    BY <1>12 DEF BaseOf
  <2>4. KFFVdij(q, q, v1, d, i, j, "bandn") = Put(v1, d, Both("bandn", w, v1[i], v1[j]))
    BY <1>5
  <2>5. QED BY <2>1, <2>2, <2>3, <2>4 DEF w, t, d, i, j
<1>13. CASE p.op = "vbor"
  <2>1. emulate_vec(p, p.type, v1, r1) = emu_vbit(v1, d, i, j, VecOp[p.op])
    BY <1>13 DEF emulate_vec, VecCompareOps, VecCompareImmOps, t, d, i, j
  <2>2. emu_vbit(v1, d, i, j, VecOp[p.op]) = KFFVdij(q, q, v1, d, i, j, "bor")
    BY <1>13 DEF emu_vbit, VecOp, q
  <2>3. BaseOf[p.op] = "bor"
    BY <1>13 DEF BaseOf
  <2>4. KFFVdij(q, q, v1, d, i, j, "bor") = Put(v1, d, Both("bor", w, v1[i], v1[j]))
    BY <1>5
  <2>5. QED BY <2>1, <2>2, <2>3, <2>4 DEF w, t, d, i, j
<1>14. CASE p.op = "vbxor"
  <2>1. emulate_vec(p, p.type, v1, r1) = emu_vbit(v1, d, i, j, VecOp[p.op])
    BY <1>14 DEF emulate_vec, VecCompareOps, VecCompareImmOps, t, d, i, j
  <2>2. emu_vbit(v1, d, i, j, VecOp[p.op]) = KFFVdij(q, q, v1, d, i, j, "bxor")
    BY <1>14 DEF emu_vbit, VecOp, q
  <2>3. BaseOf[p.op] = "bxor"
    BY <1>14 DEF BaseOf
  <2>4. KFFVdij(q, q, v1, d, i, j, "bxor") = Put(v1, d, Both("bxor", w, v1[i], v1[j]))
    BY <1>5
  <2>5. QED BY <2>1, <2>2, <2>3, <2>4 DEF w, t, d, i, j
<1>15. CASE p.op = "vcmpeq"
  <2>1. emulate_vec(p, p.type, v1, r1) = emu_vcmp(t, v1, d, i, j, VecOp[p.op])
    BY <1>15 DEF emulate_vec, VecCompareOps, VecCompareImmOps, t, d, i, j
  <2>2. emu_vcmp(t, v1, d, i, j, VecOp[p.op]) = KFFVdij(s, t, v1, d, i, j, "cmpeq")
    BY <1>15 DEF emu_vcmp, svx_dij, VecOp, s
  <2>3. BaseOf[p.op] = "cmpeq"
    BY <1>15 DEF BaseOf
  <2>4. KFFVdij(s, t, v1, d, i, j, "cmpeq") = Put(v1, d, Both("cmpeq", w, v1[i], v1[j]))
    BY <1>6 DEF CompareOps
  <2>5. QED BY <2>1, <2>2, <2>3, <2>4 DEF w, t, d, i, j
<1>16. CASE p.op = "vcmpne"
  <2>1. emulate_vec(p, p.type, v1, r1) = emu_vcmp(t, v1, d, i, j, VecOp[p.op])
    BY <1>16 DEF emulate_vec, VecCompareOps, VecCompareImmOps, t, d, i, j
  <2>2. emu_vcmp(t, v1, d, i, j, VecOp[p.op]) = KFFVdij(s, t, v1, d, i, j, "cmpne")
    BY <1>16 DEF emu_vcmp, svx_dij, VecOp, s
  <2>3. BaseOf[p.op] = "cmpne"
    BY <1>16 DEF BaseOf
  <2>4. KFFVdij(s, t, v1, d, i, j, "cmpne") = Put(v1, d, Both("cmpne", w, v1[i], v1[j]))
    BY <1>6 DEF CompareOps
  <2>5. QED BY <2>1, <2>2, <2>3, <2>4 DEF w, t, d, i, j
<1>17. CASE p.op = "vcmplt"
  <2>1. emulate_vec(p, p.type, v1, r1) = emu_vcmp(t, v1, d, i, j, VecOp[p.op])
    BY <1>17 DEF emulate_vec, VecCompareOps, VecCompareImmOps, t, d, i, j
  <2>2. emu_vcmp(t, v1, d, i, j, VecOp[p.op]) = KFFVdij(s, t, v1, d, i, j, "cmplt")
    BY <1>17 DEF emu_vcmp, svx_dij, VecOp, s
  <2>3. BaseOf[p.op] = "cmplt"
    BY <1>17 DEF BaseOf
  <2>4. KFFVdij(s, t, v1, d, i, j, "cmplt") = Put(v1, d, Both("cmplt", w, v1[i], v1[j]))
    BY <1>6 DEF CompareOps
  <2>5. QED BY <2>1, <2>2, <2>3, <2>4 DEF w, t, d, i, j
<1>18. CASE p.op = "vcmple"
  <2>1. emulate_vec(p, p.type, v1, r1) = emu_vcmp(t, v1, d, i, j, VecOp[p.op])
    BY <1>18 DEF emulate_vec, VecCompareOps, VecCompareImmOps, t, d, i, j
  <2>2. emu_vcmp(t, v1, d, i, j, VecOp[p.op]) = KFFVdij(s, t, v1, d, i, j, "cmple")
    BY <1>18 DEF emu_vcmp, svx_dij, VecOp, s
  <2>3. BaseOf[p.op] = "cmple"
    BY <1>18 DEF BaseOf
  <2>4. KFFVdij(s, t, v1, d, i, j, "cmple") = Put(v1, d, Both("cmple", w, v1[i], v1[j]))
    BY <1>6 DEF CompareOps
  <2>5. QED BY <2>1, <2>2, <2>3, <2>4 DEF w, t, d, i, j
<1>19. CASE p.op = "vcmpgt"
  <2>1. emulate_vec(p, p.type, v1, r1) = emu_vcmp(t, v1, d, i, j, VecOp[p.op])
    BY <1>19 DEF emulate_vec, VecCompareOps, VecCompareImmOps, t, d, i, j
  <2>2. emu_vcmp(t, v1, d, i, j, VecOp[p.op]) = KFFVdij(s, t, v1, d, i, j, "cmpgt")
    BY <1>19 DEF emu_vcmp, svx_dij, VecOp, s
  <2>3. BaseOf[p.op] = "cmpgt"
    BY <1>19 DEF BaseOf
  <2>4. KFFVdij(s, t, v1, d, i, j, "cmpgt") = Put(v1, d, Both("cmpgt", w, v1[i], v1[j]))
    BY <1>6 DEF CompareOps
  <2>5. QED BY <2>1, <2>2, <2>3, <2>4 DEF w, t, d, i, j
<1>20. CASE p.op = "vcmpge"
  <2>1. emulate_vec(p, p.type, v1, r1) = emu_vcmp(t, v1, d, i, j, VecOp[p.op])
    BY <1>20 DEF emulate_vec, VecCompareOps, VecCompareImmOps, t, d, i, j
  <2>2. emu_vcmp(t, v1, d, i, j, VecOp[p.op]) = KFFVdij(s, t, v1, d, i, j, "cmpge")
    BY <1>20 DEF emu_vcmp, svx_dij, VecOp, s
  <2>3. BaseOf[p.op] = "cmpge"
    BY <1>20 DEF BaseOf
  <2>4. KFFVdij(s, t, v1, d, i, j, "cmpge") = Put(v1, d, Both("cmpge", w, v1[i], v1[j]))
    BY <1>6 DEF CompareOps
  <2>5. QED BY <2>1, <2>2, <2>3, <2>4 DEF w, t, d, i, j
<1>21. QED BY <1>7, <1>8, <1>9, <1>10, <1>11, <1>12, <1>13, <1>14, <1>15, <1>16, <1>17, <1>18, <1>19, <1>20 DEF VecBinaryOps, VecCompareOps

-----------------------------------------------------------------------------
(* Immediates.  A number that w bits hold signed is its own signed reading  *)
(* at every width from w on.                                                *)
SignedValues(w) == -(2 ^ (w - 1)) .. 2 ^ (w - 1) - 1

(* A signed number of w bits is in their range,                             *)
LEMMA SignedRange ==
    ASSUME NEW w \in Widths, NEW x \in Int
    PROVE  ToSigned(w, x) \in SignedValues(w)
<1> DEFINE h == 2 ^ (w - 1)
           l == Low(w, x)
<1>1. w \in 0 .. W64 /\ w \in 1 .. W64 /\ 2 ^ w = 2 * h /\ h \in Nat
  <2>1. w \in 0 .. W64 /\ w \in 1 .. W64
    BY WidthFacts
  <2>2. w - 1 \in 0 .. W64
    BY <2>1, Power
  <2>3. QED BY <2>1, <2>2, Power
<1>2. l \in 0 .. 2 * h - 1
  BY <1>1, LowRange
<1>3. ToSigned(w, x) = IF l >= h THEN l - 2 * h ELSE l
  BY <1>1 DEF ToSigned
<1> HIDE DEF h, l
<1>4. (IF l >= h THEN l - 2 * h ELSE l) \in -h .. h - 1
  BY <1>1, <1>2
<1>5. QED BY <1>3, <1>4 DEF SignedValues, h

(* and what is in it is the same number with more bits.                     *)
LEMMA SignedSmall ==
    ASSUME NEW w \in Widths, NEW u \in Widths, w <= u, NEW c \in SignedValues(w)
    PROVE  c \in Int /\ ToSigned(u, c) = c
<1> DEFINE h == 2 ^ (w - 1)
           g == 2 ^ (u - 1)
           l == Low(u, c)
<1>1. /\ w \in 1 .. W64 /\ u \in 1 .. W64 /\ w - 1 \in 0 .. W64 /\ u - 1 \in 0 .. W64
      /\ u \in 0 .. W64 /\ w - 1 <= u - 1
  BY WidthFacts
<1>2. h \in Nat \ {0} /\ g \in Nat \ {0} /\ 2 ^ u = 2 * g
  BY <1>1, Power
<1>3. h <= g
  <2>1. PICK k \in Nat \ {0} : 2 ^ (u - 1) = 2 ^ (w - 1) * k
    BY <1>1, Power
  <2> DEFINE b == h
  <2> HIDE DEF h, g
  <2>2. g = h * k
    BY <2>1 DEF h, g
  <2>3. QED BY <1>2, <2>2
<1>4. c \in -h .. h - 1
  BY DEF SignedValues
<1>5. l = c % (2 * g)
  BY <1>2 DEF Low
<1>6. ToSigned(u, c) = IF l >= g THEN l - 2 * g ELSE l
  BY <1>2 DEF ToSigned
<1> HIDE DEF h, g, l
<1>7. c \in Int /\ 2 * g \in Nat \ {0}
  BY <1>2, <1>4
<1>8. CASE c >= 0
  <2>1. c % (2 * g) = c
    BY <1>2, <1>3, <1>4, <1>8
  <2>2. QED BY <1>2, <1>3, <1>4, <1>5, <1>6, <1>8, <2>1
<1>9. CASE c < 0
  <2> DEFINE n == 2 * g
             s == c + n
  <2>1. s \in 0 .. n - 1 /\ c = n * (-1) + s /\ n \in Nat \ {0} /\ -1 \in Int
    BY <1>2, <1>3, <1>4, <1>9
  <2> HIDE DEF n, s
  <2>2. c % n = s
    BY <1>7, <2>1, ModUnique
  <2>3. l = c + 2 * g
    BY <1>5, <2>2 DEF n, s
  <2>4. QED BY <1>2, <1>3, <1>4, <1>6, <1>7, <2>3
<1>10. QED BY <1>4, <1>7, <1>8, <1>9

(* What instructions with an immediate read for a lane and the immediate.   *)
LEMMA ImmediateLoop ==
    ASSUME NEW t \in IntTypes, NEW v1, NEW d, NEW i, v1[i] \in Vector, NEW c \in Int,
           NEW op \in BaseOps, op # "rsub", op \notin CompareOps
    PROVE  KFVdi8(t, v1, d, i, c, op) = Put(v1, d, Both(op, Width(t), v1[i], Splat(Width(t), c)))
<1> DEFINE w == Width(t)
           a == v1[i]
           b == Splat(w, c)
           val == [k \in LaneIndex(w) |-> vop_(op, LaneField(t, a, k), c)]
<1>1. a \in Vector /\ b \in Vector /\ \A k \in LaneIndex(w) : Lane(w, b, k) = Low(w, c)
  BY SplatLanes, WidthsInRange
<1>2. KFVdi8(t, v1, d, i, c, op) = Loop(v1, t, d, val)
  BY DEF KFVdi8, Lanes
<1>3. Alike(t, t)
  BY DEF Alike
<1>4. ASSUME NEW k \in LaneIndex(w)
      PROVE  FromLanes(op, w, Lane(w, a, k), Lane(w, b, k), val[k])
  <2> DEFINE u == LaneField(t, a, k)
  <2>1. u \in Int /\ Low(w, u) = Lane(w, a, k)
        /\ (t \in SignedTypes => u = ToSigned(w, Lane(w, a, k)))
    BY <1>3, LaneNumber
  <2>2. val[k] = EmuBoth(op, u, c)
    BY DEF EmuBoth
  <2>3. Low(w, c) = Lane(w, b, k)
    BY <1>1
  <2> HIDE DEF u, val, w, a, b
  <2>4. QED BY <2>1, <2>2, <2>3 DEF FromLanes
<1> HIDE DEF val, a, b
<1>5. Loop(v1, t, d, val) = Put(v1, d, Both(op, Width(t), a, b))
  BY <1>1, <1>4, LoopBoth
<1>6. QED BY <1>2, <1>5 DEF a, b

(* A loop with the immediate on the left.                                   *)
LEMMA ReversedLoop ==
    ASSUME NEW t \in IntTypes, NEW v1, NEW d, NEW i, v1[i] \in Vector, NEW c \in Int
    PROVE  KFVd8i(t, v1, d, c, i, "sub") = Put(v1, d, Both("rsub", Width(t), v1[i], Splat(Width(t), c)))
<1> DEFINE w == Width(t)
           a == v1[i]
           b == Splat(w, c)
           op == "rsub"
           val == [k \in LaneIndex(w) |-> vop_("sub", c, LaneField(t, a, k))]
<1>1. a \in Vector /\ b \in Vector /\ \A k \in LaneIndex(w) : Lane(w, b, k) = Low(w, c)
  BY SplatLanes, WidthsInRange
<1>2. KFVd8i(t, v1, d, c, i, "sub") = Loop(v1, t, d, val)
  BY DEF KFVd8i, Lanes
<1>3. Alike(t, t) /\ op \in BaseOps /\ op \notin CompareOps
  BY DEF Alike, BaseOps, CompareOps
<1>4. ASSUME NEW k \in LaneIndex(w)
      PROVE  FromLanes(op, w, Lane(w, a, k), Lane(w, b, k), val[k])
  <2> DEFINE u == LaneField(t, a, k)
  <2>1. u \in Int /\ Low(w, u) = Lane(w, a, k)
        /\ (t \in SignedTypes => u = ToSigned(w, Lane(w, a, k)))
    BY <1>3, LaneNumber
  <2>2. val[k] = EmuBoth(op, u, c)
    BY DEF EmuBoth
  <2>3. Low(w, c) = Lane(w, b, k)
    BY <1>1
  <2> HIDE DEF u, val, w, a, b, op
  <2>4. QED BY <1>3, <2>1, <2>2, <2>3 DEF FromLanes
<1> HIDE DEF val, a, b, op
<1>5. Loop(v1, t, d, val) = Put(v1, d, Both(op, Width(t), a, b))
  BY <1>1, <1>3, <1>4, LoopBoth
<1>6. QED BY <1>2, <1>5 DEF a, b, op

(* A loop of comparisons with an immediate, for lanes that an int holds.    *)
LEMMA CompareLoop ==
    ASSUME NEW in, NEW t, Alike(in, t), in \in SignedTypes, Width(t) # W64,
           NEW v1, NEW d, NEW i, v1[i] \in Vector, NEW c \in Imm8, NEW op \in CompareOps
    PROVE  KFFVdi8(in, t, v1, d, i, c, op) = Put(v1, d, Both(op, Width(t), v1[i], Splat(Width(t), c)))
<1> DEFINE w == Width(t)
           a == v1[i]
           b == Splat(w, c)
           val == [k \in LaneIndex(w) |-> vop_(op, ToSigned(W32, LaneField(in, a, k)), c)]
<1>1. t \in IntTypes /\ w \in Widths /\ w # W64 /\ W8 \in Widths /\ W8 <= w
  BY WidthsInRange, WidthFacts DEF Alike
<1>2. w <= W32 /\ W32 \in Widths
  BY <1>1, WidthAssumption DEF Widths
<1>3. c \in SignedValues(W8) /\ op \in BaseOps /\ op # "rsub"
  BY DEF Imm8, SignedValues, BaseOps, CompareOps
<1>4. c \in Int /\ ToSigned(w, c) = c
  <2> HIDE DEF w
  <2>1. QED BY <1>1, <1>3, SignedSmall
<1>5. a \in Vector /\ b \in Vector /\ \A k \in LaneIndex(w) : Lane(w, b, k) = Low(w, c)
  BY <1>1, <1>4, SplatLanes
<1>6. KFFVdi8(in, t, v1, d, i, c, op) = Loop(v1, t, d, val)
  BY DEF KFFVdi8, Lanes
<1>7. ASSUME NEW k \in LaneIndex(w)
      PROVE  FromLanes(op, w, Lane(w, a, k), Lane(w, b, k), val[k])
  <2> DEFINE u == LaneField(in, a, k)
             l == Lane(w, a, k)
  <2>1. u \in Int /\ Low(w, u) = l /\ u = ToSigned(w, l)
    BY <1>5, LaneNumber
  <2>2. l \in Int
    <3> HIDE DEF w, a
    <3>1. QED BY <1>1, <1>5, <1>7, LaneRange
  <2>3. ToSigned(W32, u) = u
    <3> HIDE DEF w, u, l
    <3>1. u \in SignedValues(w)
      BY <1>1, <2>1, <2>2, SignedRange
    <3>2. QED BY <1>1, <1>2, <3>1, SignedSmall
  <2>4. val[k] = EmuBoth(op, u, c)
    BY <1>3, <2>3 DEF EmuBoth
  <2>5. Low(w, c) = Lane(w, b, k) /\ c = ToSigned(w, Lane(w, b, k))
    <3>1. Low(w, c) = Lane(w, b, k)
      BY <1>5
    <3>2. w \in 1 .. W64
      BY <1>1, WidthsInRange
    <3> HIDE DEF w, b
    <3>3. ToSigned(w, Low(w, c)) = ToSigned(w, c)
      BY <1>4, <3>2, SignedLow
    <3>4. QED BY <1>4, <3>1, <3>3
  <2> HIDE DEF u, val, w, a, b, l
  <2>6. QED BY <1>4, <2>1, <2>4, <2>5 DEF FromLanes, l
<1> HIDE DEF val, a, b
<1>8. Loop(v1, t, d, val) = Put(v1, d, Both(op, Width(t), a, b))
  BY <1>1, <1>3, <1>5, <1>7, LoopBoth
<1>9. QED BY <1>6, <1>8 DEF a, b

(* A loop of comparisons leaves a vector even where it compares cut lanes.  *)
LEMMA CompareLoopTyped ==
    ASSUME NEW in, NEW t, Alike(in, t), NEW v1, NEW d, NEW i, v1[i] \in Vector, NEW c \in Int,
           NEW op \in CompareOps
    PROVE  \E z \in Vector : KFFVdi8(in, t, v1, d, i, c, op) = Put(v1, d, z)
<1> DEFINE w == Width(t)
           val == [k \in LaneIndex(w) |-> vop_(op, ToSigned(W32, LaneField(in, v1[i], k)), c)]
<1>1. t \in IntTypes
  BY DEF Alike
<1>2. KFFVdi8(in, t, v1, d, i, c, op) = Loop(v1, t, d, val)
  BY DEF KFFVdi8, Lanes
<1>3. \A x, y : vop_(op, x, y) \in Int
  BY DEF CompareOps, vop_, op_, True
<1>4. \A k \in LaneIndex(w) : val[k] \in Int
  BY <1>3
<1> HIDE DEF val
<1>5. QED BY <1>1, <1>2, <1>4, LoopLanes

-----------------------------------------------------------------------------
(* The emulator's instructions of a vector and an immediate; a comparison   *)
(* of lanes narrower than 64 bits.                                          *)
LEMMA EmulatedImmediate ==
    ASSUME NEW p \in Instructions, p.op \in VecImmOps,
           p.op \in VecCompareImmOps => Width(p.type) # W64,
           NEW v1 \in [VRegs -> Vector], NEW r1
    PROVE  emulate_vec(p, p.type, v1, r1)
           = Put(v1, p.rd, Both(BaseOf[p.op], Width(p.type), v1[p.ri], Splat(Width(p.type), p.imm)))
<1> DEFINE t == p.type
           s == SignedOf(t)
           d == p.rd
           i == p.ri
           c == p.imm
           w == Width(t)
<1>1. t \in IntTypes /\ v1[i] \in Vector /\ c \in Int /\ c \in Imm8
  <2>1. p.op # "vmovi"
    BY DEF VecImmOps, VecCompareImmOps
  <2>2. c \in Imm8
    BY VecInstructionsAssumption
  <2>3. QED BY <2>1, <2>2, InstructionRegs
<1>2. Alike(s, t) /\ s \in SignedTypes
  BY <1>1, TypesOfWidth DEF Alike
<1>3. p.op \in VecCompareImmOps => Width(t) # W64
  OBVIOUS
<1> HIDE DEF t, s, d, i, c, w
<1>4. ASSUME NEW op \in {"add", "sub", "mul", "band", "bandn", "bor", "bxor"}
      PROVE  KFVdi8(t, v1, d, i, c, op) = Put(v1, d, Both(op, w, v1[i], Splat(w, c)))
  <2>1. op \in BaseOps /\ op # "rsub" /\ op \notin CompareOps
    BY DEF BaseOps, CompareOps
  <2>2. QED BY <1>1, <2>1, ImmediateLoop DEF w
<1>5. KFVd8i(t, v1, d, c, i, "sub") = Put(v1, d, Both("rsub", w, v1[i], Splat(w, c)))
  BY <1>1, ReversedLoop DEF w
<1>6. ASSUME NEW op \in CompareOps, p.op \in VecCompareImmOps
      PROVE  KFFVdi8(s, t, v1, d, i, c, op) = Put(v1, d, Both(op, w, v1[i], Splat(w, c)))
  BY <1>1, <1>2, <1>3, <1>6, CompareLoop DEF w
<1>7. CASE p.op = "vaddi"
  <2>1. emulate_vec(p, p.type, v1, r1) = emu_vaddi(t, v1, d, i, c)
    BY <1>7 DEF emulate_vec, VecCompareOps, VecCompareImmOps, t, d, i, c
  <2>2. emu_vaddi(t, v1, d, i, c) = KFVdi8(t, v1, d, i, c, "add")
    BY <1>7 DEF emu_vaddi, vx_di8
  <2>3. BaseOf[p.op] = "add"
    BY <1>7 DEF BaseOf
  <2>4. KFVdi8(t, v1, d, i, c, "add") = Put(v1, d, Both("add", w, v1[i], Splat(w, c)))
    BY <1>4
  <2>5. QED BY <2>1, <2>2, <2>3, <2>4 DEF w, t, d, i, c
<1>8. CASE p.op = "vsubi"
  <2>1. emulate_vec(p, p.type, v1, r1) = emu_vsubi(t, v1, d, i, c)
    BY <1>8 DEF emulate_vec, VecCompareOps, VecCompareImmOps, t, d, i, c
  <2>2. emu_vsubi(t, v1, d, i, c) = KFVdi8(t, v1, d, i, c, "sub")
    BY <1>8 DEF emu_vsubi, vx_di8
  <2>3. BaseOf[p.op] = "sub"
    BY <1>8 DEF BaseOf
  <2>4. KFVdi8(t, v1, d, i, c, "sub") = Put(v1, d, Both("sub", w, v1[i], Splat(w, c)))
    BY <1>4
  <2>5. QED BY <2>1, <2>2, <2>3, <2>4 DEF w, t, d, i, c
<1>9. CASE p.op = "vmuli"
  <2>1. emulate_vec(p, p.type, v1, r1) = emu_vmuli(t, v1, d, i, c)
    BY <1>9 DEF emulate_vec, VecCompareOps, VecCompareImmOps, t, d, i, c
  <2>2. emu_vmuli(t, v1, d, i, c) = KFVdi8(t, v1, d, i, c, "mul")
    BY <1>9 DEF emu_vmuli, vx_di8
  <2>3. BaseOf[p.op] = "mul"
    BY <1>9 DEF BaseOf
  <2>4. KFVdi8(t, v1, d, i, c, "mul") = Put(v1, d, Both("mul", w, v1[i], Splat(w, c)))
    BY <1>4
  <2>5. QED BY <2>1, <2>2, <2>3, <2>4 DEF w, t, d, i, c
<1>10. CASE p.op = "vrsubi"
  <2>1. emulate_vec(p, p.type, v1, r1) = emu_vrsubi(t, v1, d, i, c)
    BY <1>10 DEF emulate_vec, VecCompareOps, VecCompareImmOps, t, d, i, c
  <2>2. emu_vrsubi(t, v1, d, i, c) = KFVd8i(t, v1, d, c, i, "sub")
    BY <1>10 DEF emu_vrsubi, vx_d8i
  <2>3. BaseOf[p.op] = "rsub"
    BY <1>10 DEF BaseOf
  <2>4. KFVd8i(t, v1, d, c, i, "sub") = Put(v1, d, Both("rsub", w, v1[i], Splat(w, c)))
    BY <1>5
  <2>5. QED BY <2>1, <2>2, <2>3, <2>4 DEF w, t, d, i, c
<1>11. CASE p.op = "vbandi"
  <2>1. emulate_vec(p, p.type, v1, r1) = emu_vbiti(t, v1, d, i, c, VecOp[p.op])
    BY <1>11 DEF emulate_vec, VecCompareOps, VecCompareImmOps, t, d, i, c
  <2>2. emu_vbiti(t, v1, d, i, c, VecOp[p.op]) = KFVdi8(t, v1, d, i, c, "band")
    BY <1>11 DEF emu_vbiti, vi_di8, VecOp
  <2>3. BaseOf[p.op] = "band"
    BY <1>11 DEF BaseOf
  <2>4. KFVdi8(t, v1, d, i, c, "band") = Put(v1, d, Both("band", w, v1[i], Splat(w, c)))
    BY <1>4
  <2>5. QED BY <2>1, <2>2, <2>3, <2>4 DEF w, t, d, i, c
<1>12. CASE p.op = "vbandni"
  <2>1. emulate_vec(p, p.type, v1, r1) = emu_vbiti(t, v1, d, i, c, VecOp[p.op])
    BY <1>12 DEF emulate_vec, VecCompareOps, VecCompareImmOps, t, d, i, c
  <2>2. emu_vbiti(t, v1, d, i, c, VecOp[p.op]) = KFVdi8(t, v1, d, i, c, "bandn")
    BY <1>12 DEF emu_vbiti, vi_di8, VecOp
  <2>3. BaseOf[p.op] = "bandn"
    BY <1>12 DEF BaseOf
  <2>4. KFVdi8(t, v1, d, i, c, "bandn") = Put(v1, d, Both("bandn", w, v1[i], Splat(w, c)))
    BY <1>4
  <2>5. QED BY <2>1, <2>2, <2>3, <2>4 DEF w, t, d, i, c
<1>13. CASE p.op = "vbori"
  <2>1. emulate_vec(p, p.type, v1, r1) = emu_vbiti(t, v1, d, i, c, VecOp[p.op])
    BY <1>13 DEF emulate_vec, VecCompareOps, VecCompareImmOps, t, d, i, c
  <2>2. emu_vbiti(t, v1, d, i, c, VecOp[p.op]) = KFVdi8(t, v1, d, i, c, "bor")
    BY <1>13 DEF emu_vbiti, vi_di8, VecOp
  <2>3. BaseOf[p.op] = "bor"
    BY <1>13 DEF BaseOf
  <2>4. KFVdi8(t, v1, d, i, c, "bor") = Put(v1, d, Both("bor", w, v1[i], Splat(w, c)))
    BY <1>4
  <2>5. QED BY <2>1, <2>2, <2>3, <2>4 DEF w, t, d, i, c
<1>14. CASE p.op = "vbxori"
  <2>1. emulate_vec(p, p.type, v1, r1) = emu_vbiti(t, v1, d, i, c, VecOp[p.op])
    BY <1>14 DEF emulate_vec, VecCompareOps, VecCompareImmOps, t, d, i, c
  <2>2. emu_vbiti(t, v1, d, i, c, VecOp[p.op]) = KFVdi8(t, v1, d, i, c, "bxor")
    BY <1>14 DEF emu_vbiti, vi_di8, VecOp
  <2>3. BaseOf[p.op] = "bxor"
    BY <1>14 DEF BaseOf
  <2>4. KFVdi8(t, v1, d, i, c, "bxor") = Put(v1, d, Both("bxor", w, v1[i], Splat(w, c)))
    BY <1>4
  <2>5. QED BY <2>1, <2>2, <2>3, <2>4 DEF w, t, d, i, c
<1>15. CASE p.op = "vcmpeqi"
  <2>1. emulate_vec(p, p.type, v1, r1) = emu_vcmpi(t, v1, d, i, c, VecOp[p.op])
    BY <1>15 DEF emulate_vec, VecCompareOps, VecCompareImmOps, t, d, i, c
  <2>2. emu_vcmpi(t, v1, d, i, c, VecOp[p.op]) = KFFVdi8(s, t, v1, d, i, c, "cmpeq")
    BY <1>15 DEF emu_vcmpi, svx_di8, VecOp, s
  <2>3. BaseOf[p.op] = "cmpeq"
    BY <1>15 DEF BaseOf
  <2>4. KFFVdi8(s, t, v1, d, i, c, "cmpeq") = Put(v1, d, Both("cmpeq", w, v1[i], Splat(w, c)))
    BY <1>6, <1>15 DEF CompareOps, VecCompareImmOps
  <2>5. QED BY <2>1, <2>2, <2>3, <2>4 DEF w, t, d, i, c
<1>16. CASE p.op = "vcmpnei"
  <2>1. emulate_vec(p, p.type, v1, r1) = emu_vcmpi(t, v1, d, i, c, VecOp[p.op])
    BY <1>16 DEF emulate_vec, VecCompareOps, VecCompareImmOps, t, d, i, c
  <2>2. emu_vcmpi(t, v1, d, i, c, VecOp[p.op]) = KFFVdi8(s, t, v1, d, i, c, "cmpne")
    BY <1>16 DEF emu_vcmpi, svx_di8, VecOp, s
  <2>3. BaseOf[p.op] = "cmpne"
    BY <1>16 DEF BaseOf
  <2>4. KFFVdi8(s, t, v1, d, i, c, "cmpne") = Put(v1, d, Both("cmpne", w, v1[i], Splat(w, c)))
    BY <1>6, <1>16 DEF CompareOps, VecCompareImmOps
  <2>5. QED BY <2>1, <2>2, <2>3, <2>4 DEF w, t, d, i, c
<1>17. CASE p.op = "vcmplti"
  <2>1. emulate_vec(p, p.type, v1, r1) = emu_vcmpi(t, v1, d, i, c, VecOp[p.op])
    BY <1>17 DEF emulate_vec, VecCompareOps, VecCompareImmOps, t, d, i, c
  <2>2. emu_vcmpi(t, v1, d, i, c, VecOp[p.op]) = KFFVdi8(s, t, v1, d, i, c, "cmplt")
    BY <1>17 DEF emu_vcmpi, svx_di8, VecOp, s
  <2>3. BaseOf[p.op] = "cmplt"
    BY <1>17 DEF BaseOf
  <2>4. KFFVdi8(s, t, v1, d, i, c, "cmplt") = Put(v1, d, Both("cmplt", w, v1[i], Splat(w, c)))
    BY <1>6, <1>17 DEF CompareOps, VecCompareImmOps
  <2>5. QED BY <2>1, <2>2, <2>3, <2>4 DEF w, t, d, i, c
<1>18. CASE p.op = "vcmplei"
  <2>1. emulate_vec(p, p.type, v1, r1) = emu_vcmpi(t, v1, d, i, c, VecOp[p.op])
    BY <1>18 DEF emulate_vec, VecCompareOps, VecCompareImmOps, t, d, i, c
  <2>2. emu_vcmpi(t, v1, d, i, c, VecOp[p.op]) = KFFVdi8(s, t, v1, d, i, c, "cmple")
    BY <1>18 DEF emu_vcmpi, svx_di8, VecOp, s
  <2>3. BaseOf[p.op] = "cmple"
    BY <1>18 DEF BaseOf
  <2>4. KFFVdi8(s, t, v1, d, i, c, "cmple") = Put(v1, d, Both("cmple", w, v1[i], Splat(w, c)))
    BY <1>6, <1>18 DEF CompareOps, VecCompareImmOps
  <2>5. QED BY <2>1, <2>2, <2>3, <2>4 DEF w, t, d, i, c
<1>19. CASE p.op = "vcmpgti"
  <2>1. emulate_vec(p, p.type, v1, r1) = emu_vcmpi(t, v1, d, i, c, VecOp[p.op])
    BY <1>19 DEF emulate_vec, VecCompareOps, VecCompareImmOps, t, d, i, c
  <2>2. emu_vcmpi(t, v1, d, i, c, VecOp[p.op]) = KFFVdi8(s, t, v1, d, i, c, "cmpgt")
    BY <1>19 DEF emu_vcmpi, svx_di8, VecOp, s
  <2>3. BaseOf[p.op] = "cmpgt"
    BY <1>19 DEF BaseOf
  <2>4. KFFVdi8(s, t, v1, d, i, c, "cmpgt") = Put(v1, d, Both("cmpgt", w, v1[i], Splat(w, c)))
    BY <1>6, <1>19 DEF CompareOps, VecCompareImmOps
  <2>5. QED BY <2>1, <2>2, <2>3, <2>4 DEF w, t, d, i, c
<1>20. CASE p.op = "vcmpgei"
  <2>1. emulate_vec(p, p.type, v1, r1) = emu_vcmpi(t, v1, d, i, c, VecOp[p.op])
    BY <1>20 DEF emulate_vec, VecCompareOps, VecCompareImmOps, t, d, i, c
  <2>2. emu_vcmpi(t, v1, d, i, c, VecOp[p.op]) = KFFVdi8(s, t, v1, d, i, c, "cmpge")
    BY <1>20 DEF emu_vcmpi, svx_di8, VecOp, s
  <2>3. BaseOf[p.op] = "cmpge"
    BY <1>20 DEF BaseOf
  <2>4. KFFVdi8(s, t, v1, d, i, c, "cmpge") = Put(v1, d, Both("cmpge", w, v1[i], Splat(w, c)))
    BY <1>6, <1>20 DEF CompareOps, VecCompareImmOps
  <2>5. QED BY <2>1, <2>2, <2>3, <2>4 DEF w, t, d, i, c
<1>21. QED BY <1>7, <1>8, <1>9, <1>10, <1>11, <1>12, <1>13, <1>14, <1>15, <1>16, <1>17, <1>18, <1>19, <1>20 DEF VecImmOps, VecCompareImmOps

(* Every one of them leaves a vector in the destination.                    *)
LEMMA EmulatedCompareTyped ==
    ASSUME NEW p \in Instructions, p.op \in VecCompareImmOps, NEW v1 \in [VRegs -> Vector], NEW r1
    PROVE  \E z \in Vector : emulate_vec(p, p.type, v1, r1) = Put(v1, p.rd, z)
<1> DEFINE t == p.type
           s == SignedOf(t)
           d == p.rd
           i == p.ri
           c == p.imm
<1>1. t \in IntTypes /\ v1[i] \in Vector /\ c \in Int
  <2>1. p.op # "vmovi"
    BY DEF VecCompareImmOps
  <2>2. QED BY <2>1, InstructionRegs
<1>2. Alike(s, t)
  BY <1>1, TypesOfWidth DEF Alike
<1>3. emulate_vec(p, p.type, v1, r1) = emu_vcmpi(t, v1, d, i, c, VecOp[p.op])
  BY DEF emulate_vec, VecCompareOps, VecCompareImmOps
<1>4. VecOp[p.op] \in CompareOps
  BY DEF VecOp, VecCompareImmOps, CompareOps
<1>5. emu_vcmpi(t, v1, d, i, c, VecOp[p.op]) = KFFVdi8(s, t, v1, d, i, c, VecOp[p.op])
  BY DEF emu_vcmpi, svx_di8
<1> DEFINE op == VecOp[p.op]
<1> HIDE DEF t, s, d, i, c, op
<1>6. \E z \in Vector : KFFVdi8(s, t, v1, d, i, c, op) = Put(v1, d, z)
  <2>1. op \in CompareOps
    BY <1>4 DEF op
  <2>2. QED BY <1>1, <1>2, <2>1, CompareLoopTyped
<1>7. QED BY <1>3, <1>5, <1>6 DEF op, d

-----------------------------------------------------------------------------
(* Instructions of one vector.                                              *)
LEMMA UnaryLoop ==
    ASSUME NEW t \in IntTypes, NEW v1, NEW d, NEW i, NEW a \in Vector, v1[i] = a, NEW op,
           NEW z \in Vector,
           \A k \in LaneIndex(Width(t)) :
               /\ vop1_(op, LaneField(t, a, k)) \in Int
               /\ Lane(Width(t), z, k) = Low(Width(t), vop1_(op, LaneField(t, a, k)))
    PROVE  KFFVdi(t, t, v1, d, i, op) = Put(v1, d, z)
<1> DEFINE val == [k \in LaneIndex(Width(t)) |-> vop1_(op, LaneField(t, a, k))]
<1>1. KFFVdi(t, t, v1, d, i, op) = Loop(v1, t, d, val)
  BY DEF KFFVdi, Lanes
<1>2. \A k \in LaneIndex(Width(t)) : /\ val[k] \in Int
                                      /\ Lane(Width(t), z, k) = Low(Width(t), val[k])
  OBVIOUS
<1> HIDE DEF val
<1>3. QED BY <1>1, <1>2, LoopSame

(* The lanes of a negated vector.                                           *)
LEMMA NegatedLanes ==
    ASSUME NEW w \in Widths, NEW a \in Vector
    PROVE  /\ Negated(w, a) \in Vector
           /\ \A k \in LaneIndex(w) : Lane(w, Negated(w, a), k) = Low(w, 0 - Lane(w, a, k))
<1>1. "psub" \in LaneWiseOps /\ PlainUse("psub", w) /\ Zero \in Vector
  BY ConstantLanes DEF LaneWiseOps, PlainUse
<1>2. /\ ExecVector("psub", w, Zero, a) \in Vector
      /\ \A k \in LaneIndex(w) : Lane(w, ExecVector("psub", w, Zero, a), k)
                                  = LaneWise("psub", w, Lane(w, Zero, k), Lane(w, a, k))
  BY <1>1, LaneWiseLanes
<1>3. \A k \in LaneIndex(w) : Lane(w, Zero, k) = 0
  BY ConstantLanes
<1>4. \A x, y : LaneWise("psub", w, x, y) = Low(w, x - y)
  BY DEF LaneWise
<1>5. QED BY <1>2, <1>3, <1>4 DEF Negated

(* The emulator's instructions of one vector.                               *)
LEMMA EmulatedUnary ==
    ASSUME NEW p \in Instructions, NEW v1 \in [VRegs -> Vector], NEW r1
    PROVE  LET w == Width(p.type)
               a == v1[p.ri]
           IN  /\ p.op = "vmov" => emulate_vec(p, p.type, v1, r1) = Put(v1, p.rd, a)
               /\ p.op = "vmovi" => emulate_vec(p, p.type, v1, r1) = Put(v1, p.rd, Splat(w, p.imm))
               /\ p.op = "vneg" => emulate_vec(p, p.type, v1, r1) = Put(v1, p.rd, Negated(w, a))
               /\ p.op = "vbnot" => emulate_vec(p, p.type, v1, r1) = Put(v1, p.rd, Not(a))
<1> DEFINE t == p.type
           d == p.rd
           i == p.ri
           c == p.imm
           w == Width(t)
           a == v1[i]
<1>1. t \in IntTypes /\ c \in Int /\ w \in Widths /\ (p.op # "vmovi" => a \in Vector)
  BY InstructionRegs, WidthsInRange
<1>2. ASSUME p.op \in {"vmov", "vneg"}, NEW k \in LaneIndex(w)
      PROVE  LET u == LaneField(t, a, k)
             IN  /\ vop1_("neg", u) \in Int /\ vop1_("nop", u) \in Int
                 /\ Low(w, vop1_("neg", u)) = Low(w, 0 - Lane(w, a, k))
                 /\ Low(w, vop1_("nop", u)) = Lane(w, a, k)
  <2> DEFINE u == LaneField(t, a, k)
             x == Lane(w, a, k)
  <2>1. a \in Vector
    BY <1>1, <1>2
  <2>2. /\ w \in Widths
        /\ u \in Int
        /\ Low(w, u) = x
        /\ x \in Values(w)
        /\ t \in UnsignedTypes => u = x
    BY <1>1, <1>2, <2>1, LaneFieldLow
  <2>3. x \in Int /\ Low(w, x) = x /\ w \in 0 .. W64
    <3>1. w \in 0 .. W64
      BY <1>1, WidthFacts
    <3> HIDE DEF x, w
    <3>2. QED BY <2>2, <3>1, LowId DEF Values
  <2> HIDE DEF u, x, w
  <2>4. Low(w, u) = Low(w, x)
    BY <2>2, <2>3
  <2>5. /\ Low(w, vop_("add", u, u)) = Low(w, x + x)
        /\ Low(w, vop_("sub", u, u)) = Low(w, x - x)
        /\ Low(w, vop_("mul", u, u)) = Low(w, x * x)
        /\ Low(w, vop1_("neg", u)) = Low(w, 0 - x)
        /\ Low(w, vop1_("nop", u)) = Low(w, x)
        /\ vop_("add", u, u) \in Int /\ vop_("sub", u, u) \in Int /\ vop_("mul", u, u) \in Int
        /\ vop1_("neg", u) \in Int /\ vop1_("nop", u) \in Int
    BY <1>1, <2>2, <2>3, <2>4, LaneArithmetic
  <2>6. QED BY <2>3, <2>5 DEF u, x
<1>3. CASE p.op = "vmov"
  <2>1. emulate_vec(p, p.type, v1, r1) = KFFVdi(t, t, v1, d, i, "nop")
    BY <1>3 DEF emulate_vec, VecCompareOps, VecCompareImmOps, emu_vmov, vx_di, KFVdi
  <2>2. a \in Vector
    BY <1>1, <1>3
  <2>3. \A k \in LaneIndex(w) : /\ vop1_("nop", LaneField(t, a, k)) \in Int
                                 /\ Lane(w, a, k) = Low(w, vop1_("nop", LaneField(t, a, k)))
    BY <1>2, <1>3
  <2> DEFINE e == "nop"
             b == a
  <2>4. b = v1[i] /\ b \in Vector
        /\ \A k \in LaneIndex(w) : /\ vop1_(e, LaneField(t, b, k)) \in Int
                                    /\ Lane(w, b, k) = Low(w, vop1_(e, LaneField(t, b, k)))
    BY <2>2, <2>3
  <2> HIDE DEF e, b, t, d, i
  <2>5. KFFVdi(t, t, v1, d, i, e) = Put(v1, d, b)
    BY <1>1, <2>4, UnaryLoop
  <2>6. QED BY <1>3, <2>1, <2>4, <2>5 DEF e, b, t, d, i
<1>4. CASE p.op = "vneg"
  <2>1. emulate_vec(p, p.type, v1, r1) = KFFVdi(t, t, v1, d, i, "neg")
    BY <1>4 DEF emulate_vec, VecCompareOps, VecCompareImmOps, emu_vneg, vx_di, KFVdi
  <2>2. a \in Vector
    BY <1>1, <1>4
  <2> DEFINE z == Negated(w, a)
  <2>3. z \in Vector /\ \A k \in LaneIndex(w) : Lane(w, z, k) = Low(w, 0 - Lane(w, a, k))
    <3> HIDE DEF w, a
    <3>1. QED BY <1>1, <2>2, NegatedLanes
  <2>4. \A k \in LaneIndex(w) : /\ vop1_("neg", LaneField(t, a, k)) \in Int
                                 /\ Lane(w, z, k) = Low(w, vop1_("neg", LaneField(t, a, k)))
    BY <1>2, <1>4, <2>3
  <2> DEFINE e == "neg"
             b == a
  <2>5. b = v1[i] /\ b \in Vector
        /\ \A k \in LaneIndex(w) : /\ vop1_(e, LaneField(t, b, k)) \in Int
                                    /\ Lane(w, z, k) = Low(w, vop1_(e, LaneField(t, b, k)))
    BY <2>2, <2>4
  <2> HIDE DEF e, b, t, d, i, z
  <2>6. KFFVdi(t, t, v1, d, i, e) = Put(v1, d, z)
    BY <1>1, <2>3, <2>5, UnaryLoop
  <2>7. QED BY <1>4, <2>1, <2>6 DEF e, t, d, i, z
<1>5. CASE p.op = "vbnot"
  <2> DEFINE q == "UINT64"
             z == Not(a)
             e == "bnot"
  <2>1. emulate_vec(p, p.type, v1, r1) = KFFVdi(q, q, v1, d, i, e)
    BY <1>5 DEF emulate_vec, VecCompareOps, VecCompareImmOps, emu_vbnot
  <2>2. a \in Vector /\ q \in IntTypes /\ Width(q) = W64 /\ W64 \in Widths
    BY <1>1, <1>5, WidthFacts DEF IntTypes, UnsignedTypes, Width
  <2> HIDE DEF q, e
  <2>3. z \in Vector /\ \A k \in LaneIndex(W64) : Lane(W64, z, k) = Flipped(W64, Lane(W64, a, k))
    <3> HIDE DEF a
    <3>1. QED BY <2>2, NotLanes
  <2>4. ASSUME NEW k \in LaneIndex(Width(q))
        PROVE  /\ vop1_(e, LaneField(q, a, k)) \in Int
               /\ Lane(Width(q), z, k) = Low(Width(q), vop1_(e, LaneField(q, a, k)))
    <3> DEFINE u == LaneField(q, a, k)
               x == Lane(W64, a, k)
    <3> HIDE DEF a
    <3>1. /\ Width(q) \in Widths
          /\ u \in Int
          /\ Low(Width(q), u) = Lane(Width(q), a, k)
          /\ Lane(Width(q), a, k) \in Values(Width(q))
          /\ q \in UnsignedTypes => u = Lane(Width(q), a, k)
      BY <2>2, LaneFieldLow
    <3>2. u \in Int /\ Low(W64, u) = x /\ x \in Values(W64)
      BY <2>2, <3>1
    <3> HIDE DEF u, x
    <3>3. x \in Int /\ Low(W64, x) = x
      BY <2>2, <3>2, WidthFacts, LowId DEF Values
    <3>4. Low(W64, u) = Low(W64, x)
      BY <3>2, <3>3
    <3>5. /\ Low(W64, vop_("band", u, u)) = Low(W64, BitAnd(x, x))
          /\ Low(W64, vop_("bor", u, u)) = Low(W64, BitOr(x, x))
          /\ Low(W64, vop_("bxor", u, u)) = Low(W64, BitXor(x, x))
          /\ Low(W64, vop_("bandn", u, u)) = Low(W64, BitAnd(Low(W64, BitXor(x, 2 ^ W64 - 1)), x))
          /\ Low(W64, vop1_("bnot", u)) = Low(W64, BitXor(x, 2 ^ W64 - 1))
          /\ vop_("band", u, u) \in Int /\ vop_("bor", u, u) \in Int /\ vop_("bxor", u, u) \in Int
          /\ vop_("bandn", u, u) \in Int /\ vop1_("bnot", u) \in Int
      BY <2>2, <3>2, <3>3, <3>4, LaneLogic
    <3>6. Lane(W64, z, k) = Flipped(W64, x)
      BY <2>2, <2>3, <2>4 DEF x
    <3>7. QED BY <2>2, <3>5, <3>6 DEF Flipped, u, e
  <2> DEFINE b == a
  <2>5. b = v1[i] /\ b \in Vector
        /\ \A k \in LaneIndex(Width(q)) : /\ vop1_(e, LaneField(q, b, k)) \in Int
                                           /\ Lane(Width(q), z, k) = Low(Width(q), vop1_(e, LaneField(q, b, k)))
    BY <2>2, <2>4
  <2> HIDE DEF b, d, i, z
  <2>6. KFFVdi(q, q, v1, d, i, e) = Put(v1, d, z)
    BY <2>2, <2>3, <2>5, UnaryLoop
  <2>7. QED BY <1>5, <2>1, <2>6 DEF d, i, z
<1>6. CASE p.op = "vmovi"
  <2> DEFINE z == Splat(w, c)
             val == [k \in LaneIndex(w) |-> c]
  <2>1. emulate_vec(p, p.type, v1, r1) = Loop(v1, t, d, val)
    BY <1>6 DEF emulate_vec, VecCompareOps, VecCompareImmOps, emu_vmovi, TKVdimm12, KFVdimm12, Lanes
  <2>2. z \in Vector /\ \A k \in LaneIndex(w) : Lane(w, z, k) = Low(w, c)
    <3> HIDE DEF w, c
    <3>1. QED BY <1>1, SplatLanes
  <2>3. \A k \in LaneIndex(w) : val[k] \in Int /\ Lane(w, z, k) = Low(w, val[k])
    BY <1>1, <2>2
  <2> HIDE DEF val, z, t, d
  <2>4. Loop(v1, t, d, val) = Put(v1, d, z)
    BY <1>1, <2>2, <2>3, LoopSame
  <2>5. QED BY <1>6, <2>1, <2>4 DEF z, t, d
<1>7. QED BY <1>3, <1>4, <1>5, <1>6

-----------------------------------------------------------------------------
(* Shifts.  What C computes of a shift by a count that it defines is what   *)
(* the processor makes of a lane.                                           *)
ShiftName == [psll |-> "sll", psrl |-> "srl", psra |-> "sra"]
LimitOf(w) == IF w = W64 THEN W64 ELSE W32

(* To the left,                                                             *)
LEMMA LaneShiftLeft ==
    ASSUME NEW w \in Widths, NEW u \in Int, NEW x \in Values(w), Low(w, u) = x, NEW n \in 0 .. W64
    PROVE  vop_("sll", u, n) \in Int /\ Low(w, vop_("sll", u, n)) = ShiftLane("psll", w, x, n)
<1> DEFINE h == 2 ^ n
           e == u * h
<1>1. w \in 0 .. W64 /\ w \in Nat /\ n \in Nat /\ x \in Int /\ Low(w, x) = x
  BY WidthFacts, LowId, Power DEF Values
<1>2. h \in Nat \ {0}
  BY Power
<1>3. vop_("sll", u, n) = e
  BY DEF vop_, op_
<1>4. e \in Int
  BY <1>2
<1>5. CASE n < w
  <2>1. ShiftLane("psll", w, x, n) = Low(w, x * h)
    BY <1>1, <1>5 DEF ShiftLane
  <2>2. h \in Int /\ Low(w, h) \in Int /\ Low(w, u) = Low(w, x)
    BY <1>1, <1>2, LowRange
  <2> DEFINE g == h
  <2> HIDE DEF h
  <2>3. Low(w, u * h) = Low(w, x * h)
    BY <1>1, <2>2, LowArithmetic
  <2>4. QED BY <1>3, <1>4, <2>1, <2>3
<1>6. CASE n >= w
  <2>1. ShiftLane("psll", w, x, n) = 0
    BY <1>1, <1>6 DEF ShiftLane
  <2>2. 2 ^ n = 2 ^ w * 2 ^ (n - w) /\ 2 ^ (n - w) \in Nat \ {0} /\ 2 ^ w \in Nat \ {0}
    <3>1. w \in 0 .. n
      BY <1>1, <1>6
    <3>2. QED BY <3>1, PowerParts
  <2> DEFINE m == 2 ^ w
             g == 2 ^ (n - w)
             k == u * g
             zero == 0
  <2>3. k \in Int /\ e = zero + m * k /\ zero \in Int
    <3> HIDE DEF m, g
    <3>1. m \in Int /\ g \in Int /\ h = m * g
      BY <2>2 DEF m, g
    <3> HIDE DEF h
    <3>2. u * (m * g) = m * (u * g)
      BY <3>1
    <3>3. k \in Int
      BY <3>1
    <3>4. e = m * k
      BY <3>1, <3>2
    <3>5. QED BY <1>4, <3>3, <3>4
  <2> HIDE DEF k, e, zero, m
  <2>4. Low(w, e) = Low(w, zero)
    BY <1>1, <1>4, <2>3, LowSame DEF m
  <2>5. Low(w, zero) = 0
    <3>1. m \in Nat \ {0}
      BY <2>2 DEF m
    <3>2. 0 % m = 0
      BY <3>1
    <3>3. QED BY <3>2 DEF m, zero, Low
  <2>6. QED BY <1>3, <1>4, <2>1, <2>4, <2>5
<1>7. QED BY <1>1, <1>5, <1>6

(* to the right,                                                            *)
LEMMA LaneShiftRight ==
    ASSUME NEW w \in Widths, NEW x \in Values(w), NEW n \in 0 .. W64
    PROVE  vop_("srl", x, n) \in Int /\ Low(w, vop_("srl", x, n)) = ShiftLane("psrl", w, x, n)
<1> DEFINE h == 2 ^ n
           m == 2 ^ w
           e == x \div h
<1>1. w \in 0 .. W64 /\ w \in Nat /\ n \in Nat /\ x \in 0 .. m - 1
  BY WidthFacts, Power DEF Values
<1>2. h \in Nat \ {0} /\ m \in Nat \ {0}
  BY <1>1, Power
<1>3. vop_("srl", x, n) = e
  BY DEF vop_, op_
<1> HIDE DEF h, m, e
<1>4. e \in 0 .. x
  BY <1>1, <1>2, DivSmaller DEF e
<1>5. e \in 0 .. m - 1 /\ e \in Int
  BY <1>1, <1>2, <1>4
<1>6. Low(w, e) = e
  BY <1>1, <1>5, LowId DEF m
<1>7. CASE n < w
  <2>1. ShiftLane("psrl", w, x, n) = e
    BY <1>1, <1>7 DEF ShiftLane, e, h
  <2>2. QED BY <1>3, <1>5, <1>6, <2>1
<1>8. CASE n >= w
  <2>1. ShiftLane("psrl", w, x, n) = 0
    BY <1>1, <1>8 DEF ShiftLane
  <2>2. PICK k \in Nat \ {0} : h = m * k
    BY <1>1, <1>8, Power DEF h, m
  <2>3. x \in 0 .. h - 1 /\ x \in Int
    <3>1. m <= h
      BY <1>2, <2>2
    <3>2. QED BY <1>1, <1>2, <3>1
  <2>4. x = h * 0 + x /\ 0 \in Int
    BY <1>2, <2>3
  <2>5. e = 0
    BY <1>2, <2>3, <2>4, ModUnique DEF e
  <2>6. QED BY <1>3, <1>5, <1>6, <2>1, <2>5
<1>9. QED BY <1>1, <1>7, <1>8

(* and to the right with the sign.                                          *)
LEMMA LaneShiftSigned ==
    ASSUME NEW w \in Widths, NEW x \in Values(w), NEW n \in 0 .. W64
    PROVE  /\ vop_("sra", ToSigned(w, x), n) \in Int
           /\ Low(w, vop_("sra", ToSigned(w, x), n)) = ShiftLane("psra", w, x, n)
<1> DEFINE s == ToSigned(w, x)
           h == 2 ^ n
           e == s \div h
           g == 2 ^ (w - 1)
<1>1. w \in 0 .. W64 /\ w \in 1 .. W64 /\ w - 1 \in 0 .. W64 /\ w \in Nat /\ n \in Nat /\ x \in Int
  BY WidthFacts DEF Values
<1>2. h \in Nat \ {0} /\ g \in Nat \ {0}
  BY <1>1, Power
<1>3. s \in -g .. g - 1
  BY <1>1, SignedRange DEF SignedValues
<1>4. vop_("sra", s, n) = e
  BY DEF vop_, op_
<1> HIDE DEF s, h, e, g
<1>5. s \in Int /\ e \in Int
  BY <1>2, <1>3, ModRange DEF e
<1>6. CASE n < w
  <2>1. ShiftLane("psra", w, x, n) = Low(w, e)
    BY <1>1, <1>6 DEF ShiftLane, e, s, h
  <2>2. QED BY <1>4, <1>5, <2>1 DEF s
<1>7. CASE n >= w
  <2>1. ShiftLane("psra", w, x, n) = Low(w, s \div g)
    BY <1>1, <1>7 DEF ShiftLane, s, g
  <2>2. PICK k \in Nat \ {0} : h = g * k
    <3>1. w - 1 <= n
      BY <1>1, <1>7
    <3>2. QED BY <1>1, <3>1, Power DEF h, g
  <2>3. g <= h
    BY <1>2, <2>2
  <2>4. CASE s >= 0
    <3>1. s \in 0 .. g - 1 /\ s \in 0 .. h - 1 /\ s = g * 0 + s /\ s = h * 0 + s /\ 0 \in Int
      BY <1>2, <1>3, <2>3, <2>4
    <3>2. s \div g = 0 /\ s \div h = 0
      BY <1>2, <1>5, <3>1, ModUnique
    <3>3. QED BY <1>4, <1>5, <2>1, <3>2 DEF e, s
  <2>5. CASE s < 0
    <3> DEFINE i == s + g
               j == s + h
    <3>1. i \in 0 .. g - 1 /\ j \in 0 .. h - 1 /\ s = g * (-1) + i /\ s = h * (-1) + j /\ -1 \in Int
      BY <1>2, <1>3, <2>3, <2>5
    <3> HIDE DEF i, j
    <3>2. s \div g = -1 /\ s \div h = -1
      BY <1>2, <1>5, <3>1, ModUnique
    <3>3. QED BY <1>4, <1>5, <2>1, <3>2 DEF e, s
  <2>6. QED BY <1>5, <2>4, <2>5
<1>8. QED BY <1>1, <1>6, <1>7

(* The lanes of a vector shifted by such a count.                           *)
LEMMA CountedLanes ==
    ASSUME NEW op \in ShiftVec, NEW w \in Widths, NEW a \in Vector, NEW n \in 0 .. LimitOf(w) - 1
    PROVE  /\ ByCount(op, w, a, n) \in Vector
           /\ \A k \in LaneIndex(w) : Lane(w, ByCount(op, w, a, n), k)
                                      = ShiftLane(op, w, Lane(w, a, k), n)
<1>1. n \in Int /\ W64 \in Nat \ {0} /\ W32 \in Nat \ {0}
  BY WidthFacts DEF LimitOf
<1>2. CASE op = "psra" /\ w = W64
  <2>1. n \in 0 .. W64 - 1
    BY <1>2 DEF LimitOf
  <2>2. n = W64 * 0 + n /\ 0 \in Int
    BY <1>1
  <2>3. n % W64 = n
    BY <1>1, <2>1, <2>2, ModUnique
  <2>4. \A x : Halved(x, n) = ShiftLane("psra", W64, x, n)
    BY <2>1, <2>3 DEF Halved, ShiftLane
  <2>5. a[1] \in Word /\ a[2] \in Word
    BY VectorParts
  <2>6. HalvedBoth(a, n) \in Vector
    <3>1. Halved(a[1], n) \in Word /\ Halved(a[2], n) \in Word
      BY <1>1, <2>5, HalvedTyped
    <3>2. QED BY <3>1 DEF HalvedBoth, Vector
  <2>7. /\ LaneIndex(W64) = {0, 1}
        /\ Lane(W64, a, 0) = a[1] /\ Lane(W64, a, 1) = a[2]
    BY LaneWord
  <2>8. /\ Lane(W64, HalvedBoth(a, n), 0) = HalvedBoth(a, n)[1]
        /\ Lane(W64, HalvedBoth(a, n), 1) = HalvedBoth(a, n)[2]
    BY <2>6, LaneWord
  <2>9. HalvedBoth(a, n)[1] = Halved(a[1], n) /\ HalvedBoth(a, n)[2] = Halved(a[2], n)
    BY DEF HalvedBoth
  <2>10. ByCount(op, w, a, n) = HalvedBoth(a, n)
    BY <1>2 DEF ByCount
  <2>11. QED BY <1>2, <2>4, <2>6, <2>7, <2>8, <2>9, <2>10
<1>3. CASE ~(op = "psra" /\ w = W64)
  BY <1>1, <1>3, ShiftedLanes DEF ByCount
<1>4. QED BY <1>2, <1>3

(* A loop of shifts.                                                        *)
LEMMA ShiftLoop ==
    ASSUME NEW in, NEW t, Alike(in, t), NEW v1, NEW d, NEW a \in Vector, NEW op \in ShiftVec,
           op = "psrl" => in \in UnsignedTypes, op = "psra" => in \in SignedTypes,
           NEW n \in 0 .. LimitOf(Width(t)) - 1
    PROVE  Loop(v1, t, d, [k \in LaneIndex(Width(t)) |-> vop_(ShiftName[op], LaneField(in, a, k), n)])
           = Put(v1, d, ByCount(op, Width(t), a, n))
<1> DEFINE w == Width(t)
           z == ByCount(op, w, a, n)
           val == [k \in LaneIndex(Width(t)) |-> vop_(ShiftName[op], LaneField(in, a, k), n)]
<1>1. t \in IntTypes /\ w \in Widths /\ in \in IntTypes /\ Width(in) = w
  BY WidthsInRange DEF Alike
<1>2. n \in 0 .. W64
  BY WidthFacts DEF LimitOf
<1>3. z \in Vector /\ \A k \in LaneIndex(w) : Lane(w, z, k) = ShiftLane(op, w, Lane(w, a, k), n)
  <2> HIDE DEF w
  <2>1. QED BY <1>1, CountedLanes DEF w
<1>4. ASSUME NEW k \in LaneIndex(w)
      PROVE  val[k] \in Int /\ Lane(w, z, k) = Low(w, val[k])
  <2> DEFINE u == LaneField(in, a, k)
             x == Lane(w, a, k)
  <2>1. /\ Width(in) \in Widths
        /\ LaneField(in, a, k) \in Int
        /\ Low(Width(in), LaneField(in, a, k)) = Lane(Width(in), a, k)
        /\ Lane(Width(in), a, k) \in Values(Width(in))
        /\ in \in UnsignedTypes => LaneField(in, a, k) = Lane(Width(in), a, k)
    BY <1>1, LaneFieldLow
  <2>2. in \in SignedTypes => u = ToSigned(w, x)
    BY LaneNumber
  <2>3. u \in Int /\ Low(w, u) = x /\ x \in Values(w) /\ (in \in UnsignedTypes => u = x)
    BY <1>1, <2>1
  <2>4. val[k] = vop_(ShiftName[op], u, n)
    OBVIOUS
  <2>5. Lane(w, z, k) = ShiftLane(op, w, x, n)
    BY <1>3
  <2> HIDE DEF u, x, w, z, val
  <2>6. CASE op = "psll"
    <3>1. vop_("sll", u, n) \in Int /\ Low(w, vop_("sll", u, n)) = ShiftLane("psll", w, x, n)
      BY <1>1, <1>2, <2>3, LaneShiftLeft
    <3>2. QED BY <2>4, <2>5, <2>6, <3>1 DEF ShiftName
  <2>7. CASE op = "psrl"
    <3>1. vop_("srl", x, n) \in Int /\ Low(w, vop_("srl", x, n)) = ShiftLane("psrl", w, x, n)
      BY <1>1, <1>2, <2>3, LaneShiftRight
    <3>2. QED BY <2>3, <2>4, <2>5, <2>7, <3>1 DEF ShiftName
  <2>8. CASE op = "psra"
    <3>1. /\ vop_("sra", ToSigned(w, x), n) \in Int
          /\ Low(w, vop_("sra", ToSigned(w, x), n)) = ShiftLane("psra", w, x, n)
      BY <1>1, <1>2, <2>3, LaneShiftSigned
    <3>2. QED BY <2>2, <2>4, <2>5, <2>8, <3>1 DEF ShiftName
  <2>9. QED BY <2>6, <2>7, <2>8 DEF ShiftVec
<1> HIDE DEF val, z
<1>5. Loop(v1, t, d, val) = Put(v1, d, z)
  BY <1>1, <1>3, <1>4, LoopSame
<1>6. QED BY <1>5 DEF val, z

(* What C defines of instruction p on the scalar registers rr: see         *)
(* ShiftDefined.                                                            *)
Defined(p, rr) ==
    /\ p.op \in VecShiftImmOps => p.imm \in 0 .. Promoted(p.type) - 1
    /\ p.op \in VecShiftOps => rr[p.rj] < Promoted(p.type) /\ rr[p.rj] < 2 ^ Width(p.type)

(* A count that C defines is its own field and its own low byte.            *)
LEMMA DefinedCount ==
    ASSUME NEW t \in IntTypes, NEW y \in Word, y < Promoted(t), y < 2 ^ Width(t), NEW op
    PROVE  /\ y \in 0 .. LimitOf(Width(t)) - 1
           /\ Field(Unsigned(t), y) = y
           /\ CountOf(op, Width(t), y) = y
<1> DEFINE w == Width(t)
           u == Unsigned(t)
<1>1. w \in 0 .. W64 /\ y \in Int /\ y >= 0 /\ u \in UnsignedTypes /\ Width(u) = w
      /\ LimitOf(w) \in Int
  <2>1. W64 \in Int /\ W32 \in Int
    BY WidthAssumption
  <2>2. y \in Int /\ y >= 0
    <3>1. y \in 0 .. 2 ^ W64 - 1 /\ 2 ^ W64 \in Nat
      BY <2>1, Power, WidthFacts, WidthAssumption DEF Word
    <3>2. QED BY <3>1
  <2>3. w \in Widths /\ u \in UnsignedTypes /\ Width(u) = w
    BY WidthsInRange, TypesOfWidth
  <2>4. QED BY <2>1, <2>2, <2>3, WidthFacts DEF LimitOf
<1>2. y \in 0 .. LimitOf(w) - 1
  BY <1>1 DEF Promoted, LimitOf
<1>3. Low(w, y) = y
  <2>1. 2 ^ w \in Nat \ {0}
    BY <1>1, Power
  <2>2. y \in 0 .. 2 ^ w - 1
    BY <1>1, <2>1
  <2> HIDE DEF w
  <2>3. QED BY <1>1, <2>2, LowId
<1>4. Field(u, y) = Low(Width(u), y)
  BY <1>1 DEF Field
<1>5. Low(WCL, y) = y
  <2>1. 2 ^ WCL \in Nat \ {0} /\ WCL \in 0 .. W64 /\ 2 ^ WCL > W64 /\ W64 \in Int /\ W32 \in Int /\ W32 < W64
    BY CountRegisterAssumption, CountRange, Power, WidthFacts, WidthAssumption
  <2>2. y < W64
    BY <1>1, <1>2, <2>1 DEF LimitOf
  <2>3. y \in 0 .. 2 ^ WCL - 1
    BY <1>1, <2>1, <2>2
  <2>4. QED BY <2>1, <2>3, LowId
<1>6. QED BY <1>1, <1>2, <1>3, <1>4, <1>5 DEF CountOf

(* The emulator's shifts by a count in a register.                          *)
LEMMA EmulatedShift ==
    ASSUME NEW p \in Instructions, p.op \in VecShiftOps, NEW v1 \in [VRegs -> Vector],
           NEW r1 \in [Regs -> Word], Defined(p, r1)
    PROVE  LET w == Width(p.type)
               op == ShiftOf[p.op]
           IN  emulate_vec(p, p.type, v1, r1)
               = Put(v1, p.rd, ByCount(op, w, v1[p.ri], CountOf(op, w, r1[p.rj])))
<1> DEFINE t == p.type
           u == Unsigned(t)
           s == SignedOf(t)
           d == p.rd
           i == p.ri
           a == v1[i]
           y == r1[p.rj]
           w == Width(t)
<1>1. t \in IntTypes /\ a \in Vector /\ y \in Word /\ y < Promoted(t) /\ y < 2 ^ Width(t)
  <2>1. p.op # "vmovi"
    BY DEF VecShiftOps
  <2>2. QED BY <2>1, InstructionRegs DEF Defined
<1>2. u \in UnsignedTypes /\ s \in SignedTypes /\ Alike(u, t) /\ Alike(s, t)
  BY <1>1, TypesOfWidth DEF Alike
<1>3. \A op : /\ y \in 0 .. LimitOf(Width(t)) - 1
              /\ Field(u, y) = y
              /\ CountOf(op, w, y) = y
  <2> HIDE DEF t, y
  <2>1. QED BY <1>1, DefinedCount
<1> HIDE DEF t, u, s, d, i, a, y, w
<1>4. ASSUME NEW op \in ShiftVec, NEW in, Alike(in, t),
             op = "psrl" => in \in UnsignedTypes, op = "psra" => in \in SignedTypes
      PROVE  Loop(v1, t, d, [k \in LaneIndex(Width(t)) |-> vop_(ShiftName[op], LaneField(in, a, k), y)])
             = Put(v1, d, ByCount(op, Width(t), a, y))
  BY <1>1, <1>3, <1>4, ShiftLoop
<1>5. CASE p.op = "vsll"
  <2>1. emulate_vec(p, p.type, v1, r1) = emu_vsll(t, v1, r1, d, i, p.rj)
    BY <1>5 DEF emulate_vec, VecCompareOps, VecCompareImmOps, t, d, i
  <2>2. emu_vsll(t, v1, r1, d, i, p.rj)
        = Loop(v1, t, d, [k \in LaneIndex(Width(t)) |-> vop_("sll", LaneField(u, a, k), y)])
    BY <1>3 DEF emu_vsll, EMU_IIU_vvr, KFV_vvr, Lanes, u, a, y
  <2>3. ShiftName["psll"] = "sll" /\ ShiftOf[p.op] = "psll" /\ "psll" \in ShiftVec
    BY <1>5 DEF ShiftName, ShiftOf, ShiftVec
  <2>4. Loop(v1, t, d, [k \in LaneIndex(Width(t)) |-> vop_(ShiftName["psll"], LaneField(u, a, k), y)])
        = Put(v1, d, ByCount("psll", Width(t), a, y))
    BY <1>2, <1>4, <2>3
  <2>5. CountOf("psll", w, y) = y
    BY <1>3
  <2>6. QED BY <2>1, <2>2, <2>3, <2>4, <2>5 DEF t, d, i, a, y, w
<1>6. CASE p.op = "vsrl"
  <2>1. emulate_vec(p, p.type, v1, r1) = emu_vsrl(t, v1, r1, d, i, p.rj)
    BY <1>6 DEF emulate_vec, VecCompareOps, VecCompareImmOps, t, d, i
  <2>2. emu_vsrl(t, v1, r1, d, i, p.rj)
        = Loop(v1, t, d, [k \in LaneIndex(Width(t)) |-> vop_("srl", LaneField(u, a, k), y)])
    BY <1>3 DEF emu_vsrl, EMU_IIU_vvr, KFV_vvr, Lanes, u, a, y
  <2>3. ShiftName["psrl"] = "srl" /\ ShiftOf[p.op] = "psrl" /\ "psrl" \in ShiftVec
    BY <1>6 DEF ShiftName, ShiftOf, ShiftVec
  <2>4. Loop(v1, t, d, [k \in LaneIndex(Width(t)) |-> vop_(ShiftName["psrl"], LaneField(u, a, k), y)])
        = Put(v1, d, ByCount("psrl", Width(t), a, y))
    BY <1>2, <1>4, <2>3
  <2>5. CountOf("psrl", w, y) = y
    BY <1>3
  <2>6. QED BY <2>1, <2>2, <2>3, <2>4, <2>5 DEF t, d, i, a, y, w
<1>7. CASE p.op = "vsra"
  <2>1. emulate_vec(p, p.type, v1, r1) = emu_vsra(t, v1, r1, d, i, p.rj)
    BY <1>7 DEF emulate_vec, VecCompareOps, VecCompareImmOps, t, d, i
  <2>2. emu_vsra(t, v1, r1, d, i, p.rj)
        = Loop(v1, t, d, [k \in LaneIndex(Width(t)) |-> vop_("sra", LaneField(s, a, k), y)])
    BY <1>3 DEF emu_vsra, EMU_ISU_vvr, KFV_vvr, Lanes, u, s, a, y
  <2>3. ShiftName["psra"] = "sra" /\ ShiftOf[p.op] = "psra" /\ "psra" \in ShiftVec
    BY <1>7 DEF ShiftName, ShiftOf, ShiftVec
  <2>4. Loop(v1, t, d, [k \in LaneIndex(Width(t)) |-> vop_(ShiftName["psra"], LaneField(s, a, k), y)])
        = Put(v1, d, ByCount("psra", Width(t), a, y))
    BY <1>2, <1>4, <2>3
  <2>5. CountOf("psra", w, y) = y
    BY <1>3
  <2>6. QED BY <2>1, <2>2, <2>3, <2>4, <2>5 DEF t, d, i, a, y, w
<1>8. QED BY <1>5, <1>6, <1>7 DEF VecShiftOps

(* Its shifts by an immediate count.                                        *)
LEMMA EmulatedShiftImmediate ==
    ASSUME NEW p \in Instructions, p.op \in VecShiftImmOps, NEW v1 \in [VRegs -> Vector],
           NEW r1, Defined(p, r1)
    PROVE  emulate_vec(p, p.type, v1, r1)
           = Put(v1, p.rd, ByCount(ShiftOf[p.op], Width(p.type), v1[p.ri], p.imm))
<1> DEFINE t == p.type
           u == Unsigned(t)
           s == SignedOf(t)
           d == p.rd
           i == p.ri
           a == v1[i]
           y == p.imm
<1>1. t \in IntTypes /\ a \in Vector /\ y \in 0 .. LimitOf(Width(t)) - 1
  <2>1. p.op # "vmovi"
    BY DEF VecShiftImmOps
  <2>2. Promoted(t) = LimitOf(Width(t))
    BY DEF Promoted, LimitOf
  <2>3. QED BY <2>1, <2>2, InstructionRegs DEF Defined
<1>2. /\ u \in UnsignedTypes /\ s \in SignedTypes /\ Alike(u, u) /\ Alike(s, s) /\ Alike(t, t)
      /\ Width(u) = Width(t) /\ Width(s) = Width(t)
  BY <1>1, TypesOfWidth DEF Alike
<1> HIDE DEF t, u, s, d, i, a, y
<1>4. ASSUME NEW op \in ShiftVec, NEW in, Alike(in, in), Width(in) = Width(t),
             op = "psrl" => in \in UnsignedTypes, op = "psra" => in \in SignedTypes
      PROVE  KFVdi8(in, v1, d, i, y, ShiftName[op]) = Put(v1, d, ByCount(op, Width(t), a, y))
  <2>1. y \in 0 .. LimitOf(Width(in)) - 1
    BY <1>1, <1>4
  <2>2. Loop(v1, in, d, [k \in LaneIndex(Width(in)) |-> vop_(ShiftName[op], LaneField(in, a, k), y)])
        = Put(v1, d, ByCount(op, Width(in), a, y))
    BY <1>1, <1>4, <2>1, ShiftLoop
  <2>3. KFVdi8(in, v1, d, i, y, ShiftName[op])
        = Loop(v1, in, d, [k \in LaneIndex(Width(in)) |-> vop_(ShiftName[op], LaneField(in, a, k), y)])
    BY DEF KFVdi8, Lanes, a
  <2>4. QED BY <1>4, <2>2, <2>3
<1>5. CASE p.op = "vslli"
  <2>1. emulate_vec(p, p.type, v1, r1) = KFVdi8(t, v1, d, i, y, "sll")
    BY <1>5 DEF emulate_vec, VecCompareOps, VecCompareImmOps, emu_vslli, vi_di8, t, d, i, y
  <2>2. ShiftName["psll"] = "sll" /\ ShiftOf[p.op] = "psll" /\ "psll" \in ShiftVec
    BY <1>5 DEF ShiftName, ShiftOf, ShiftVec
  <2>3. KFVdi8(t, v1, d, i, y, ShiftName["psll"]) = Put(v1, d, ByCount("psll", Width(t), a, y))
    BY <1>2, <1>4, <2>2
  <2>4. QED BY <2>1, <2>2, <2>3 DEF t, d, i, a, y
<1>6. CASE p.op = "vsrli"
  <2>1. emulate_vec(p, p.type, v1, r1) = KFVdi8(u, v1, d, i, y, "srl")
    BY <1>6 DEF emulate_vec, VecCompareOps, VecCompareImmOps, emu_vsrli, TKUVdi8, t, u, d, i, y
  <2>2. ShiftName["psrl"] = "srl" /\ ShiftOf[p.op] = "psrl" /\ "psrl" \in ShiftVec
    BY <1>6 DEF ShiftName, ShiftOf, ShiftVec
  <2>3. KFVdi8(u, v1, d, i, y, ShiftName["psrl"]) = Put(v1, d, ByCount("psrl", Width(t), a, y))
    BY <1>2, <1>4, <2>2
  <2>4. QED BY <2>1, <2>2, <2>3 DEF t, d, i, a, y
<1>7. CASE p.op = "vsrai"
  <2>1. emulate_vec(p, p.type, v1, r1) = KFVdi8(s, v1, d, i, y, "sra")
    BY <1>7 DEF emulate_vec, VecCompareOps, VecCompareImmOps, emu_vsrai, TKIVdi8, t, s, d, i, y
  <2>2. ShiftName["psra"] = "sra" /\ ShiftOf[p.op] = "psra" /\ "psra" \in ShiftVec
    BY <1>7 DEF ShiftName, ShiftOf, ShiftVec
  <2>3. KFVdi8(s, v1, d, i, y, ShiftName["psra"]) = Put(v1, d, ByCount("psra", Width(t), a, y))
    BY <1>2, <1>4, <2>2
  <2>4. QED BY <2>1, <2>2, <2>3 DEF t, d, i, a, y
<1>8. QED BY <1>5, <1>6, <1>7 DEF VecShiftImmOps

-----------------------------------------------------------------------------
(* The processor that a register file is loaded into.                       *)
LEMMA LoadedParts ==
    ASSUME NEW f \in Files
    PROVE  /\ f.v \in [VRegs -> Vector] /\ f.r \in [Regs -> Word]
           /\ Loaded(f) \in Machines
           /\ \A y \in VRegs : y \in Regs16 \ X_FREE /\ Loaded(f).x[y] = f.v[y]
           /\ \A y \in Regs : y \in Regs16 \ {13, 14} /\ Loaded(f).g[y] = f.r[y]
<1> DEFINE x == [y \in Regs16 |-> IF y \in VRegs THEN f.v[y] ELSE << Junk, Junk >>]
           g == [y \in Regs16 |-> IF y \in Regs THEN f.r[y] ELSE Junk]
<1>1. f.v \in [VRegs -> Vector] /\ f.r \in [Regs -> Word] /\ Junk \in Word
  BY JitVecAssumption
<1>2. \A y \in VRegs : y \in Regs16 \ X_FREE
  BY JitVecAssumption
<1>3. \A y \in Regs : y \in Regs16 \ {13, 14}
  BY JitVecAssumption DEF R_FREE
<1>4. << Junk, Junk >> \in Vector
  BY <1>1 DEF Vector
<1>5. x \in [Regs16 -> Vector]
  BY <1>1, <1>4
<1>6. g \in [Regs16 -> Word]
  BY <1>1
<1>7. Loaded(f) = [x |-> x, g |-> g]
  BY DEF Loaded, Machine
<1>8. Loaded(f) \in Machines /\ Loaded(f).x = x /\ Loaded(f).g = g
  BY <1>5, <1>6, <1>7 DEF Machines
<1>9. QED BY <1>1, <1>2, <1>3, <1>8

(* The emulator puts the result of an instruction into its destination.     *)
LEMMA Emulated ==
    ASSUME NEW p \in Instructions, NEW f \in Files, Defined(p, f.r),
           p.op \in VecCompareImmOps => Width(p.type) # W64,
           NEW z, Result(p, Loaded(f), z)
    PROVE  emulate_vec(p, p.type, f.v, f.r) = Put(f.v, p.rd, z)
<1> DEFINE w == Width(p.type)
           m == Loaded(f)
           v1 == f.v
           r1 == f.r
           op == ShiftOf[p.op]
<1>1. /\ v1 \in [VRegs -> Vector] /\ r1 \in [Regs -> Word]
      /\ \A y \in VRegs : m.x[y] = v1[y]
      /\ \A y \in Regs : m.g[y] = r1[y]
  BY LoadedParts
<1>2. p.op \in VecOperations
      /\ (p.op # "vmovi" => m.x[p.ri] = v1[p.ri])
      /\ (p.op \in VecBinaryOps => m.x[p.rj] = v1[p.rj])
      /\ (p.op \in VecShiftOps => m.g[p.rj] = r1[p.rj])
  BY <1>1, InstructionRegs
<1>3. Defined(p, r1) /\ Result(p, m, z)
  OBVIOUS
<1> HIDE DEF m, v1, r1
<1>4. CASE p.op \in VecBinaryOps
  <2>1. z = Both(BaseOf[p.op], w, v1[p.ri], v1[p.rj])
    BY <1>2, <1>3, <1>4 DEF Result, VecBinaryOps, VecCompareOps
  <2>2. emulate_vec(p, p.type, v1, r1) = Put(v1, p.rd, Both(BaseOf[p.op], w, v1[p.ri], v1[p.rj]))
    BY <1>1, <1>4, EmulatedBinary
  <2>3. QED BY <2>1, <2>2 DEF v1, r1
<1>5. CASE p.op \in VecImmOps
  <2>1. z = Both(BaseOf[p.op], w, v1[p.ri], Splat(w, p.imm))
    BY <1>2, <1>3, <1>5 DEF Result, VecImmOps, VecCompareImmOps
  <2>2. emulate_vec(p, p.type, v1, r1) = Put(v1, p.rd, Both(BaseOf[p.op], w, v1[p.ri], Splat(w, p.imm)))
    BY <1>1, <1>5, EmulatedImmediate
  <2>3. QED BY <2>1, <2>2 DEF v1, r1
<1>6. CASE p.op \in VecShiftOps
  <2>1. z = ByCount(op, w, v1[p.ri], CountOf(op, w, r1[p.rj]))
    BY <1>2, <1>3, <1>6 DEF Result, VecShiftOps
  <2>2. emulate_vec(p, p.type, v1, r1)
        = Put(v1, p.rd, ByCount(op, w, v1[p.ri], CountOf(op, w, r1[p.rj])))
    BY <1>1, <1>3, <1>6, EmulatedShift
  <2>3. QED BY <2>1, <2>2 DEF v1, r1
<1>7. CASE p.op \in VecShiftImmOps
  <2>1. p.imm \in Nat
    <3>1. Promoted(p.type) \in Int
      BY WidthAssumption DEF Promoted
    <3>2. QED BY <1>3, <1>7, <3>1 DEF Defined
  <2>2. z = ByCount(op, w, v1[p.ri], p.imm)
    BY <1>2, <1>3, <1>7, <2>1 DEF Result, VecShiftImmOps
  <2>3. emulate_vec(p, p.type, v1, r1) = Put(v1, p.rd, ByCount(op, w, v1[p.ri], p.imm))
    BY <1>1, <1>3, <1>7, EmulatedShiftImmediate
  <2>4. QED BY <2>2, <2>3 DEF v1, r1
<1>8. CASE p.op \in VecUnaryOps \cup {"vmovi"}
  <2>1. /\ p.op = "vmov" => emulate_vec(p, p.type, v1, r1) = Put(v1, p.rd, v1[p.ri])
        /\ p.op = "vmovi" => emulate_vec(p, p.type, v1, r1) = Put(v1, p.rd, Splat(w, p.imm))
        /\ p.op = "vneg" => emulate_vec(p, p.type, v1, r1) = Put(v1, p.rd, Negated(w, v1[p.ri]))
        /\ p.op = "vbnot" => emulate_vec(p, p.type, v1, r1) = Put(v1, p.rd, Not(v1[p.ri]))
    BY <1>1, EmulatedUnary
  <2>2. /\ p.op = "vmov" => z = v1[p.ri]
        /\ p.op = "vmovi" => z = Splat(w, p.imm)
        /\ p.op = "vneg" => z = Negated(w, v1[p.ri])
        /\ p.op = "vbnot" => z = Not(v1[p.ri])
    BY <1>2, <1>3 DEF Result
  <2>3. QED BY <1>8, <2>1, <2>2 DEF v1, r1, VecUnaryOps
<1>9. QED BY <1>2, <1>4, <1>5, <1>6, <1>7, <1>8 DEF VecOperations

(* So the emulator's registers stay vectors; a comparison of 64-bit lanes   *)
(* with an immediate, where it differs from the native code, included.      *)
LEMMA EmulatedTyped ==
    ASSUME NEW p \in Instructions, NEW f \in Files, Defined(p, f.r),
           NEW s, Computes(p, s)
    PROVE  \E z \in Vector : emulate_vec(p, p.type, f.v, f.r) = Put(f.v, p.rd, z)
<1> DEFINE z == Exec(Loaded(f), s).x[p.rd]
<1>1. /\ f.v \in [VRegs -> Vector] /\ Loaded(f) \in Machines
  BY LoadedParts
<1>2. Exec(Loaded(f), s) \in Machines /\ Result(p, Loaded(f), z)
  BY <1>1 DEF Computes
<1>3. z \in Vector
  <2>1. p.rd \in Regs16
    BY InstructionRegs
  <2> DEFINE n == Exec(Loaded(f), s)
  <2>2. n \in Machines
    BY <1>2
  <2> HIDE DEF n
  <2>3. n.x[p.rd] \in Vector
    BY <2>1, <2>2, Parts16
  <2>4. QED BY <2>3 DEF n
<1> HIDE DEF z
<1>4. CASE p.op \in VecCompareImmOps /\ Width(p.type) = W64
  BY <1>1, <1>4, EmulatedCompareTyped
<1>5. CASE ~(p.op \in VecCompareImmOps /\ Width(p.type) = W64)
  BY <1>2, <1>3, <1>5, Emulated
<1>6. QED BY <1>4, <1>5

-----------------------------------------------------------------------------
(* The inductive invariant, of named parts.  What the constructor found on  *)
(* the processor, and that SSE2 is enabled from vec_setup on: vec_enable    *)
(* asked for it, and only AVX is disabled later.                            *)
FeaturesKept ==
    /\ cpu \in Cpus /\ vec_available = Features!Detect(cpu)
    /\ phase = "enabled" => vec_enable_mask = Asked
    /\ phase \in {"ready", "assembled", "done"} => use_sse2

(* The code: made of instructions of the enabled features, and such that    *)
(* from every state of the processor it computes its instruction.           *)
CodeRight ==
    /\ code \in Seq(Fine)
    /\ phase \in {"new", "enabled", "ready"} => code = << >>
    /\ phase \in {"assembled", "done"} => instr \in Instructions /\ Computes(instr, code)

(* Both runs start on the same register file, and have run to the end.      *)
BothRun ==
    /\ file \in Files /\ r = file.r
    /\ phase # "done" => v = file.v /\ native = Loaded(file)
    /\ phase = "done" => /\ Defined(instr, r)
                         /\ v = emulate_vec(instr, instr.type, file.v, r)
                         /\ native = Exec(Loaded(file), code)

VecInv == /\ phase \in {"new", "enabled", "ready", "assembled", "done"}
          /\ FeaturesKept
          /\ CodeRight
          /\ BothRun

(* Every processor has SSE2, and so the constructor finds it.               *)
LEMMA SseFound ==
    ASSUME NEW c \in Cpus
    PROVE  "SSE2" \in Features!Detect(c)
BY JitVecAssumption DEF Features!Detect, Features!Flags, Features!SSEFlags

(* The calls on the features leave what was found and what is enabled right.*)
LEMMA FeaturesStep ==
    ASSUME FeaturesKept, [Next]_vars, phase \in {"new", "enabled", "ready", "assembled", "done"}
    PROVE  /\ FeaturesKept'
           /\ phase' \in {"new", "enabled", "ready", "assembled", "done"}
<1>1. CASE Enable
  BY <1>1 DEF Enable, FeaturesKept, Features!vec_enable
<1>2. CASE VecSetup
  <2>1. "SSE2" \in vec_available
    BY SseFound DEF FeaturesKept
  <2>2. "SSE2" \in UNION {Features!Implied(f) : f \in vec_enable_mask}
    BY <1>2, AskedAssumption DEF VecSetup, FeaturesKept
  <2>3. use_sse2'
    BY <1>2, <2>1, <2>2 DEF VecSetup, Features!vec_setup, Features!With, use_sse2, Features!use_sse2
  <2>4. QED BY <1>2, <2>3 DEF VecSetup, Features!vec_setup, FeaturesKept
<1>3. CASE DisableAvx
  <2>1. use_sse2'
    BY <1>3 DEF DisableAvx, FeaturesKept, Features!disable, Features!Enabled, Features!Without,
                use_sse2, Features!use_sse2
  <2>2. QED BY <1>3, <2>1 DEF DisableAvx, FeaturesKept, Features!disable, Features!Enabled
<1>4. CASE Run
  BY <1>4 DEF Run, FeaturesKept, featureVars, use_sse2, Features!use_sse2
<1>5. CASE \E p \in Instructions : Assemble(p)
  BY <1>5 DEF Assemble, FeaturesKept, featureVars, use_sse2, Features!use_sse2
<1>6. CASE UNCHANGED vars
  BY <1>6 DEF vars, FeaturesKept, featureVars, use_sse2, Features!use_sse2
<1>7. QED BY <1>1, <1>2, <1>3, <1>4, <1>5, <1>6 DEF Next

(* Code is only assembled once the features are set up, and runs as it is.  *)
LEMMA CodeStep ==
    ASSUME VecInv, [Next]_vars
    PROVE  CodeRight'
<1> USE DEF VecInv
<1>1. ASSUME code' = << >>, phase' \in {"new", "enabled", "ready"}
      PROVE  CodeRight'
  <2>1. << >> \in Seq(Fine')
    OBVIOUS
  <2>2. QED BY <1>1, <2>1 DEF CodeRight
<1>2. CASE Enable
  BY <1>1, <1>2 DEF Enable, CodeRight
<1>3. CASE VecSetup
  BY <1>1, <1>3 DEF VecSetup, CodeRight
<1>4. CASE DisableAvx
  BY <1>1, <1>4 DEF DisableAvx, CodeRight
<1>5. CASE Run
  <2>1. Fine' = Fine
    BY <1>5 DEF Run, Fine, featureVars
  <2>2. QED BY <1>5, <2>1 DEF Run, CodeRight
<1>6. CASE \E p \in Instructions : Assemble(p)
  <2>1. PICK p \in Instructions : Assemble(p)
    BY <1>6
  <2>2. Fine' = Fine
    BY <2>1 DEF Assemble, Fine, featureVars
  <2>3. use_sse2
    BY <2>1 DEF FeaturesKept, Assemble
  <2>4. emit_vector(p, p.type) \in Seq(Fine) /\ Computes(p, emit_vector(p, p.type))
    BY <2>3, EmittedComputes
  <2> DEFINE s == emit_vector(p, p.type)
  <2>5. code' = s /\ instr' = p /\ phase' = "assembled"
    BY <2>1 DEF Assemble
  <2>6. s \in Seq(Fine) /\ Computes(p, s)
    BY <2>4
  <2> HIDE DEF s
  <2>7. QED BY <2>2, <2>5, <2>6 DEF CodeRight
<1>7. CASE UNCHANGED vars
  <2>1. Fine' = Fine
    BY <1>7 DEF vars, Fine, featureVars
  <2>2. QED BY <1>7, <2>1 DEF vars, CodeRight
<1>8. QED BY <1>2, <1>3, <1>4, <1>5, <1>6, <1>7 DEF Next

(* The runs themselves.                                                     *)
LEMMA RunStep ==
    ASSUME VecInv, [Next]_vars
    PROVE  BothRun'
<1> USE DEF VecInv
<1>1. ASSUME UNCHANGED runVars, phase # "done", phase' # "done"
      PROVE  BothRun'
  BY <1>1 DEF BothRun, runVars
<1>2. CASE Enable
  BY <1>1, <1>2 DEF Enable
<1>3. CASE VecSetup
  BY <1>1, <1>3 DEF VecSetup
<1>4. CASE DisableAvx
  BY <1>1, <1>4 DEF DisableAvx
<1>5. CASE Run
  <2>1. Defined(instr, r)
    BY <1>5 DEF Run, ShiftDefined, Defined
  <2>2. v = file.v /\ native = Loaded(file) /\ r = file.r /\ file \in Files
    BY <1>5 DEF Run, BothRun
  <2>3. QED BY <1>5, <2>1, <2>2 DEF Run, BothRun
<1>6. CASE \E p \in Instructions : Assemble(p)
  BY <1>1, <1>6 DEF Assemble
<1>7. CASE UNCHANGED vars
  BY <1>7 DEF vars, BothRun, runVars
<1>8. QED BY <1>2, <1>3, <1>4, <1>5, <1>6, <1>7 DEF Next

(* For all processors, features asked for, register files and programs.     *)
THEOREM VecInvariant == Spec => []VecInv
<1>1. Init => VecInv
  <2> SUFFICES ASSUME Init PROVE VecInv
    OBVIOUS
  <2>1. << >> \in Seq(Fine)
    OBVIOUS
  <2>2. CodeRight
    BY <2>1 DEF Init, CodeRight
  <2>3. FeaturesKept
    BY DEF Init, Features!Init, FeaturesKept
  <2>4. BothRun
    BY DEF Init, BothRun
  <2>5. QED BY <2>2, <2>3, <2>4 DEF Init, VecInv
<1>2. VecInv /\ [Next]_vars => VecInv'
  BY FeaturesStep, CodeStep, RunStep DEF VecInv
<1>3. QED BY <1>1, <1>2, PTL DEF Spec

-----------------------------------------------------------------------------
(* A set of naturals that is not empty has a least element.                 *)
LEMMA LeastOf ==
    ASSUME NEW T, T \subseteq Nat, T # {}
    PROVE  \E x \in T : \A y \in T : x <= y
<1>1. PICK x \in T : \A y \in T : ~(<<y, x>> \in OpToRel(<, Nat))
  BY NatLessThanWellFounded, WFMin
<1>2. \A y \in T : x <= y
  <2> SUFFICES ASSUME NEW y \in T, ~(x <= y) PROVE FALSE
    OBVIOUS
  <2>1. y < x /\ x \in Nat /\ y \in Nat
    OBVIOUS
  <2>2. <<y, x>> \in OpToRel(<, Nat)
    BY <2>1 DEF OpToRel
  <2>3. QED BY <1>1, <2>2
<1>3. QED BY <1>2

(* The first lane of a vector is the field of its first word.               *)
LEMMA FirstLane ==
    ASSUME NEW t \in IntTypes, NEW a \in Vector
    PROVE  0 \in LaneIndex(Width(t)) /\ Field(t, a[1]) = LaneField(t, a, 0)
<1> DEFINE w == Width(t)
           N == PerWord(w)
           y == a[1]
<1>1. w \in Widths /\ w \in 0 .. W64 /\ w \in Int /\ w \in 0 .. w /\ N \in Nat \ {0}
      /\ LaneIndex(w) = 0 .. 2 * N - 1
  <2>1. w \in Widths
    BY WidthsInRange
  <2> HIDE DEF w
  <2>2. QED BY <2>1, WidthFacts, LaneCount
<1>2. y \in Int
  BY VectorParts, WidthFacts, Power DEF Word
<1> HIDE DEF N, y
<1>3. 0 % N = 0 /\ 0 \div N = 0
  <2>1. 0 = N * 0 + 0 /\ 0 \in 0 .. N - 1 /\ 0 \in Int
    BY <1>1
  <2>2. QED BY <1>1, <2>1, ModUnique
<1>4. y \div 2 ^ (w * 0) = y
  <2>1. w * 0 = 0 /\ 2 ^ 0 = 1
    BY <1>1, Power
  <2>2. 2 ^ (w * 0) = 1
    BY <2>1
  <2>3. y \div 1 = y
    BY <1>2
  <2>4. QED BY <2>2, <2>3
<1>5. Lane(w, a, 0) = Low(w, y)
  BY <1>3, <1>4 DEF Lane, N, y
<1>6. Low(w, Low(w, y)) = Low(w, y)
  <2> HIDE DEF w
  <2>1. QED BY <1>1, <1>2, LowOfLow
<1>7. Field(t, Low(w, y)) = Field(t, y)
  BY <1>6 DEF Field, ToSigned
<1>8. QED BY <1>1, <1>5, <1>7 DEF LaneField, y

(* The comparison of vectors is an order whatever the type, and the one of  *)
(* their first lanes where those differ.                                    *)
LEMMA CompareLaws ==
    ASSUME NEW t \in IntTypes, NEW a \in Vector, NEW b \in Vector
    PROVE  /\ vcmp(t, a, b) = 0 <=> a = b
           /\ vcmp(t, b, a) = -vcmp(t, a, b)
           /\ scmp(t, a[1], b[1]) # 0 => vcmp(t, a, b) = scmp(t, a[1], b[1])
<1> DEFINE w == Width(t)
           D == {k \in LaneIndex(w) : LaneField(t, a, k) # LaneField(t, b, k)}
           E == {k \in LaneIndex(w) : LaneField(t, b, k) # LaneField(t, a, k)}
           f == CHOOSE k \in D : \A l \in D : k <= l
           x == LaneField(t, a, f)
           y == LaneField(t, b, f)
<1>1. vcmp(t, a, b) = IF D = {} THEN 0 ELSE CMP(x, y)
  BY DEF vcmp, vcmp_body
<1>2. vcmp(t, b, a) = IF D = {} THEN 0 ELSE CMP(y, x)
  <2>1. D = E
    OBVIOUS
  <2>2. vcmp(t, b, a) = LET h == CHOOSE k \in E : \A l \in E : k <= l
                        IN  IF E = {} THEN 0 ELSE CMP(LaneField(t, b, h), LaneField(t, a, h))
    BY DEF vcmp, vcmp_body
  <2> HIDE DEF D, E
  <2>3. QED BY <2>1, <2>2
<1>3. \A u, z \in Int : /\ CMP(u, z) = 0 <=> u = z
                        /\ CMP(z, u) = -CMP(u, z)
  BY DEF CMP
<1>4. w \in Widths
  BY WidthsInRange
<1>5. \A k \in LaneIndex(w) : /\ LaneField(t, a, k) \in Int /\ LaneField(t, b, k) \in Int
                              /\ Low(w, LaneField(t, a, k)) = Lane(w, a, k)
                              /\ Low(w, LaneField(t, b, k)) = Lane(w, b, k)
  BY LaneFieldLow
<1>6. CASE D = {}
  <2>1. a = b
    <3>1. \A k \in LaneIndex(w) : Lane(w, a, k) = Lane(w, b, k)
      BY <1>5, <1>6
    <3> HIDE DEF w, D
    <3>2. QED BY <1>4, <3>1, SameLanes
  <2>2. scmp(t, a[1], b[1]) = 0
    <3>1. Field(t, a[1]) = LaneField(t, a, 0) /\ 0 \in LaneIndex(w)
      BY FirstLane
    <3>2. scmp(t, a[1], b[1]) = CMP(LaneField(t, a, 0), LaneField(t, a, 0))
      BY <2>1, <3>1 DEF scmp
    <3> HIDE DEF D, w
    <3>3. QED BY <1>3, <1>5, <3>1, <3>2
  <2>3. vcmp(t, a, b) = 0 /\ vcmp(t, b, a) = 0
    <3> HIDE DEF D, x, y
    <3>1. QED BY <1>1, <1>2, <1>6
  <2> DEFINE e == CMP(0, 0)
  <2>4. e = 0 /\ e = -e
    BY <1>3
  <2> HIDE DEF e
  <2>5. vcmp(t, b, a) = -vcmp(t, a, b)
    BY <2>3, <2>4, Zenon
  <2>6. QED BY <2>1, <2>2, <2>3, <2>5
<1>7. CASE D # {}
  <2>1. D \subseteq Nat /\ \A k \in D : k \in LaneIndex(w) /\ LaneField(t, a, k) # LaneField(t, b, k)
    BY DEF LaneIndex
  <2>2. f \in D /\ \A l \in D : f <= l
    <3> HIDE DEF D
    <3>1. \E k \in D : \A l \in D : k <= l
      BY <1>7, <2>1, LeastOf
    <3>2. QED BY <3>1
  <2>3. x \in Int /\ y \in Int /\ x # y
    <3> HIDE DEF D, f, w
    <3>1. QED BY <1>5, <2>1, <2>2
  <2>4. a # b
    BY <2>3
  <2>5. ASSUME scmp(t, a[1], b[1]) # 0
        PROVE  f = 0
    <3>1. /\ Field(t, a[1]) = LaneField(t, a, 0) /\ Field(t, b[1]) = LaneField(t, b, 0)
          /\ 0 \in LaneIndex(w)
      BY FirstLane
    <3>2. LaneField(t, a, 0) # LaneField(t, b, 0)
      <4> HIDE DEF w, D, f, x, y
      <4>1. QED BY <1>3, <1>5, <2>5, <3>1 DEF scmp
    <3>3. 0 \in D
      BY <3>1, <3>2
    <3> HIDE DEF D, f
    <3>4. QED BY <2>1, <2>2, <3>3
  <2>6. scmp(t, a[1], b[1]) # 0 => CMP(x, y) = scmp(t, a[1], b[1])
    <3>1. /\ Field(t, a[1]) = LaneField(t, a, 0) /\ Field(t, b[1]) = LaneField(t, b, 0)
      BY FirstLane
    <3> HIDE DEF f
    <3>2. QED BY <2>5, <3>1 DEF scmp
  <2> HIDE DEF D, x, y
  <2>7. QED BY <1>1, <1>2, <1>3, <1>7, <2>3, <2>4, <2>6
<1>8. QED BY <1>6, <1>7

-----------------------------------------------------------------------------
(* What the emulator and the native code leave when both have run.          *)
LEMMA RanTyped ==
    ASSUME VecInv, phase = "done"
    PROVE  /\ v \in [VRegs -> Vector] /\ native \in Machines
           /\ \A y \in VRegs \ {instr.rd} : native.x[y] = file.v[y] /\ v[y] = file.v[y]
           /\ \A y \in Regs : native.g[y] = file.r[y]
<1>1. /\ instr \in Instructions /\ Computes(instr, code) /\ file \in Files /\ r = file.r
      /\ Defined(instr, r) /\ v = emulate_vec(instr, instr.type, file.v, r)
      /\ native = Exec(Loaded(file), code)
  BY DEF VecInv, CodeRight, BothRun
<1> DEFINE m == Loaded(file)
<1>2. /\ file.v \in [VRegs -> Vector] /\ file.r \in [Regs -> Word]
      /\ m \in Machines
      /\ \A y \in VRegs : y \in Regs16 \ X_FREE /\ m.x[y] = file.v[y]
      /\ \A y \in Regs : y \in Regs16 \ {13, 14} /\ m.g[y] = file.r[y]
  BY <1>1, LoadedParts
<1> HIDE DEF m
<1>3. /\ Exec(m, code) \in Machines
      /\ Result(instr, m, Exec(m, code).x[instr.rd])
      /\ \A y \in Regs16 \ (X_FREE \cup {instr.rd}) : Exec(m, code).x[y] = m.x[y]
      /\ \A y \in Regs16 \ {13, 14} : Exec(m, code).g[y] = m.g[y]
  BY <1>1, <1>2 DEF Computes
<1>4. PICK z \in Vector : v = Put(file.v, instr.rd, z)
  BY <1>1, EmulatedTyped
<1>5. v \in [VRegs -> Vector] /\ \A y \in VRegs \ {instr.rd} : v[y] = file.v[y]
  BY <1>2, <1>4 DEF Put
<1>6. native = Exec(m, code)
  BY <1>1 DEF m
<1>7. QED BY <1>2, <1>3, <1>5, <1>6

(* The invariant implies the type invariant,                                *)
LEMMA InvTyped == VecInv => TypeOK
<1> SUFFICES ASSUME VecInv PROVE TypeOK
  OBVIOUS
<1>1. file \in Files /\ r = file.r
  BY DEF VecInv, BothRun
<1>2. /\ file.v \in [VRegs -> Vector] /\ file.r \in [Regs -> Word]
      /\ Loaded(file) \in Machines
      /\ \A y \in VRegs : y \in Regs16 \ X_FREE /\ Loaded(file).x[y] = file.v[y]
      /\ \A y \in Regs : y \in Regs16 \ {13, 14} /\ Loaded(file).g[y] = file.r[y]
  BY <1>1, LoadedParts
<1>3. v \in [VRegs -> Vector] /\ native \in Machines
  <2>1. CASE phase = "done"
    BY <2>1, RanTyped
  <2>2. CASE phase # "done"
    BY <1>2, <2>2 DEF VecInv, BothRun
  <2>3. QED BY <2>1, <2>2
<1>4. QED BY <1>1, <1>2, <1>3 DEF TypeOK, Machines

(* For all processors, register files and programs: registers hold words    *)
(* and vectors, whatever the native code does with its temporaries.         *)
THEOREM TypeCorrect == Spec => []TypeOK
BY VecInvariant, InvTyped, PTL

(* the agreement of the two runs,                                           *)
LEMMA InvSame == VecInv /\ ComparesNarrow => SameVectors
<1> SUFFICES ASSUME VecInv, ComparesNarrow, phase = "done", NEW x \in VRegs
             PROVE  native.x[x] = v[x]
  BY DEF SameVectors
<1>1. /\ v \in [VRegs -> Vector] /\ native \in Machines
      /\ \A y \in VRegs \ {instr.rd} : native.x[y] = file.v[y] /\ v[y] = file.v[y]
      /\ \A y \in Regs : native.g[y] = file.r[y]
  BY RanTyped
<1>2. CASE x # instr.rd
  BY <1>1, <1>2
<1>3. CASE x = instr.rd
  <2> DEFINE z == native.x[instr.rd]
  <2>1. /\ instr \in Instructions /\ file \in Files /\ Computes(instr, code)
        /\ Defined(instr, file.r)
        /\ v = emulate_vec(instr, instr.type, file.v, file.r)
        /\ native = Exec(Loaded(file), code)
    BY DEF VecInv, CodeRight, BothRun
  <2>2. Result(instr, Loaded(file), z)
    BY <2>1, LoadedParts DEF Computes
  <2>3. instr.op \in VecCompareImmOps => Width(instr.type) # W64
    BY <2>1 DEF ComparesNarrow
  <2>4. file.v \in [VRegs -> Vector]
    BY <2>1, LoadedParts
  <2> HIDE DEF z
  <2>5. emulate_vec(instr, instr.type, file.v, file.r) = Put(file.v, instr.rd, z)
    BY <2>1, <2>2, <2>3, Emulated
  <2>6. Put(file.v, instr.rd, z)[x] = z
    BY <1>3, <2>4 DEF Put
  <2>7. QED BY <1>3, <2>1, <2>5, <2>6 DEF z
<1>4. QED BY <1>2, <1>3

(* For all processors, features asked for, register files, instructions,    *)
(* types and aliasings of operands (64-bit lanes compared with an immediate *)
(* excepted): native code and emulator leave the same vectors.              *)
THEOREM VectorsAgree == ComparesNarrow => (Spec => []SameVectors)
<1>1. ComparesNarrow => (VecInv => SameVectors)
  BY InvSame
<1>2. ASSUME ComparesNarrow
      PROVE  Spec => []SameVectors
  <2>1. VecInv => SameVectors
    BY <1>1, <1>2
  <2>2. QED BY <2>1, VecInvariant, PTL
<1>3. QED BY <1>2

(* that the scalar registers are kept,                                      *)
LEMMA InvScalars == VecInv => ScalarsKept
<1> SUFFICES ASSUME VecInv, phase = "done", NEW x \in Regs
             PROVE  native.g[x] = r[x]
  BY DEF ScalarsKept
<1>1. /\ v \in [VRegs -> Vector] /\ native \in Machines
      /\ \A y \in VRegs \ {instr.rd} : native.x[y] = file.v[y] /\ v[y] = file.v[y]
      /\ \A y \in Regs : native.g[y] = file.r[y]
  BY RanTyped
<1>2. QED BY <1>1 DEF VecInv, BothRun

(* No vector instruction leaves a trace in a scalar register.               *)
THEOREM ScalarsSafe == Spec => []ScalarsKept
BY VecInvariant, InvScalars, PTL

(* that the code is of free registers and enabled features,                 *)
LEMMA InvForms == VecInv => PoolSuffices /\ FormsEnabled
<1> SUFFICES ASSUME VecInv, NEW k \in 1 .. Len(code)
             PROVE  /\ Names(code[k]) \subseteq Regs16
                    /\ code[k].op \in Opcodes
                    /\ Needs(code[k]) \in vec_enabled \cup NeverAsked
  BY DEF PoolSuffices, FormsEnabled
<1>1. code[k] \in Fine
  BY DEF VecInv, CodeRight
<1> DEFINE i == code[k]
<1>2. i \in Forms /\ Needs(i) \in vec_enabled \cup NeverAsked
  BY <1>1 DEF Fine
<1> HIDE DEF i
<1>3. i.op \in Opcodes /\ i.dst \in Regs16 /\ i.a \in Regs16 /\ i.b \in Operands
  BY <1>2 DEF Forms
<1>4. Names(i) \subseteq Regs16
  BY <1>3 DEF Names, Operands
<1>5. QED BY <1>2, <1>3, <1>4 DEF i

(* Every emitter, with the emitters it calls while it holds temporaries,    *)
(* finds one free whenever it asks for one.                                 *)
THEOREM PoolEnough == Spec => []PoolSuffices
BY VecInvariant, InvForms, PTL

(* And emits no instruction of a feature that is not enabled.               *)
THEOREM FormsSafe == Spec => []FormsEnabled
BY VecInvariant, InvForms, PTL

(* and that the comparison is exact.                                        *)
LEMMA InvCompare == VecInv => CompareExact
<1> SUFFICES ASSUME VecInv, phase = "done", NEW x \in VRegs, NEW y \in VRegs
             PROVE  LET type == instr.type
                        a == v[x]
                        b == native.x[y]
                        c == vcmp(type, a, b)
                    IN  /\ c = 0 <=> a = b
                        /\ vcmp(type, b, a) = -c
                        /\ scmp(type, a[1], b[1]) # 0 => c = scmp(type, a[1], b[1])
  BY DEF CompareExact
<1> DEFINE a == v[x]
           b == native.x[y]
           t == instr.type
<1>1. TypeOK
  BY InvTyped
<1>2. y \in Regs16
  BY JitVecAssumption
<1>3. a \in Vector /\ b \in Vector
  BY <1>1, <1>2 DEF TypeOK
<1>4. t \in IntTypes
  BY InstructionRegs DEF VecInv, CodeRight
<1> HIDE DEF a, b, t
<1>5. /\ vcmp(t, a, b) = 0 <=> a = b
      /\ vcmp(t, b, a) = -vcmp(t, a, b)
      /\ scmp(t, a[1], b[1]) # 0 => vcmp(t, a, b) = scmp(t, a[1], b[1])
  BY <1>3, <1>4, CompareLaws
<1>6. QED BY <1>5 DEF a, b, t

(* The comparison that decides the tests is exact for every type and all    *)
(* vectors.                                                                 *)
THEOREM CompareSound == Spec => []CompareExact
BY VecInvariant, InvCompare, PTL

-----------------------------------------------------------------------------
(* Lanes and scalars.  The scalar instruction q of type t on a register     *)
(* file of three registers.                                                 *)
File3(x, y) == [d |-> 0, i |-> x, j |-> y]
Named(q) == q.rd = "d" /\ q.ri = "i" /\ q.rj = "j"
ScalarDoes(q, t, x, y) == emulate_one(q, t, File3(x, y)).d

(* What an assignment leaves there.                                         *)
LEMMA AssignThree ==
    ASSUME NEW x, NEW y, NEW out, NEW e
    PROVE  /\ Assign(File3(x, y), out, "d", e).d = PutField(out, 0, e)
           /\ File3(x, y)["i"] = x /\ File3(x, y)["j"] = y
BY DEF Assign, File3

(* And in its low bits.                                                     *)
LEMMA PutLow ==
    ASSUME NEW w \in Widths, NEW out, Width(out) = w, NEW e \in Int
    PROVE  Low(w, PutField(out, 0, e)) = Low(w, e)
<1>1. w \in 0 .. W64 /\ w \in 0 .. w /\ 2 ^ w \in Nat \ {0}
  BY WidthFacts, Power
<1>2. Low(w, 0) = 0
  <2> DEFINE n == 2 ^ w
  <2> HIDE DEF n
  <2>1. n \in Nat \ {0}
    BY <1>1 DEF n
  <2>2. 0 % n = 0
    BY <2>1
  <2>3. QED BY <2>2 DEF Low, n
<1>3. Low(w, e) \in Int /\ Low(w, Low(w, e)) = Low(w, e)
  BY <1>1, LowRange, LowOfLow
<1>4. PutField(out, 0, e) = Low(w, e)
  <2>1. PutField(out, 0, e) = 0 - Low(w, 0) + Low(w, e)
    BY DEF PutField
  <2> DEFINE o == Low(w, 0)
             l == Low(w, e)
  <2>2. o = 0 /\ l \in Int
    BY <1>2, <1>3
  <2>3. PutField(out, 0, e) = 0 - o + l
    BY <2>1
  <2> HIDE DEF o, l
  <2>4. PutField(out, 0, e) = l
    BY <2>2, <2>3
  <2>5. QED BY <2>4 DEF l
<1>5. QED BY <1>3, <1>4

(* The number an instruction reads of a register that holds a lane.         *)
LEMMA FieldNumber ==
    ASSUME NEW in \in IntTypes, NEW w \in Widths, Width(in) = w, NEW x \in Values(w)
    PROVE  /\ Field(in, x) \in Int /\ Low(w, Field(in, x)) = x
           /\ in \in SignedTypes => Field(in, x) = ToSigned(w, x)
           /\ in \in UnsignedTypes => Field(in, x) = x
<1>1. w \in 0 .. W64 /\ x \in Int /\ Low(w, x) = x
  BY WidthFacts, LowId DEF Values
<1>2. Field(in, x) \in Int /\ Low(Width(in), Field(in, x)) = Low(Width(in), x)
  BY <1>1, FieldLow
<1>3. in \in SignedTypes => in \notin UnsignedTypes
  BY DEF SignedTypes, UnsignedTypes
<1>4. QED BY <1>1, <1>2, <1>3 DEF Field

(* An operation on two such numbers, and on one and an immediate.           *)
LEMMA ScalarBoth ==
    ASSUME NEW w \in Widths, NEW op \in BaseOps, op # "mul", NEW x \in Values(w), NEW y \in Values(w),
           NEW u \in Int, NEW u1 \in Int, Low(w, u) = x, Low(w, u1) = y,
           op \in CompareOps => u = ToSigned(w, x) /\ u1 = ToSigned(w, y),
           NEW out, Width(out) = w,
           NEW e, e = IF op = "rsub" THEN op_("sub", u1, u) ELSE op_(op, u, u1)
    PROVE  Low(w, PutField(out, 0, e)) = LaneBoth(op, w, x, y)
<1>1. e = EmuBoth(op, u, u1)
  BY DEF EmuBoth, vop_
<1>2. FromLanes(op, w, x, y, e)
  BY <1>1 DEF FromLanes
<1>3. e \in Int /\ Low(w, e) = LaneBoth(op, w, x, y)
  BY <1>2, EmuBothLow
<1>4. QED BY <1>3, PutLow

(* A scalar instruction of two registers does to them what a vector one     *)
(* does to lanes.                                                           *)
LEMMA ScalarBinary ==
    ASSUME NEW t \in IntTypes, NEW q, Named(q), q.op \in BaseOps, q.op # "mul",
           q.op \in CompareOps => t \in SignedTypes,
           NEW x \in Values(Width(t)), NEW y \in Values(Width(t))
    PROVE  Low(Width(t), ScalarDoes(q, t, x, y)) = LaneBoth(q.op, Width(t), x, y)
<1> DEFINE w == Width(t)
           n == Unsigned(t)
           g == SignedOf(t)
           m == File3(x, y)
<1>1. w \in Widths /\ n \in IntTypes /\ g \in IntTypes /\ Width(n) = w /\ Width(g) = w
  BY WidthsInRange, TypesOfWidth
<1>2. m["i"] = x /\ m["j"] = y /\ \A out, e : Assign(m, out, "d", e).d = PutField(out, 0, e)
  BY AssignThree
<1> HIDE DEF m, w, n, g
<1>3. ASSUME NEW in \in IntTypes, Width(in) = w, NEW out, Width(out) = w, NEW op \in BaseOps,
             op # "mul", op \in CompareOps => in \in SignedTypes,
             NEW e, e = IF op = "rsub" THEN op_("sub", Field(in, y), Field(in, x))
                                       ELSE op_(op, Field(in, x), Field(in, y))
      PROVE  Low(w, PutField(out, 0, e)) = LaneBoth(op, w, x, y)
  <2> DEFINE u == Field(in, x)
             u1 == Field(in, y)
  <2>1. x \in Values(w) /\ y \in Values(w)
    BY DEF w
  <2>2. /\ u \in Int /\ Low(w, u) = x
        /\ in \in SignedTypes => u = ToSigned(w, x)
        /\ in \in UnsignedTypes => u = x
    BY <1>1, <1>3, <2>1, FieldNumber
  <2>3. /\ u1 \in Int /\ Low(w, u1) = y
        /\ in \in SignedTypes => u1 = ToSigned(w, y)
        /\ in \in UnsignedTypes => u1 = y
    BY <1>1, <1>3, <2>1, FieldNumber
  <2>4. e = IF op = "rsub" THEN op_("sub", u1, u) ELSE op_(op, u, u1)
    BY <1>3
  <2> HIDE DEF u, u1
  <2>5. op \in CompareOps => u = ToSigned(w, x) /\ u1 = ToSigned(w, y)
    BY <1>3, <2>2, <2>3
  <2>6. QED BY <1>1, <1>3, <2>1, <2>2, <2>3, <2>4, <2>5, ScalarBoth
<1>4. CASE q.op = "add"
  <2> DEFINE e == op_("add", Field(t, x), Field(t, y))
  <2>1. ScalarDoes(q, t, x, y) = Assign(m, t, "d", e).d
    BY <1>2, <1>4 DEF ScalarDoes, Named, emulate_one, CompareOps, CompareImmOps, emu_add, EMU_XXX_rrr, Binary, m
  <2>2. "add" \in BaseOps /\ "add" # "mul"
    BY DEF BaseOps, CompareOps
  <2>3. e = IF "add" = "rsub" THEN op_("sub", Field(t, y), Field(t, x))
                             ELSE op_("add", Field(t, x), Field(t, y))
    OBVIOUS
  <2>4. "add" \in CompareOps => t \in SignedTypes
    BY <1>4 DEF CompareOps
  <2> HIDE DEF e
  <2>5. Low(w, PutField(t, 0, e)) = LaneBoth("add", w, x, y)
    BY <1>1, <1>3, <2>2, <2>3, <2>4 DEF w
  <2>6. QED BY <1>2, <1>4, <2>1, <2>5 DEF w
<1>5. CASE q.op = "sub"
  <2> DEFINE e == op_("sub", Field(t, x), Field(t, y))
  <2>1. ScalarDoes(q, t, x, y) = Assign(m, t, "d", e).d
    BY <1>2, <1>5 DEF ScalarDoes, Named, emulate_one, CompareOps, CompareImmOps, emu_sub, EMU_XXX_rrr, Binary, m
  <2>2. "sub" \in BaseOps /\ "sub" # "mul"
    BY DEF BaseOps, CompareOps
  <2>3. e = IF "sub" = "rsub" THEN op_("sub", Field(t, y), Field(t, x))
                             ELSE op_("sub", Field(t, x), Field(t, y))
    OBVIOUS
  <2>4. "sub" \in CompareOps => t \in SignedTypes
    BY <1>5 DEF CompareOps
  <2> HIDE DEF e
  <2>5. Low(w, PutField(t, 0, e)) = LaneBoth("sub", w, x, y)
    BY <1>1, <1>3, <2>2, <2>3, <2>4 DEF w
  <2>6. QED BY <1>2, <1>5, <2>1, <2>5 DEF w
<1>6. CASE q.op = "rsub"
  <2> DEFINE e == op_("sub", Field(t, y), Field(t, x))
  <2>1. ScalarDoes(q, t, x, y) = Assign(m, t, "d", e).d
    BY <1>2, <1>6 DEF ScalarDoes, Named, emulate_one, CompareOps, CompareImmOps, emu_rsub, EMU_XXX_rrr, Binary, m
  <2>2. "rsub" \in BaseOps /\ "rsub" # "mul"
    BY DEF BaseOps, CompareOps
  <2>3. e = IF "rsub" = "rsub" THEN op_("sub", Field(t, y), Field(t, x))
                             ELSE op_("rsub", Field(t, x), Field(t, y))
    OBVIOUS
  <2>4. "rsub" \in CompareOps => t \in SignedTypes
    BY <1>6 DEF CompareOps
  <2> HIDE DEF e
  <2>5. Low(w, PutField(t, 0, e)) = LaneBoth("rsub", w, x, y)
    BY <1>1, <1>3, <2>2, <2>3, <2>4 DEF w
  <2>6. QED BY <1>2, <1>6, <2>1, <2>5 DEF w
<1>7. CASE q.op = "band"
  <2> DEFINE e == op_("band", Field(n, x), Field(n, y))
  <2>1. ScalarDoes(q, t, x, y) = Assign(m, n, "d", e).d
    BY <1>2, <1>7 DEF ScalarDoes, Named, emulate_one, CompareOps, CompareImmOps, emu_band, TFURdij, Binary, m, n
  <2>2. "band" \in BaseOps /\ "band" # "mul"
    BY DEF BaseOps, CompareOps
  <2>3. e = IF "band" = "rsub" THEN op_("sub", Field(n, y), Field(n, x))
                             ELSE op_("band", Field(n, x), Field(n, y))
    OBVIOUS
  <2>4. "band" \in CompareOps => n \in SignedTypes
    BY <1>7 DEF CompareOps
  <2> HIDE DEF e
  <2>5. Low(w, PutField(n, 0, e)) = LaneBoth("band", w, x, y)
    BY <1>1, <1>3, <2>2, <2>3, <2>4 DEF w
  <2>6. QED BY <1>2, <1>7, <2>1, <2>5 DEF w
<1>8. CASE q.op = "bandn"
  <2> DEFINE e == op_("bandn", Field(n, x), Field(n, y))
  <2>1. ScalarDoes(q, t, x, y) = Assign(m, n, "d", e).d
    BY <1>2, <1>8 DEF ScalarDoes, Named, emulate_one, CompareOps, CompareImmOps, emu_bandn, TFURdij, Binary, m, n
  <2>2. "bandn" \in BaseOps /\ "bandn" # "mul"
    BY DEF BaseOps, CompareOps
  <2>3. e = IF "bandn" = "rsub" THEN op_("sub", Field(n, y), Field(n, x))
                             ELSE op_("bandn", Field(n, x), Field(n, y))
    OBVIOUS
  <2>4. "bandn" \in CompareOps => n \in SignedTypes
    BY <1>8 DEF CompareOps
  <2> HIDE DEF e
  <2>5. Low(w, PutField(n, 0, e)) = LaneBoth("bandn", w, x, y)
    BY <1>1, <1>3, <2>2, <2>3, <2>4 DEF w
  <2>6. QED BY <1>2, <1>8, <2>1, <2>5 DEF w
<1>9. CASE q.op = "bor"
  <2> DEFINE e == op_("bor", Field(n, x), Field(n, y))
  <2>1. ScalarDoes(q, t, x, y) = Assign(m, n, "d", e).d
    BY <1>2, <1>9 DEF ScalarDoes, Named, emulate_one, CompareOps, CompareImmOps, emu_bor, TFURdij, Binary, m, n
  <2>2. "bor" \in BaseOps /\ "bor" # "mul"
    BY DEF BaseOps, CompareOps
  <2>3. e = IF "bor" = "rsub" THEN op_("sub", Field(n, y), Field(n, x))
                             ELSE op_("bor", Field(n, x), Field(n, y))
    OBVIOUS
  <2>4. "bor" \in CompareOps => n \in SignedTypes
    BY <1>9 DEF CompareOps
  <2> HIDE DEF e
  <2>5. Low(w, PutField(n, 0, e)) = LaneBoth("bor", w, x, y)
    BY <1>1, <1>3, <2>2, <2>3, <2>4 DEF w
  <2>6. QED BY <1>2, <1>9, <2>1, <2>5 DEF w
<1>10. CASE q.op = "bxor"
  <2> DEFINE e == op_("bxor", Field(n, x), Field(n, y))
  <2>1. ScalarDoes(q, t, x, y) = Assign(m, n, "d", e).d
    BY <1>2, <1>10 DEF ScalarDoes, Named, emulate_one, CompareOps, CompareImmOps, emu_bxor, TFURdij, Binary, m, n
  <2>2. "bxor" \in BaseOps /\ "bxor" # "mul"
    BY DEF BaseOps, CompareOps
  <2>3. e = IF "bxor" = "rsub" THEN op_("sub", Field(n, y), Field(n, x))
                             ELSE op_("bxor", Field(n, x), Field(n, y))
    OBVIOUS
  <2>4. "bxor" \in CompareOps => n \in SignedTypes
    BY <1>10 DEF CompareOps
  <2> HIDE DEF e
  <2>5. Low(w, PutField(n, 0, e)) = LaneBoth("bxor", w, x, y)
    BY <1>1, <1>3, <2>2, <2>3, <2>4 DEF w
  <2>6. QED BY <1>2, <1>10, <2>1, <2>5 DEF w
<1>11. CASE q.op = "cmpeq"
  <2> DEFINE e == op_("cmpeq", Field(t, x), Field(t, y))
  <2>1. ScalarDoes(q, t, x, y) = Assign(m, g, "d", e).d
    BY <1>2, <1>11 DEF ScalarDoes, Named, emulate_one, CompareOps, CompareImmOps, emu_cmp, TFIRdij, Binary, m, g
  <2>2. "cmpeq" \in BaseOps /\ "cmpeq" # "mul"
    BY DEF BaseOps, CompareOps
  <2>3. e = IF "cmpeq" = "rsub" THEN op_("sub", Field(t, y), Field(t, x))
                             ELSE op_("cmpeq", Field(t, x), Field(t, y))
    OBVIOUS
  <2>4. "cmpeq" \in CompareOps => t \in SignedTypes
    BY <1>11 DEF CompareOps
  <2> HIDE DEF e
  <2>5. Low(w, PutField(g, 0, e)) = LaneBoth("cmpeq", w, x, y)
    BY <1>1, <1>3, <2>2, <2>3, <2>4 DEF w
  <2>6. QED BY <1>2, <1>11, <2>1, <2>5 DEF w
<1>12. CASE q.op = "cmpne"
  <2> DEFINE e == op_("cmpne", Field(t, x), Field(t, y))
  <2>1. ScalarDoes(q, t, x, y) = Assign(m, g, "d", e).d
    BY <1>2, <1>12 DEF ScalarDoes, Named, emulate_one, CompareOps, CompareImmOps, emu_cmp, TFIRdij, Binary, m, g
  <2>2. "cmpne" \in BaseOps /\ "cmpne" # "mul"
    BY DEF BaseOps, CompareOps
  <2>3. e = IF "cmpne" = "rsub" THEN op_("sub", Field(t, y), Field(t, x))
                             ELSE op_("cmpne", Field(t, x), Field(t, y))
    OBVIOUS
  <2>4. "cmpne" \in CompareOps => t \in SignedTypes
    BY <1>12 DEF CompareOps
  <2> HIDE DEF e
  <2>5. Low(w, PutField(g, 0, e)) = LaneBoth("cmpne", w, x, y)
    BY <1>1, <1>3, <2>2, <2>3, <2>4 DEF w
  <2>6. QED BY <1>2, <1>12, <2>1, <2>5 DEF w
<1>13. CASE q.op = "cmplt"
  <2> DEFINE e == op_("cmplt", Field(t, x), Field(t, y))
  <2>1. ScalarDoes(q, t, x, y) = Assign(m, g, "d", e).d
    BY <1>2, <1>13 DEF ScalarDoes, Named, emulate_one, CompareOps, CompareImmOps, emu_cmp, TFIRdij, Binary, m, g
  <2>2. "cmplt" \in BaseOps /\ "cmplt" # "mul"
    BY DEF BaseOps, CompareOps
  <2>3. e = IF "cmplt" = "rsub" THEN op_("sub", Field(t, y), Field(t, x))
                             ELSE op_("cmplt", Field(t, x), Field(t, y))
    OBVIOUS
  <2>4. "cmplt" \in CompareOps => t \in SignedTypes
    BY <1>13 DEF CompareOps
  <2> HIDE DEF e
  <2>5. Low(w, PutField(g, 0, e)) = LaneBoth("cmplt", w, x, y)
    BY <1>1, <1>3, <2>2, <2>3, <2>4 DEF w
  <2>6. QED BY <1>2, <1>13, <2>1, <2>5 DEF w
<1>14. CASE q.op = "cmple"
  <2> DEFINE e == op_("cmple", Field(t, x), Field(t, y))
  <2>1. ScalarDoes(q, t, x, y) = Assign(m, g, "d", e).d
    BY <1>2, <1>14 DEF ScalarDoes, Named, emulate_one, CompareOps, CompareImmOps, emu_cmp, TFIRdij, Binary, m, g
  <2>2. "cmple" \in BaseOps /\ "cmple" # "mul"
    BY DEF BaseOps, CompareOps
  <2>3. e = IF "cmple" = "rsub" THEN op_("sub", Field(t, y), Field(t, x))
                             ELSE op_("cmple", Field(t, x), Field(t, y))
    OBVIOUS
  <2>4. "cmple" \in CompareOps => t \in SignedTypes
    BY <1>14 DEF CompareOps
  <2> HIDE DEF e
  <2>5. Low(w, PutField(g, 0, e)) = LaneBoth("cmple", w, x, y)
    BY <1>1, <1>3, <2>2, <2>3, <2>4 DEF w
  <2>6. QED BY <1>2, <1>14, <2>1, <2>5 DEF w
<1>15. CASE q.op = "cmpgt"
  <2> DEFINE e == op_("cmpgt", Field(t, x), Field(t, y))
  <2>1. ScalarDoes(q, t, x, y) = Assign(m, g, "d", e).d
    BY <1>2, <1>15 DEF ScalarDoes, Named, emulate_one, CompareOps, CompareImmOps, emu_cmp, TFIRdij, Binary, m, g
  <2>2. "cmpgt" \in BaseOps /\ "cmpgt" # "mul"
    BY DEF BaseOps, CompareOps
  <2>3. e = IF "cmpgt" = "rsub" THEN op_("sub", Field(t, y), Field(t, x))
                             ELSE op_("cmpgt", Field(t, x), Field(t, y))
    OBVIOUS
  <2>4. "cmpgt" \in CompareOps => t \in SignedTypes
    BY <1>15 DEF CompareOps
  <2> HIDE DEF e
  <2>5. Low(w, PutField(g, 0, e)) = LaneBoth("cmpgt", w, x, y)
    BY <1>1, <1>3, <2>2, <2>3, <2>4 DEF w
  <2>6. QED BY <1>2, <1>15, <2>1, <2>5 DEF w
<1>16. CASE q.op = "cmpge"
  <2> DEFINE e == op_("cmpge", Field(t, x), Field(t, y))
  <2>1. ScalarDoes(q, t, x, y) = Assign(m, g, "d", e).d
    BY <1>2, <1>16 DEF ScalarDoes, Named, emulate_one, CompareOps, CompareImmOps, emu_cmp, TFIRdij, Binary, m, g
  <2>2. "cmpge" \in BaseOps /\ "cmpge" # "mul"
    BY DEF BaseOps, CompareOps
  <2>3. e = IF "cmpge" = "rsub" THEN op_("sub", Field(t, y), Field(t, x))
                             ELSE op_("cmpge", Field(t, x), Field(t, y))
    OBVIOUS
  <2>4. "cmpge" \in CompareOps => t \in SignedTypes
    BY <1>16 DEF CompareOps
  <2> HIDE DEF e
  <2>5. Low(w, PutField(g, 0, e)) = LaneBoth("cmpge", w, x, y)
    BY <1>1, <1>3, <2>2, <2>3, <2>4 DEF w
  <2>6. QED BY <1>2, <1>16, <2>1, <2>5 DEF w
<1>17. QED BY <1>4, <1>5, <1>6, <1>7, <1>8, <1>9, <1>10, <1>11, <1>12, <1>13, <1>14, <1>15, <1>16 DEF BaseOps, CompareOps

(* The operation of a scalar instruction with an immediate,                 *)
ScalarBase == [addi |-> "add", subi |-> "sub", rsubi |-> "rsub",
               bandi |-> "band", bandni |-> "bandn", bori |-> "bor", bxori |-> "bxor",
               cmpeqi |-> "cmpeq", cmpnei |-> "cmpne", cmplti |-> "cmplt",
               cmplei |-> "cmple", cmpgti |-> "cmpgt", cmpgei |-> "cmpge"]

(* and what it does to a register that holds a lane.                        *)
LEMMA ScalarImmediate ==
    ASSUME NEW t \in IntTypes, NEW q, Named(q), q.op \in DOMAIN ScalarBase, q.imm \in Int,
           q.op \in CompareImmOps => t \in SignedTypes,
           NEW x \in Values(Width(t)), NEW y
    PROVE  Low(Width(t), ScalarDoes(q, t, x, y))
           = LaneBoth(ScalarBase[q.op], Width(t), x, Low(Width(t), q.imm))
<1> DEFINE w == Width(t)
           g == SignedOf(t)
           m == File3(x, y)
           c == q.imm
           l == Low(w, c)
           f == Field(t, c)
           u == Field(t, x)
<1>1. w \in Widths /\ g \in IntTypes /\ Width(g) = w /\ w \in 0 .. W64 /\ w \in 1 .. W64
  BY WidthsInRange, TypesOfWidth, WidthFacts
<1>2. m["i"] = x /\ m["j"] = y /\ \A out, e : Assign(m, out, "d", e).d = PutField(out, 0, e)
  BY AssignThree
<1>3. x \in Values(w) /\ c \in Int
  OBVIOUS
<1>4. l \in Values(w) /\ l \in Int /\ Low(w, l) = l
  <2> HIDE DEF w, c
  <2>1. w \in 0 .. w
    BY <1>1, WidthFacts
  <2>2. QED BY <1>1, <1>3, <2>1, LowRange, LowOfLow DEF Values
<1>5. /\ u \in Int /\ Low(w, u) = x
      /\ t \in SignedTypes => u = ToSigned(w, x)
      /\ t \in UnsignedTypes => u = x
  BY <1>1, FieldNumber
<1>6. f \in Int /\ Low(w, f) = l /\ (t \in SignedTypes => f = ToSigned(w, l))
  <2>1. f \in Int /\ Low(w, f) = l
    BY <1>3, FieldLow
  <2>2. t \in SignedTypes => f = ToSigned(w, c)
    BY DEF Field, SignedTypes, UnsignedTypes
  <2>3. ToSigned(w, l) = ToSigned(w, c)
    <3> HIDE DEF w, c
    <3>1. QED BY <1>1, <1>3, SignedLow DEF l
  <2>4. QED BY <2>1, <2>2, <2>3
<1> HIDE DEF m, w, g, c, l, f, u
<1>7. ASSUME NEW op \in BaseOps, op # "mul", NEW u1 \in Int, Low(w, u1) = l,
             op \in CompareOps => t \in SignedTypes /\ u1 = f,
             NEW out, Width(out) = w,
             NEW e, e = IF op = "rsub" THEN op_("sub", u1, u) ELSE op_(op, u, u1)
      PROVE  Low(w, PutField(out, 0, e)) = LaneBoth(op, w, x, l)
  <2>1. op \in CompareOps => u = ToSigned(w, x) /\ u1 = ToSigned(w, l)
    BY <1>5, <1>6, <1>7
  <2>2. QED BY <1>1, <1>3, <1>4, <1>5, <1>7, <2>1, ScalarBoth
<1>8. CASE q.op = "addi"
  <2> DEFINE e == op_("add", u, c)
  <2>1. ScalarDoes(q, t, x, y) = Assign(m, t, "d", e).d
    BY <1>2, <1>8 DEF ScalarDoes, Named, emulate_one, CompareOps, CompareImmOps, emu_addi, EMU_XXS_rrb, BinaryImm, m, u, c
  <2>2. "add" \in BaseOps /\ "add" # "mul" /\ ScalarBase[q.op] = "add"
    BY <1>8 DEF BaseOps, CompareOps, ScalarBase
  <2>3. e = IF "add" = "rsub" THEN op_("sub", c, u) ELSE op_("add", u, c)
    OBVIOUS
  <2>4. "add" \in CompareOps => t \in SignedTypes /\ c = f
    BY <1>8 DEF CompareOps, CompareImmOps
  <2> HIDE DEF e
  <2>5. Low(w, c) = l
    BY DEF l
  <2>6. Low(w, PutField(t, 0, e)) = LaneBoth("add", w, x, l)
    BY <1>1, <1>3, <1>7, <2>2, <2>3, <2>4, <2>5 DEF w
  <2>7. QED BY <1>2, <1>8, <2>1, <2>2, <2>6 DEF w, l, c
<1>9. CASE q.op = "subi"
  <2> DEFINE e == op_("sub", u, c)
  <2>1. ScalarDoes(q, t, x, y) = Assign(m, t, "d", e).d
    BY <1>2, <1>9 DEF ScalarDoes, Named, emulate_one, CompareOps, CompareImmOps, emu_subi, EMU_XXS_rrb, BinaryImm, m, u, c
  <2>2. "sub" \in BaseOps /\ "sub" # "mul" /\ ScalarBase[q.op] = "sub"
    BY <1>9 DEF BaseOps, CompareOps, ScalarBase
  <2>3. e = IF "sub" = "rsub" THEN op_("sub", c, u) ELSE op_("sub", u, c)
    OBVIOUS
  <2>4. "sub" \in CompareOps => t \in SignedTypes /\ c = f
    BY <1>9 DEF CompareOps, CompareImmOps
  <2> HIDE DEF e
  <2>5. Low(w, c) = l
    BY DEF l
  <2>6. Low(w, PutField(t, 0, e)) = LaneBoth("sub", w, x, l)
    BY <1>1, <1>3, <1>7, <2>2, <2>3, <2>4, <2>5 DEF w
  <2>7. QED BY <1>2, <1>9, <2>1, <2>2, <2>6 DEF w, l, c
<1>10. CASE q.op = "bandi"
  <2> DEFINE e == op_("band", u, c)
  <2>1. ScalarDoes(q, t, x, y) = Assign(m, t, "d", e).d
    BY <1>2, <1>10 DEF ScalarDoes, Named, emulate_one, CompareOps, CompareImmOps, emu_bandi, EMU_XXS_rrb, BinaryImm, m, u, c
  <2>2. "band" \in BaseOps /\ "band" # "mul" /\ ScalarBase[q.op] = "band"
    BY <1>10 DEF BaseOps, CompareOps, ScalarBase
  <2>3. e = IF "band" = "rsub" THEN op_("sub", c, u) ELSE op_("band", u, c)
    OBVIOUS
  <2>4. "band" \in CompareOps => t \in SignedTypes /\ c = f
    BY <1>10 DEF CompareOps, CompareImmOps
  <2> HIDE DEF e
  <2>5. Low(w, c) = l
    BY DEF l
  <2>6. Low(w, PutField(t, 0, e)) = LaneBoth("band", w, x, l)
    BY <1>1, <1>3, <1>7, <2>2, <2>3, <2>4, <2>5 DEF w
  <2>7. QED BY <1>2, <1>10, <2>1, <2>2, <2>6 DEF w, l, c
<1>11. CASE q.op = "bandni"
  <2> DEFINE e == op_("bandn", u, c)
  <2>1. ScalarDoes(q, t, x, y) = Assign(m, t, "d", e).d
    BY <1>2, <1>11 DEF ScalarDoes, Named, emulate_one, CompareOps, CompareImmOps, emu_bandni, EMU_XXS_rrb, BinaryImm, m, u, c
  <2>2. "bandn" \in BaseOps /\ "bandn" # "mul" /\ ScalarBase[q.op] = "bandn"
    BY <1>11 DEF BaseOps, CompareOps, ScalarBase
  <2>3. e = IF "bandn" = "rsub" THEN op_("sub", c, u) ELSE op_("bandn", u, c)
    OBVIOUS
  <2>4. "bandn" \in CompareOps => t \in SignedTypes /\ c = f
    BY <1>11 DEF CompareOps, CompareImmOps
  <2> HIDE DEF e
  <2>5. Low(w, c) = l
    BY DEF l
  <2>6. Low(w, PutField(t, 0, e)) = LaneBoth("bandn", w, x, l)
    BY <1>1, <1>3, <1>7, <2>2, <2>3, <2>4, <2>5 DEF w
  <2>7. QED BY <1>2, <1>11, <2>1, <2>2, <2>6 DEF w, l, c
<1>12. CASE q.op = "bori"
  <2> DEFINE e == op_("bor", u, c)
  <2>1. ScalarDoes(q, t, x, y) = Assign(m, t, "d", e).d
    BY <1>2, <1>12 DEF ScalarDoes, Named, emulate_one, CompareOps, CompareImmOps, emu_bori, EMU_XXS_rrb, BinaryImm, m, u, c
  <2>2. "bor" \in BaseOps /\ "bor" # "mul" /\ ScalarBase[q.op] = "bor"
    BY <1>12 DEF BaseOps, CompareOps, ScalarBase
  <2>3. e = IF "bor" = "rsub" THEN op_("sub", c, u) ELSE op_("bor", u, c)
    OBVIOUS
  <2>4. "bor" \in CompareOps => t \in SignedTypes /\ c = f
    BY <1>12 DEF CompareOps, CompareImmOps
  <2> HIDE DEF e
  <2>5. Low(w, c) = l
    BY DEF l
  <2>6. Low(w, PutField(t, 0, e)) = LaneBoth("bor", w, x, l)
    BY <1>1, <1>3, <1>7, <2>2, <2>3, <2>4, <2>5 DEF w
  <2>7. QED BY <1>2, <1>12, <2>1, <2>2, <2>6 DEF w, l, c
<1>13. CASE q.op = "bxori"
  <2> DEFINE e == op_("bxor", u, c)
  <2>1. ScalarDoes(q, t, x, y) = Assign(m, t, "d", e).d
    BY <1>2, <1>13 DEF ScalarDoes, Named, emulate_one, CompareOps, CompareImmOps, emu_bxori, EMU_XXS_rrb, BinaryImm, m, u, c
  <2>2. "bxor" \in BaseOps /\ "bxor" # "mul" /\ ScalarBase[q.op] = "bxor"
    BY <1>13 DEF BaseOps, CompareOps, ScalarBase
  <2>3. e = IF "bxor" = "rsub" THEN op_("sub", c, u) ELSE op_("bxor", u, c)
    OBVIOUS
  <2>4. "bxor" \in CompareOps => t \in SignedTypes /\ c = f
    BY <1>13 DEF CompareOps, CompareImmOps
  <2> HIDE DEF e
  <2>5. Low(w, c) = l
    BY DEF l
  <2>6. Low(w, PutField(t, 0, e)) = LaneBoth("bxor", w, x, l)
    BY <1>1, <1>3, <1>7, <2>2, <2>3, <2>4, <2>5 DEF w
  <2>7. QED BY <1>2, <1>13, <2>1, <2>2, <2>6 DEF w, l, c
<1>14. CASE q.op = "rsubi"
  <2> DEFINE e == op_("sub", c, u)
  <2>1. ScalarDoes(q, t, x, y) = Assign(m, t, "d", e).d
    BY <1>2, <1>14 DEF ScalarDoes, Named, emulate_one, CompareOps, CompareImmOps, emu_rsubi, TFRd8i, m, u, c
  <2>2. "rsub" \in BaseOps /\ "rsub" # "mul" /\ ScalarBase[q.op] = "rsub"
    BY <1>14 DEF BaseOps, CompareOps, ScalarBase
  <2>3. e = IF "rsub" = "rsub" THEN op_("sub", c, u) ELSE op_("rsub", u, c)
    OBVIOUS
  <2>4. "rsub" \in CompareOps => t \in SignedTypes /\ c = f
    BY <1>14 DEF CompareOps, CompareImmOps
  <2> HIDE DEF e
  <2>5. Low(w, c) = l
    BY DEF l
  <2>6. Low(w, PutField(t, 0, e)) = LaneBoth("rsub", w, x, l)
    BY <1>1, <1>3, <1>7, <2>2, <2>3, <2>4, <2>5 DEF w
  <2>7. QED BY <1>2, <1>14, <2>1, <2>2, <2>6 DEF w, l, c
<1>15. CASE q.op = "cmpeqi"
  <2> DEFINE e == op_("cmpeq", u, f)
  <2>1. ScalarDoes(q, t, x, y) = Assign(m, g, "d", e).d
    BY <1>2, <1>15 DEF ScalarDoes, Named, emulate_one, CompareOps, CompareImmOps, emu_cmpi, srx_di8, BinaryImm, CmpI, m, u, c, f, g
  <2>2. "cmpeq" \in BaseOps /\ "cmpeq" # "mul" /\ ScalarBase[q.op] = "cmpeq"
    BY <1>15 DEF BaseOps, CompareOps, ScalarBase
  <2>3. e = IF "cmpeq" = "rsub" THEN op_("sub", f, u) ELSE op_("cmpeq", u, f)
    OBVIOUS
  <2>4. "cmpeq" \in CompareOps => t \in SignedTypes /\ f = f
    BY <1>15 DEF CompareOps, CompareImmOps
  <2> HIDE DEF e
  <2>6. Low(w, PutField(g, 0, e)) = LaneBoth("cmpeq", w, x, l)
    BY <1>1, <1>6, <1>7, <2>2, <2>3, <2>4 DEF w
  <2>7. QED BY <1>2, <1>15, <2>1, <2>2, <2>6 DEF w, l, c
<1>16. CASE q.op = "cmpnei"
  <2> DEFINE e == op_("cmpne", u, f)
  <2>1. ScalarDoes(q, t, x, y) = Assign(m, g, "d", e).d
    BY <1>2, <1>16 DEF ScalarDoes, Named, emulate_one, CompareOps, CompareImmOps, emu_cmpi, srx_di8, BinaryImm, CmpI, m, u, c, f, g
  <2>2. "cmpne" \in BaseOps /\ "cmpne" # "mul" /\ ScalarBase[q.op] = "cmpne"
    BY <1>16 DEF BaseOps, CompareOps, ScalarBase
  <2>3. e = IF "cmpne" = "rsub" THEN op_("sub", f, u) ELSE op_("cmpne", u, f)
    OBVIOUS
  <2>4. "cmpne" \in CompareOps => t \in SignedTypes /\ f = f
    BY <1>16 DEF CompareOps, CompareImmOps
  <2> HIDE DEF e
  <2>6. Low(w, PutField(g, 0, e)) = LaneBoth("cmpne", w, x, l)
    BY <1>1, <1>6, <1>7, <2>2, <2>3, <2>4 DEF w
  <2>7. QED BY <1>2, <1>16, <2>1, <2>2, <2>6 DEF w, l, c
<1>17. CASE q.op = "cmplti"
  <2> DEFINE e == op_("cmplt", u, f)
  <2>1. ScalarDoes(q, t, x, y) = Assign(m, g, "d", e).d
    BY <1>2, <1>17 DEF ScalarDoes, Named, emulate_one, CompareOps, CompareImmOps, emu_cmpi, srx_di8, BinaryImm, CmpI, m, u, c, f, g
  <2>2. "cmplt" \in BaseOps /\ "cmplt" # "mul" /\ ScalarBase[q.op] = "cmplt"
    BY <1>17 DEF BaseOps, CompareOps, ScalarBase
  <2>3. e = IF "cmplt" = "rsub" THEN op_("sub", f, u) ELSE op_("cmplt", u, f)
    OBVIOUS
  <2>4. "cmplt" \in CompareOps => t \in SignedTypes /\ f = f
    BY <1>17 DEF CompareOps, CompareImmOps
  <2> HIDE DEF e
  <2>6. Low(w, PutField(g, 0, e)) = LaneBoth("cmplt", w, x, l)
    BY <1>1, <1>6, <1>7, <2>2, <2>3, <2>4 DEF w
  <2>7. QED BY <1>2, <1>17, <2>1, <2>2, <2>6 DEF w, l, c
<1>18. CASE q.op = "cmplei"
  <2> DEFINE e == op_("cmple", u, f)
  <2>1. ScalarDoes(q, t, x, y) = Assign(m, g, "d", e).d
    BY <1>2, <1>18 DEF ScalarDoes, Named, emulate_one, CompareOps, CompareImmOps, emu_cmpi, srx_di8, BinaryImm, CmpI, m, u, c, f, g
  <2>2. "cmple" \in BaseOps /\ "cmple" # "mul" /\ ScalarBase[q.op] = "cmple"
    BY <1>18 DEF BaseOps, CompareOps, ScalarBase
  <2>3. e = IF "cmple" = "rsub" THEN op_("sub", f, u) ELSE op_("cmple", u, f)
    OBVIOUS
  <2>4. "cmple" \in CompareOps => t \in SignedTypes /\ f = f
    BY <1>18 DEF CompareOps, CompareImmOps
  <2> HIDE DEF e
  <2>6. Low(w, PutField(g, 0, e)) = LaneBoth("cmple", w, x, l)
    BY <1>1, <1>6, <1>7, <2>2, <2>3, <2>4 DEF w
  <2>7. QED BY <1>2, <1>18, <2>1, <2>2, <2>6 DEF w, l, c
<1>19. CASE q.op = "cmpgti"
  <2> DEFINE e == op_("cmpgt", u, f)
  <2>1. ScalarDoes(q, t, x, y) = Assign(m, g, "d", e).d
    BY <1>2, <1>19 DEF ScalarDoes, Named, emulate_one, CompareOps, CompareImmOps, emu_cmpi, srx_di8, BinaryImm, CmpI, m, u, c, f, g
  <2>2. "cmpgt" \in BaseOps /\ "cmpgt" # "mul" /\ ScalarBase[q.op] = "cmpgt"
    BY <1>19 DEF BaseOps, CompareOps, ScalarBase
  <2>3. e = IF "cmpgt" = "rsub" THEN op_("sub", f, u) ELSE op_("cmpgt", u, f)
    OBVIOUS
  <2>4. "cmpgt" \in CompareOps => t \in SignedTypes /\ f = f
    BY <1>19 DEF CompareOps, CompareImmOps
  <2> HIDE DEF e
  <2>6. Low(w, PutField(g, 0, e)) = LaneBoth("cmpgt", w, x, l)
    BY <1>1, <1>6, <1>7, <2>2, <2>3, <2>4 DEF w
  <2>7. QED BY <1>2, <1>19, <2>1, <2>2, <2>6 DEF w, l, c
<1>20. CASE q.op = "cmpgei"
  <2> DEFINE e == op_("cmpge", u, f)
  <2>1. ScalarDoes(q, t, x, y) = Assign(m, g, "d", e).d
    BY <1>2, <1>20 DEF ScalarDoes, Named, emulate_one, CompareOps, CompareImmOps, emu_cmpi, srx_di8, BinaryImm, CmpI, m, u, c, f, g
  <2>2. "cmpge" \in BaseOps /\ "cmpge" # "mul" /\ ScalarBase[q.op] = "cmpge"
    BY <1>20 DEF BaseOps, CompareOps, ScalarBase
  <2>3. e = IF "cmpge" = "rsub" THEN op_("sub", f, u) ELSE op_("cmpge", u, f)
    OBVIOUS
  <2>4. "cmpge" \in CompareOps => t \in SignedTypes /\ f = f
    BY <1>20 DEF CompareOps, CompareImmOps
  <2> HIDE DEF e
  <2>6. Low(w, PutField(g, 0, e)) = LaneBoth("cmpge", w, x, l)
    BY <1>1, <1>6, <1>7, <2>2, <2>3, <2>4 DEF w
  <2>7. QED BY <1>2, <1>20, <2>1, <2>2, <2>6 DEF w, l, c
<1>21. QED BY <1>8, <1>9, <1>10, <1>11, <1>12, <1>13, <1>14, <1>15, <1>16, <1>17, <1>18, <1>19, <1>20 DEF ScalarBase

(* Of a constant.                                                           *)
LEMMA ScalarConstant ==
    ASSUME NEW t \in IntTypes, NEW q, Named(q), q.op = "movi", NEW x, NEW y, q.imm \in Int
    PROVE  Low(Width(t), ScalarDoes(q, t, x, y)) = Low(Width(t), q.imm)
<1>1. Width(t) \in Widths /\ q.imm \in Int
  BY WidthsInRange
<1>2. Assign(File3(x, y), t, "d", q.imm).d = PutField(t, 0, q.imm)
  BY AssignThree
<1>3. ScalarDoes(q, t, x, y) = PutField(t, 0, q.imm)
  BY <1>2 DEF ScalarDoes, Named, emulate_one, CompareOps, CompareImmOps, emu_movi, TFRdimm12
<1>4. Low(Width(t), PutField(t, 0, q.imm)) = Low(Width(t), q.imm)
  BY <1>1, PutLow
<1>5. QED BY <1>3, <1>4

(* Of one register.                                                         *)
LEMMA ScalarUnary ==
    ASSUME NEW t \in IntTypes, NEW q, Named(q), NEW x \in Values(Width(t)), NEW y
    PROVE  LET w == Width(t)
           IN  /\ q.op = "mov" => Low(w, ScalarDoes(q, t, x, y)) = x
               /\ q.op = "neg" => Low(w, ScalarDoes(q, t, x, y)) = Low(w, 0 - x)
               /\ q.op = "bnot" => Low(w, ScalarDoes(q, t, x, y)) = Flipped(w, x)
<1> DEFINE w == Width(t)
           n == Unsigned(t)
           m == File3(x, y)
           u == Field(t, x)
           u1 == Field(n, x)
<1>1. w \in Widths /\ n \in IntTypes /\ Width(n) = w
  BY WidthsInRange, TypesOfWidth
<1>2. m["i"] = x /\ m["j"] = y /\ \A out, e : Assign(m, out, "d", e).d = PutField(out, 0, e)
  BY AssignThree
<1>3. x \in Values(w) /\ x \in Int /\ Low(w, x) = x
  <2>1. x \in Values(w)
    OBVIOUS
  <2> HIDE DEF w
  <2>2. QED BY <1>1, <2>1, WidthFacts, LowId DEF Values
<1> HIDE DEF m, w, n
<1>4. /\ u \in Int /\ Low(w, u) = x
      /\ t \in SignedTypes => u = ToSigned(w, x)
      /\ t \in UnsignedTypes => u = x
  BY <1>1, <1>3, FieldNumber DEF w
<1>5. /\ u1 \in Int /\ Low(w, u1) = x
      /\ n \in SignedTypes => u1 = ToSigned(w, x)
      /\ n \in UnsignedTypes => u1 = x
  BY <1>1, <1>3, FieldNumber
<1> HIDE DEF u, u1
<1>6. CASE q.op = "mov"
  <2>1. ScalarDoes(q, t, x, y) = PutField(t, 0, u)
    BY <1>2, <1>6 DEF ScalarDoes, Named, emulate_one, CompareOps, CompareImmOps, emu_mov, TFRdi_mov, m, u
  <2>2. Low(w, PutField(t, 0, u)) = Low(w, u)
    BY <1>1, <1>4, PutLow DEF w
  <2>3. QED BY <1>4, <1>6, <2>1, <2>2 DEF w
<1>8. CASE q.op = "neg"
  <2> DEFINE e == vop1_("neg", u)
  <2>1. ScalarDoes(q, t, x, y) = PutField(t, 0, e)
    BY <1>2, <1>8 DEF ScalarDoes, Named, emulate_one, CompareOps, CompareImmOps, emu_neg, TFRdi_neg, vop1_, m, u
  <2>2. Low(w, u) = Low(w, x)
    BY <1>3, <1>4
  <2>3. /\ Low(w, vop_("add", u, u)) = Low(w, x + x)
        /\ Low(w, vop_("sub", u, u)) = Low(w, x - x)
        /\ Low(w, vop_("mul", u, u)) = Low(w, x * x)
        /\ Low(w, e) = Low(w, 0 - x)
        /\ Low(w, vop1_("nop", u)) = Low(w, x)
        /\ vop_("add", u, u) \in Int /\ vop_("sub", u, u) \in Int /\ vop_("mul", u, u) \in Int
        /\ e \in Int /\ vop1_("nop", u) \in Int
    BY <1>1, <1>3, <1>4, <2>2, LaneArithmetic
  <2> HIDE DEF e
  <2>4. Low(w, PutField(t, 0, e)) = Low(w, e)
    BY <1>1, <2>3, PutLow DEF w
  <2>5. QED BY <1>8, <2>1, <2>3, <2>4 DEF w
<1>9. CASE q.op = "bnot"
  <2> DEFINE e == vop1_("bnot", u1)
  <2>1. ScalarDoes(q, t, x, y) = PutField(n, 0, e)
    BY <1>2, <1>9 DEF ScalarDoes, Named, emulate_one, CompareOps, CompareImmOps, emu_bnot, TFURdi, vop1_, m, n, u1
  <2>2. Low(w, u1) = Low(w, x)
    BY <1>3, <1>5
  <2>3. /\ Low(w, vop_("band", u1, u1)) = Low(w, BitAnd(x, x))
        /\ Low(w, vop_("bor", u1, u1)) = Low(w, BitOr(x, x))
        /\ Low(w, vop_("bxor", u1, u1)) = Low(w, BitXor(x, x))
        /\ Low(w, vop_("bandn", u1, u1)) = Low(w, BitAnd(Low(w, BitXor(x, 2 ^ w - 1)), x))
        /\ Low(w, e) = Low(w, BitXor(x, 2 ^ w - 1))
        /\ vop_("band", u1, u1) \in Int /\ vop_("bor", u1, u1) \in Int /\ vop_("bxor", u1, u1) \in Int
        /\ vop_("bandn", u1, u1) \in Int /\ e \in Int
    BY <1>1, <1>3, <1>5, <2>2, LaneLogic
  <2> HIDE DEF e
  <2>4. Low(w, PutField(n, 0, e)) = Low(w, e)
    BY <1>1, <2>3, PutLow
  <2>5. QED BY <1>9, <2>1, <2>3, <2>4 DEF w, Flipped
<1>10. QED BY <1>6, <1>8, <1>9 DEF w

(* The shift of lanes that a scalar shift is,                               *)
ShiftBase == [sll |-> "psll", srl |-> "psrl", sra |-> "psra",
              slli |-> "psll", srli |-> "psrl", srai |-> "psra"]

(* and what it does to a register that holds a lane.                        *)
LEMMA ScalarShift ==
    ASSUME NEW t \in IntTypes, NEW q, Named(q), NEW x \in Values(Width(t)), NEW y,
           q.op \in {"sll", "srl", "sra", "slli", "srli", "srai"}, NEW n \in 0 .. W64,
           q.op \in {"slli", "srli", "srai"} => n = q.imm,
           q.op \in {"sll", "srl", "sra"} => /\ Field(Unsigned(t), y) = n
                                            /\ Field(SignedOf(t), y) = n
    PROVE  Low(Width(t), ScalarDoes(q, t, x, y)) = ShiftLane(ShiftBase[q.op], Width(t), x, n)
<1> DEFINE w == Width(t)
           k == Unsigned(t)
           g == SignedOf(t)
           m == File3(x, y)
<1>1. /\ w \in Widths /\ k \in IntTypes /\ g \in IntTypes /\ Width(k) = w /\ Width(g) = w
      /\ k \in UnsignedTypes /\ g \in SignedTypes
  BY WidthsInRange, TypesOfWidth
<1>2. m["i"] = x /\ m["j"] = y /\ \A out, e : Assign(m, out, "d", e).d = PutField(out, 0, e)
  BY AssignThree
<1>3. x \in Values(w)
  OBVIOUS
<1> HIDE DEF m, w, k, g
<1>4. ASSUME NEW in \in IntTypes, Width(in) = w
      PROVE  /\ Field(in, x) \in Int /\ Low(w, Field(in, x)) = x
             /\ in \in SignedTypes => Field(in, x) = ToSigned(w, x)
             /\ in \in UnsignedTypes => Field(in, x) = x
  BY <1>1, <1>3, <1>4, FieldNumber
<1>5. ASSUME NEW in \in IntTypes, Width(in) = w, NEW out, Width(out) = w
      PROVE  Low(w, PutField(out, 0, op_("sll", Field(in, x), n))) = ShiftLane("psll", w, x, n)
  <2> DEFINE u == Field(in, x)
             e == op_("sll", u, n)
  <2>1. u \in Int /\ Low(w, u) = x
    BY <1>4, <1>5
  <2>2. e = vop_("sll", u, n)
    BY DEF vop_
  <2> HIDE DEF u, e
  <2>3. e \in Int /\ Low(w, e) = ShiftLane("psll", w, x, n)
    BY <1>1, <1>3, <2>1, <2>2, LaneShiftLeft
  <2>4. Low(w, PutField(out, 0, e)) = Low(w, e)
    BY <1>1, <1>5, <2>3, PutLow
  <2>5. QED BY <2>3, <2>4 DEF u, e
<1>6. Low(w, PutField(k, 0, op_("srl", Field(k, x), n))) = ShiftLane("psrl", w, x, n)
  <2> DEFINE e == op_("srl", Field(k, x), n)
  <2>1. Field(k, x) = x
    BY <1>1, <1>4
  <2>2. e = vop_("srl", x, n)
    BY <2>1 DEF vop_
  <2> HIDE DEF e
  <2>3. e \in Int /\ Low(w, e) = ShiftLane("psrl", w, x, n)
    BY <1>1, <1>3, <2>2, LaneShiftRight
  <2>4. Low(w, PutField(k, 0, e)) = Low(w, e)
    BY <1>1, <2>3, PutLow
  <2>5. QED BY <2>3, <2>4 DEF e
<1>7. Low(w, PutField(g, 0, op_("sra", Field(g, x), n))) = ShiftLane("psra", w, x, n)
  <2> DEFINE e == op_("sra", Field(g, x), n)
  <2>1. Field(g, x) = ToSigned(w, x)
    BY <1>1, <1>4
  <2>2. e = vop_("sra", ToSigned(w, x), n)
    BY <2>1 DEF vop_
  <2> HIDE DEF e
  <2>3. e \in Int /\ Low(w, e) = ShiftLane("psra", w, x, n)
    BY <1>1, <1>3, <2>2, LaneShiftSigned
  <2>4. Low(w, PutField(g, 0, e)) = Low(w, e)
    BY <1>1, <2>3, PutLow
  <2>5. QED BY <2>3, <2>4 DEF e
<1>8. CASE q.op = "sll"
  <2> DEFINE e == op_("sll", Field(k, x), n)
  <2>1. ScalarDoes(q, t, x, y) = Assign(m, k, "d", e).d
    BY <1>2, <1>8 DEF ScalarDoes, Named, emulate_one, CompareOps, CompareImmOps, emu_sll, TUFURdij, Binary, m, k, g
  <2>2. Low(w, PutField(k, 0, e)) = ShiftLane("psll", w, x, n)
    BY <1>1, <1>5 DEF w
  <2>3. ShiftBase[q.op] = "psll"
    BY <1>8 DEF ShiftBase
  <2>4. QED BY <1>2, <2>1, <2>2, <2>3 DEF w
<1>9. CASE q.op = "srl"
  <2> DEFINE e == op_("srl", Field(k, x), n)
  <2>1. ScalarDoes(q, t, x, y) = Assign(m, k, "d", e).d
    BY <1>2, <1>9 DEF ScalarDoes, Named, emulate_one, CompareOps, CompareImmOps, emu_srl, TUFURdij, Binary, m, k, g
  <2>2. Low(w, PutField(k, 0, e)) = ShiftLane("psrl", w, x, n)
    BY <1>1, <1>6 DEF w
  <2>3. ShiftBase[q.op] = "psrl"
    BY <1>9 DEF ShiftBase
  <2>4. QED BY <1>2, <2>1, <2>2, <2>3 DEF w
<1>10. CASE q.op = "sra"
  <2> DEFINE e == op_("sra", Field(g, x), n)
  <2>1. ScalarDoes(q, t, x, y) = Assign(m, g, "d", e).d
    BY <1>2, <1>10 DEF ScalarDoes, Named, emulate_one, CompareOps, CompareImmOps, emu_sra, TIFIRdij, Binary, m, k, g
  <2>2. Low(w, PutField(g, 0, e)) = ShiftLane("psra", w, x, n)
    BY <1>1, <1>7 DEF w
  <2>3. ShiftBase[q.op] = "psra"
    BY <1>10 DEF ShiftBase
  <2>4. QED BY <1>2, <2>1, <2>2, <2>3 DEF w
<1>11. CASE q.op = "slli"
  <2> DEFINE e == op_("sll", Field(t, x), n)
  <2>1. ScalarDoes(q, t, x, y) = Assign(m, t, "d", e).d
    BY <1>2, <1>11 DEF ScalarDoes, Named, emulate_one, CompareOps, CompareImmOps, emu_slli, EMU_XXS_rrb, BinaryImm, m, k, g
  <2>2. Low(w, PutField(t, 0, e)) = ShiftLane("psll", w, x, n)
    BY <1>1, <1>5 DEF w
  <2>3. ShiftBase[q.op] = "psll"
    BY <1>11 DEF ShiftBase
  <2>4. QED BY <1>2, <2>1, <2>2, <2>3 DEF w
<1>12. CASE q.op = "srli"
  <2> DEFINE e == op_("srl", Field(k, x), n)
  <2>1. ScalarDoes(q, t, x, y) = Assign(m, k, "d", e).d
    BY <1>2, <1>12 DEF ScalarDoes, Named, emulate_one, CompareOps, CompareImmOps, emu_srli, TFURdi8, BinaryImm, m, k, g
  <2>2. Low(w, PutField(k, 0, e)) = ShiftLane("psrl", w, x, n)
    BY <1>1, <1>6 DEF w
  <2>3. ShiftBase[q.op] = "psrl"
    BY <1>12 DEF ShiftBase
  <2>4. QED BY <1>2, <2>1, <2>2, <2>3 DEF w
<1>13. CASE q.op = "srai"
  <2> DEFINE e == op_("sra", Field(g, x), n)
  <2>1. ScalarDoes(q, t, x, y) = Assign(m, g, "d", e).d
    BY <1>2, <1>13 DEF ScalarDoes, Named, emulate_one, CompareOps, CompareImmOps, emu_srai, TFIRdi8, BinaryImm, m, k, g
  <2>2. Low(w, PutField(g, 0, e)) = ShiftLane("psra", w, x, n)
    BY <1>1, <1>7 DEF w
  <2>3. ShiftBase[q.op] = "psra"
    BY <1>13 DEF ShiftBase
  <2>4. QED BY <1>2, <2>1, <2>2, <2>3 DEF w
<1>14. QED BY <1>8, <1>9, <1>10, <1>11, <1>12, <1>13

(* The scalar instruction of LanesAsScalars, and the type it has there.     *)
AsScalar(p) == [p EXCEPT !.op = ScalarOp[@], !.rd = "d", !.ri = "i", !.rj = "j"]
AsType(p) == IF p.op \in VecCompareOps \cup VecCompareImmOps THEN SignedOf(p.type) ELSE p.type

(* That instruction names the registers of File3.                           *)
LEMMA ScalarNamed ==
    ASSUME NEW p \in Instructions
    PROVE  /\ Named(AsScalar(p)) /\ AsScalar(p).imm = p.imm /\ AsScalar(p).op = ScalarOp[p.op]
           /\ AsType(p) \in IntTypes /\ Width(AsType(p)) = Width(p.type)
           /\ p.op \in VecCompareOps \cup VecCompareImmOps => AsType(p) \in SignedTypes
           /\ Width(p.type) \in Widths
<1>1. p \in VecInstructions
  BY VecInstructionsAssumption
<1>2. p.type \in IntTypes
  BY InstructionRegs
<1>3. QED BY <1>1, <1>2, TypesOfWidth, WidthsInRange DEF VecInstructions, AsScalar, AsType, Named

(* The names of the operations.                                             *)
LEMMA ScalarNames ==
    ASSUME NEW n \in DOMAIN ScalarOp
    PROVE  /\ n \in VecBinaryOps => /\ ScalarOp[n] = BaseOf[n] /\ BaseOf[n] \in BaseOps
                                    /\ BaseOf[n] # "mul"
                                    /\ BaseOf[n] \in CompareOps => n \in VecCompareOps
           /\ n \in VecImmOps => /\ ScalarOp[n] \in DOMAIN ScalarBase
                                 /\ ScalarBase[ScalarOp[n]] = BaseOf[n] /\ BaseOf[n] \in BaseOps
                                 /\ ScalarOp[n] \in CompareImmOps => n \in VecCompareImmOps
           /\ n \in VecShiftOps => /\ ScalarOp[n] \in {"sll", "srl", "sra"}
                                   /\ ShiftBase[ScalarOp[n]] = ShiftOf[n] /\ ShiftOf[n] \in ShiftVec
           /\ n \in VecShiftImmOps => /\ ScalarOp[n] \in {"slli", "srli", "srai"}
                                      /\ ShiftBase[ScalarOp[n]] = ShiftOf[n] /\ ShiftOf[n] \in ShiftVec
<1>1. CASE n \in VecBinaryOps
  BY <1>1 DEF ScalarOp, VecBinaryOps, VecCompareOps, BaseOf, BaseOps, CompareOps, VecImmOps,
              VecCompareImmOps, VecShiftOps, VecShiftImmOps
<1>2. CASE n \in VecImmOps
  BY <1>2 DEF ScalarOp, VecBinaryOps, VecCompareOps, BaseOf, BaseOps, CompareOps, CompareImmOps, VecImmOps,
              VecCompareImmOps, VecShiftOps, VecShiftImmOps, ScalarBase
<1>3. CASE n \in VecShiftOps
  BY <1>3 DEF ScalarOp, VecBinaryOps, VecCompareOps, VecImmOps,
              VecCompareImmOps, VecShiftOps, VecShiftImmOps, ShiftBase, ShiftOf, ShiftVec
<1>4. CASE n \in VecShiftImmOps
  BY <1>4 DEF ScalarOp, VecBinaryOps, VecCompareOps, VecImmOps,
              VecCompareImmOps, VecShiftOps, VecShiftImmOps, ShiftBase, ShiftOf, ShiftVec
<1>5. QED BY <1>1, <1>2, <1>3, <1>4

(* The lane of a register that an instruction writes.                       *)
LEMMA LanePut ==
    ASSUME NEW p \in Instructions, NEW v1 \in [VRegs -> Vector], NEW z
    PROVE  Put(v1, p.rd, z)[p.rd] = z
BY InstructionRegs DEF Put

(* One instruction in one lane, and the scalar instruction.  y is the count *)
(* of a shift or the lane of the second operand.                            *)
InLane(p, f, k, y) ==
    Lane(Width(p.type), emulate_vec(p, p.type, f.v, f.r)[p.rd], k)
    = Low(Width(p.type), ScalarDoes(AsScalar(p), AsType(p), Lane(Width(p.type), f.v[p.ri], k), y))

(* Instructions of two vectors,                                             *)
LEMMA LaneBinary ==
    ASSUME NEW p \in Instructions, p.op \in VecBinaryOps, p.op \in DOMAIN ScalarOp, NEW f \in Files,
           NEW k \in LaneIndex(Width(p.type))
    PROVE  InLane(p, f, k, Lane(Width(p.type), f.v[p.rj], k))
<1> DEFINE w == Width(p.type)
           op == BaseOf[p.op]
           q == AsScalar(p)
           t == AsType(p)
           a == f.v[p.ri]
           b == f.v[p.rj]
           x == Lane(w, a, k)
           y == Lane(w, b, k)
           z == Both(op, w, a, b)
<1>1. f.v \in [VRegs -> Vector] /\ a \in Vector /\ b \in Vector
  <2>1. p.op # "vmovi"
    BY DEF VecBinaryOps, VecCompareOps
  <2>2. QED BY <2>1, LoadedParts, InstructionRegs
<1>2. Named(q) /\ q.op = op /\ t \in IntTypes /\ Width(t) = w /\ w \in Widths /\ op \in BaseOps /\ op # "mul"
      /\ (op \in CompareOps => t \in SignedTypes)
  BY ScalarNamed, ScalarNames
<1>3. emulate_vec(p, p.type, f.v, f.r) = Put(f.v, p.rd, z)
  BY <1>1, EmulatedBinary
<1>4. Put(f.v, p.rd, z)[p.rd] = z
  BY <1>1, LanePut
<1>5. k \in LaneIndex(w)
  OBVIOUS
<1> HIDE DEF op, q, t, a, b, w
<1>6. Lane(w, z, k) = LaneBoth(op, w, x, y)
  BY <1>1, <1>2, <1>5, LanesOfBoth
<1>7. x \in Values(w) /\ y \in Values(w)
  BY <1>1, <1>2, <1>5, LaneRange
<1> HIDE DEF x, y, z
<1>8. Low(w, ScalarDoes(q, t, x, y)) = LaneBoth(op, w, x, y)
  BY <1>2, <1>7, ScalarBinary
<1>9. QED BY <1>3, <1>4, <1>6, <1>8 DEF InLane, w, q, t, a, b, x, y

(* of a vector and an immediate,                                            *)
LEMMA LaneImmediate ==
    ASSUME NEW p \in Instructions, p.op \in VecImmOps, p.op \in DOMAIN ScalarOp, NEW f \in Files,
           p.op \in VecCompareImmOps => Width(p.type) # W64,
           NEW k \in LaneIndex(Width(p.type)), NEW y
    PROVE  InLane(p, f, k, y)
<1> DEFINE w == Width(p.type)
           op == BaseOf[p.op]
           q == AsScalar(p)
           t == AsType(p)
           c == p.imm
           a == f.v[p.ri]
           b == Splat(w, c)
           x == Lane(w, a, k)
           z == Both(op, w, a, b)
<1>1. f.v \in [VRegs -> Vector] /\ a \in Vector /\ c \in Int
  <2>1. p.op # "vmovi"
    BY DEF VecImmOps, VecCompareImmOps
  <2>2. QED BY <2>1, LoadedParts, InstructionRegs
<1>2. Named(q) /\ q.op \in DOMAIN ScalarBase /\ q.imm = c /\ ScalarBase[q.op] = op
      /\ t \in IntTypes /\ Width(t) = w /\ w \in Widths /\ op \in BaseOps
      /\ (q.op \in CompareImmOps => t \in SignedTypes)
  BY ScalarNamed, ScalarNames
<1>3. emulate_vec(p, p.type, f.v, f.r) = Put(f.v, p.rd, z)
  BY <1>1, EmulatedImmediate
<1>4. Put(f.v, p.rd, z)[p.rd] = z
  BY <1>1, LanePut
<1>5. k \in LaneIndex(w)
  OBVIOUS
<1> HIDE DEF op, q, t, a, w, c
<1>6. b \in Vector /\ Lane(w, b, k) = Low(w, c)
  BY <1>1, <1>2, <1>5, SplatLanes
<1> HIDE DEF b
<1>7. Lane(w, z, k) = LaneBoth(op, w, x, Lane(w, b, k))
  BY <1>1, <1>2, <1>5, <1>6, LanesOfBoth
<1>8. x \in Values(w)
  BY <1>1, <1>2, <1>5, LaneRange
<1> HIDE DEF x, z
<1>9. Low(w, ScalarDoes(q, t, x, y)) = LaneBoth(op, w, x, Low(w, c))
  BY <1>1, <1>2, <1>8, ScalarImmediate
<1>10. QED BY <1>3, <1>4, <1>6, <1>7, <1>9 DEF InLane, w, q, t, a, x

(* of one vector,                                                           *)
LEMMA LaneUnary ==
    ASSUME NEW p \in Instructions, p.op \in VecUnaryOps, NEW f \in Files,
           NEW k \in LaneIndex(Width(p.type)), NEW y
    PROVE  InLane(p, f, k, y)
<1> DEFINE w == Width(p.type)
           q == AsScalar(p)
           t == AsType(p)
           a == f.v[p.ri]
           x == Lane(w, a, k)
<1>1. f.v \in [VRegs -> Vector] /\ a \in Vector
  <2>1. p.op # "vmovi"
    BY DEF VecUnaryOps
  <2>2. QED BY <2>1, LoadedParts, InstructionRegs
<1>2. Named(q) /\ t \in IntTypes /\ Width(t) = w /\ w \in Widths /\ q.op = ScalarOp[p.op]
  BY ScalarNamed
<1>3. /\ p.op = "vmov" => emulate_vec(p, p.type, f.v, f.r) = Put(f.v, p.rd, a)
      /\ p.op = "vmovi" => emulate_vec(p, p.type, f.v, f.r) = Put(f.v, p.rd, Splat(w, p.imm))
      /\ p.op = "vneg" => emulate_vec(p, p.type, f.v, f.r) = Put(f.v, p.rd, Negated(w, a))
      /\ p.op = "vbnot" => emulate_vec(p, p.type, f.v, f.r) = Put(f.v, p.rd, Not(a))
  BY <1>1, EmulatedUnary
<1>4. \A z : Put(f.v, p.rd, z)[p.rd] = z
  BY <1>1, LanePut
<1>5. k \in LaneIndex(w)
  OBVIOUS
<1> HIDE DEF q, t, a, w
<1>6. Lane(w, Negated(w, a), k) = Low(w, 0 - x)
  BY <1>1, <1>2, <1>5, NegatedLanes
<1>7. Lane(w, Not(a), k) = Flipped(w, x)
  BY <1>1, <1>2, <1>5, NotLanes
<1>8. x \in Values(w)
  BY <1>1, <1>2, <1>5, LaneRange
<1>9. Lane(w, a, k) = x
  OBVIOUS
<1> HIDE DEF x
<1>10. /\ q.op = "mov" => Low(w, ScalarDoes(q, t, x, y)) = x
       /\ q.op = "neg" => Low(w, ScalarDoes(q, t, x, y)) = Low(w, 0 - x)
       /\ q.op = "bnot" => Low(w, ScalarDoes(q, t, x, y)) = Flipped(w, x)
  BY <1>2, <1>8, ScalarUnary
<1>11. CASE p.op = "vmov"
  <2>1. q.op = "mov"
    BY <1>2, <1>11 DEF ScalarOp
  <2>2. QED BY <1>3, <1>4, <1>9, <1>10, <1>11, <2>1 DEF InLane, w, q, t, a, x
<1>12. CASE p.op = "vneg"
  <2>1. q.op = "neg"
    BY <1>2, <1>12 DEF ScalarOp
  <2>2. QED BY <1>3, <1>4, <1>6, <1>10, <1>12, <2>1 DEF InLane, w, q, t, a, x
<1>13. CASE p.op = "vbnot"
  <2>1. q.op = "bnot"
    BY <1>2, <1>13 DEF ScalarOp
  <2>2. QED BY <1>3, <1>4, <1>7, <1>10, <1>13, <2>1 DEF InLane, w, q, t, a, x
<1>14. QED BY <1>11, <1>12, <1>13 DEF VecUnaryOps

(* of an immediate alone,                                                   *)
LEMMA LaneConstant ==
    ASSUME NEW p \in Instructions, p.op = "vmovi", NEW f \in Files,
           NEW k \in LaneIndex(Width(p.type)), NEW y
    PROVE  InLane(p, f, k, y)
<1> DEFINE w == Width(p.type)
           q == AsScalar(p)
           t == AsType(p)
           c == p.imm
           x == Lane(w, f.v[p.ri], k)
           z == Splat(w, c)
<1>1. f.v \in [VRegs -> Vector] /\ c \in Int
  BY LoadedParts, InstructionRegs
<1>2. Named(q) /\ t \in IntTypes /\ Width(t) = w /\ w \in Widths /\ q.op = "movi" /\ q.imm = c
  BY ScalarNamed DEF ScalarOp
<1>3. emulate_vec(p, p.type, f.v, f.r) = Put(f.v, p.rd, z)
  BY <1>1, EmulatedUnary
<1>4. Put(f.v, p.rd, z)[p.rd] = z
  BY <1>1, LanePut
<1>5. k \in LaneIndex(w)
  OBVIOUS
<1> HIDE DEF q, t, w, c, x
<1>6. Lane(w, z, k) = Low(w, c)
  BY <1>1, <1>2, <1>5, SplatLanes
<1> HIDE DEF z
<1>7. Low(w, ScalarDoes(q, t, x, y)) = Low(w, c)
  BY <1>1, <1>2, ScalarConstant
<1>8. QED BY <1>3, <1>4, <1>6, <1>7 DEF InLane, w, q, t, x

(* and shifts by an immediate                                               *)
LEMMA LaneShiftImmediate ==
    ASSUME NEW p \in Instructions, p.op \in VecShiftImmOps, p.op \in DOMAIN ScalarOp, NEW f \in Files,
           Defined(p, f.r), NEW k \in LaneIndex(Width(p.type)), NEW y
    PROVE  InLane(p, f, k, y)
<1> DEFINE w == Width(p.type)
           q == AsScalar(p)
           t == AsType(p)
           n == p.imm
           a == f.v[p.ri]
           x == Lane(w, a, k)
           op == ShiftOf[p.op]
           z == ByCount(op, w, a, n)
<1>1. f.v \in [VRegs -> Vector] /\ a \in Vector
  <2>1. p.op # "vmovi"
    BY DEF VecShiftImmOps
  <2>2. QED BY <2>1, LoadedParts, InstructionRegs
<1>2. Named(q) /\ q.imm = n /\ q.op \in {"slli", "srli", "srai"} /\ ShiftBase[q.op] = op /\ op \in ShiftVec
      /\ t \in IntTypes /\ Width(t) = w /\ w \in Widths
  BY ScalarNamed, ScalarNames
<1>3. emulate_vec(p, p.type, f.v, f.r) = Put(f.v, p.rd, z)
  BY <1>1, EmulatedShiftImmediate
<1>4. Put(f.v, p.rd, z)[p.rd] = z
  BY <1>1, LanePut
<1>5. k \in LaneIndex(w) /\ n \in 0 .. LimitOf(w) - 1
  BY DEF Defined, Promoted, LimitOf
<1>6. n \in 0 .. W64
  BY <1>5, WidthFacts DEF LimitOf
<1> HIDE DEF q, t, a, w, n, op
<1>7. Lane(w, z, k) = ShiftLane(op, w, x, n)
  BY <1>1, <1>2, <1>5, CountedLanes
<1>8. x \in Values(w)
  BY <1>1, <1>2, <1>5, LaneRange
<1> HIDE DEF x, z
<1>9. Low(w, ScalarDoes(q, t, x, y)) = ShiftLane(op, w, x, n)
  BY <1>2, <1>6, <1>8, ScalarShift
<1>10. QED BY <1>3, <1>4, <1>7, <1>9 DEF InLane, w, q, t, a, x

(* or by a register.                                                        *)
LEMMA LaneShift ==
    ASSUME NEW p \in Instructions, p.op \in VecShiftOps, p.op \in DOMAIN ScalarOp, NEW f \in Files,
           Defined(p, f.r), f.r[p.rj] < 2 ^ (Width(p.type) - 1), NEW k \in LaneIndex(Width(p.type))
    PROVE  InLane(p, f, k, f.r[p.rj])
<1> DEFINE w == Width(p.type)
           q == AsScalar(p)
           t == AsType(p)
           y == f.r[p.rj]
           a == f.v[p.ri]
           x == Lane(w, a, k)
           op == ShiftOf[p.op]
           n == CountOf(op, w, y)
           z == ByCount(op, w, a, n)
<1>1. f.v \in [VRegs -> Vector] /\ f.r \in [Regs -> Word] /\ a \in Vector /\ y \in Word /\ p.type \in IntTypes
  <2>1. p.op # "vmovi"
    BY DEF VecShiftOps
  <2>2. QED BY <2>1, LoadedParts, InstructionRegs
<1>2. Named(q) /\ q.op \in {"sll", "srl", "sra"} /\ ShiftBase[q.op] = op /\ op \in ShiftVec
      /\ t \in IntTypes /\ Width(t) = w /\ w \in Widths /\ t = p.type
  <2>1. p.op \notin VecCompareOps \cup VecCompareImmOps
    BY DEF VecShiftOps, VecCompareOps, VecCompareImmOps
  <2>2. QED BY <2>1, ScalarNamed, ScalarNames DEF AsType
<1>3. emulate_vec(p, p.type, f.v, f.r) = Put(f.v, p.rd, z)
  BY <1>1, EmulatedShift
<1>4. Put(f.v, p.rd, z)[p.rd] = z
  BY <1>1, LanePut
<1>5. k \in LaneIndex(w) /\ y < Promoted(t) /\ y < 2 ^ w /\ y < 2 ^ (w - 1)
  BY <1>2 DEF Defined
<1> HIDE DEF q, t, a, w, op, y
<1>6. /\ y \in 0 .. LimitOf(w) - 1
      /\ Field(Unsigned(t), y) = y
      /\ n = y
  BY <1>1, <1>2, <1>5, DefinedCount
<1>7. y \in 0 .. W64 /\ y \in Int
  BY <1>6, WidthFacts DEF LimitOf
<1>8. Field(SignedOf(t), y) = y
  <2>1. w \in 1 .. W64 /\ w \in 0 .. W64
    BY <1>2, WidthFacts, WidthsInRange
  <2>2. Low(w, y) = y
    <3>1. 2 ^ w \in Nat \ {0}
      BY <2>1, Power
    <3>2. y \in 0 .. 2 ^ w - 1
      BY <1>5, <1>7, <3>1
    <3>3. QED BY <2>1, <3>2, LowId
  <2>3. ToSigned(w, y) = y
    BY <1>5, <1>7, <2>1, <2>2, SignedLow
  <2>4. SignedOf(t) \notin UnsignedTypes /\ Width(SignedOf(t)) = w
    BY <1>2, TypesOfWidth
  <2>5. QED BY <2>3, <2>4 DEF Field
<1> HIDE DEF n
<1>9. Lane(w, z, k) = ShiftLane(op, w, x, y)
  BY <1>1, <1>2, <1>5, <1>6, CountedLanes
<1>10. x \in Values(w)
  BY <1>1, <1>2, <1>5, LaneRange
<1> HIDE DEF x, z
<1>11. Low(w, ScalarDoes(q, t, x, y)) = ShiftLane(op, w, x, y)
  BY <1>2, <1>6, <1>7, <1>8, <1>10, ScalarShift
<1>12. QED BY <1>3, <1>4, <1>9, <1>11 DEF InLane, w, q, t, a, x, y

(* and that lanes are scalars.                                              *)
LEMMA InvLanes == VecInv /\ ComparesNarrow => LanesAsScalars
<1> SUFFICES ASSUME VecInv, ComparesNarrow, phase = "done", instr.op \in DOMAIN ScalarOp,
                    instr.op \in VecShiftOps => r[instr.rj] < 2 ^ (Width(instr.type) - 1),
                    NEW k \in LaneIndex(Width(instr.type))
             PROVE  Lane(Width(instr.type), v[instr.rd], k)
                    = Low(Width(instr.type),
                          ScalarDoes(AsScalar(instr), AsType(instr),
                                     Lane(Width(instr.type), file.v[instr.ri], k),
                                     IF instr.op \in VecShiftOps THEN r[instr.rj]
                                     ELSE Lane(Width(instr.type), file.v[instr.rj], k)))
  BY DEF LanesAsScalars, ScalarDoes, AsScalar, AsType, File3
<1> DEFINE l == Lane(Width(instr.type), file.v[instr.rj], k)
           y == IF instr.op \in VecShiftOps THEN r[instr.rj] ELSE l
<1>1. /\ instr \in Instructions /\ file \in Files /\ Defined(instr, file.r) /\ r = file.r
      /\ v = emulate_vec(instr, instr.type, file.v, file.r)
  BY DEF VecInv, CodeRight, BothRun
<1>2. instr.op \in VecCompareImmOps => Width(instr.type) # W64
  BY <1>1 DEF ComparesNarrow
<1>3. instr.op \in VecOperations
  BY <1>1, InstructionRegs
<1>4. CASE instr.op \in VecShiftOps
  <2>1. InLane(instr, file, k, file.r[instr.rj])
    BY <1>1, <1>4, LaneShift
  <2>2. QED BY <1>1, <1>4, <2>1 DEF InLane
<1>5. CASE instr.op \notin VecShiftOps
  <2>1. ASSUME instr.op \in VecBinaryOps
        PROVE  InLane(instr, file, k, l)
    BY <1>1, <2>1, LaneBinary
  <2>2. ASSUME instr.op \notin VecBinaryOps, NEW y1
        PROVE  InLane(instr, file, k, y1)
    BY <1>1, <1>2, <1>3, <1>5, <2>2, LaneImmediate, LaneUnary, LaneConstant, LaneShiftImmediate
       DEF VecOperations
  <2>3. InLane(instr, file, k, l)
    BY <2>1, <2>2
  <2>4. y = l
    BY <1>5
  <2> HIDE DEF l, y
  <2>5. QED BY <1>1, <2>3, <2>4 DEF InLane, l, y
<1>6. QED BY <1>4, <1>5

(* For all register files, instructions but the product, types and aliasings*)
(* of operands (64-bit lanes compared with an immediate excepted): in every *)
(* lane a vector instruction of the emulator does what the scalar one does. *)
THEOREM LanesAreScalars == ComparesNarrow => (Spec => []LanesAsScalars)
<1>1. ComparesNarrow => (VecInv => LanesAsScalars)
  BY InvLanes
<1>2. ASSUME ComparesNarrow
      PROVE  Spec => []LanesAsScalars
  <2>1. VecInv => LanesAsScalars
    BY <1>1, <1>2
  <2>2. QED BY <2>1, VecInvariant, PTL
<1>3. QED BY <1>2
=============================================================================
