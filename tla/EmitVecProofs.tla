--------------------------- MODULE EmitVecProofs ----------------------------
(***************************************************************************)
(* Proofs about the emitters of vector instructions: for every width of    *)
(* the lanes, every register file and every aliasing of the operands, what *)
(* the native code of an instruction computes, in which registers, and that*)
(* it needs no register and no feature that it has not.                    *)
(***************************************************************************)
EXTENDS JitVec, WordProofs

(* The recursion in Pack, unfolded: the sums of the first digits.           *)
Sums(s, N, L, E) ==
    s[0] = 0 /\ \A k \in 1 .. N : s[k] = s[k - 1] + L[k - 1] * E[k - 1]

(* Digits E[k] apart, each below B.                                         *)
Scale(E, N, B) ==
    /\ E[0] = 1
    /\ \A k \in 0 .. N : E[k] \in Nat \ {0}
    /\ \A k \in 1 .. N : E[k] = E[k - 1] * B

(* A larger place is a multiple of a smaller one.                           *)
LEMMA Places ==
    ASSUME NEW N \in Nat, NEW B \in Nat \ {0}, NEW E, Scale(E, N, B), NEW k \in 0 .. N
    PROVE  \A i \in k .. N : \E j \in Nat \ {0} : E[i] = E[k] * j
<1> DEFINE S == {i \in 0 .. N : i < k \/ \E j \in Nat \ {0} : E[i] = E[k] * j}
<1>1. 0 \in S
  <2>1. CASE k = 0
    <3>1. E[0] = E[k] * 1
      BY <2>1 DEF Scale
    <3>2. QED BY <3>1
  <2>2. CASE k # 0
    BY <2>2
  <2>3. QED BY <2>1, <2>2
<1>2. ASSUME NEW i \in 1 .. N, i - 1 \in S
      PROVE  i \in S
  <2>1. CASE i < k
    BY <2>1
  <2>2. CASE i = k
    <3>1. E[i] = E[k] * 1
      BY <2>2 DEF Scale
    <3>2. QED BY <3>1
  <2>3. CASE i > k
    <3>1. PICK j \in Nat \ {0} : E[i - 1] = E[k] * j
      BY <1>2, <2>3
    <3>2. E[i] = (E[k] * j) * B
      BY <3>1 DEF Scale
    <3>3. E[k] \in Nat
      BY DEF Scale
    <3> DEFINE e == E[k]
    <3>4. e \in Nat /\ E[i] = (e * j) * B
      BY <3>2, <3>3
    <3> HIDE DEF e
    <3>5. E[i] = e * (j * B)
      BY <3>4
    <3>6. j * B \in Nat \ {0}
      OBVIOUS
    <3>7. QED BY <3>5, <3>6 DEF e
  <2>4. QED BY <2>1, <2>2, <2>3
<1>3. 0 .. N \subseteq S
  <2> HIDE DEF S
  <2>1. QED BY <1>1, <1>2, UpTo
<1>4. QED BY <1>3

(* A digit above a remainder.                                               *)
LEMMA Carry ==
    ASSUME NEW m \in Nat \ {0}, NEW B \in Nat \ {0}, NEW a \in 0 .. m - 1, NEW l \in 0 .. B - 1
    PROVE  a + l * m \in 0 .. m * B - 1
<1> DEFINE p == l * m
           c == m * B
<1>1. p \in Int /\ c \in Int
  OBVIOUS
<1>2. p >= 0 /\ l * m <= (B - 1) * m /\ (B - 1) * m = m * B - m
  OBVIOUS
<1>3. p <= c - m
  BY <1>2
<1> HIDE DEF p, c
<1>4. a + p \in 0 .. c - 1
  BY <1>1, <1>2, <1>3
<1>5. QED BY <1>4 DEF p, c

(* The digit of x at place m, in base B.                                    *)
Digit(x, m, B) == (x \div m) % B

(* s sums up the digits L at the places E.                                  *)
MadeOf(s, N, E, B, L) == /\ \A k \in 0 .. N : s[k] \in 0 .. E[k] - 1
                         /\ \A k \in 0 .. N - 1 : Digit(s[N], E[k], B) = L[k]

(* The digits of such a sum are the ones it was made of.                    *)
LEMMA Digits ==
    ASSUME NEW N \in Nat, NEW B \in Nat \ {0}, NEW E, Scale(E, N, B),
           NEW L, \A k \in 0 .. N - 1 : L[k] \in 0 .. B - 1,
           NEW s \in [0 .. N -> Int], Sums(s, N, L, E)
    PROVE  MadeOf(s, N, E, B, L)
<1>1. \A k \in 0 .. N : s[k] \in 0 .. E[k] - 1
  <2> DEFINE S == {k \in 0 .. N : s[k] \in 0 .. E[k] - 1}
  <2>1. 0 \in S
    BY DEF Sums, Scale
  <2>2. ASSUME NEW k \in 1 .. N, k - 1 \in S
        PROVE  k \in S
    <3> DEFINE m == E[k - 1]
               l == L[k - 1]
               a == s[k - 1]
    <3>1. k - 1 \in 0 .. N - 1 /\ k - 1 \in 0 .. N
      OBVIOUS
    <3>2. a \in 0 .. m - 1 /\ m \in Nat \ {0} /\ l \in 0 .. B - 1
      BY <2>2, <3>1 DEF Scale
    <3>3. s[k] = a + l * m /\ E[k] = m * B
      BY DEF Sums, Scale
    <3> HIDE DEF m, l, a
    <3>4. a + l * m \in 0 .. m * B - 1
      BY <3>2, Carry
    <3>5. s[k] \in 0 .. E[k] - 1
      BY <3>3, <3>4
    <3>6. QED BY <3>5
  <2>3. 0 .. N \subseteq S
    <3> HIDE DEF S
    <3>1. QED BY <2>1, <2>2, UpTo
  <2>4. QED BY <2>3
<1>2. ASSUME NEW k \in 0 .. N - 1
      PROVE  Digit(s[N], E[k], B) = L[k]
  <2> DEFINE e == E[k + 1]
             S == {i \in 0 .. N : i < k + 1 \/ \E j \in Int : s[i] = s[k + 1] + e * j}
  <2>1. k + 1 \in 0 .. N /\ k \in 0 .. N /\ e \in Nat
    BY DEF Scale
  <2>2. 0 \in S
    OBVIOUS
  <2>3. ASSUME NEW i \in 1 .. N, i - 1 \in S
        PROVE  i \in S
    <3>1. CASE i < k + 1
      BY <3>1
    <3>2. CASE i = k + 1
      <4>1. s[i] = s[k + 1] + e * 0
        BY <2>1, <3>2
      <4>2. QED BY <4>1
    <3>3. CASE i > k + 1
      <4>1. PICK j \in Int : s[i - 1] = s[k + 1] + e * j
        BY <2>3, <3>3
      <4>2. i - 1 \in k + 1 .. N
        BY <3>3
      <4>3. PICK h \in Nat \ {0} : E[i - 1] = e * h
        BY <2>1, <4>2, Places
      <4>4. s[i] = s[i - 1] + L[i - 1] * E[i - 1]
        BY DEF Sums
      <4> DEFINE l == L[i - 1]
      <4>5. l \in Int
        BY <4>2, <2>1
      <4>6. s[i] = (s[k + 1] + e * j) + l * (e * h)
        BY <4>1, <4>3, <4>4
      <4> DEFINE a == s[k + 1]
      <4>7. a \in Int /\ s[i] = (a + e * j) + l * (e * h) /\ e \in Int
        BY <2>1, <4>6
      <4> HIDE DEF a, e, l
      <4>8. s[i] = a + e * (j + l * h) /\ j + l * h \in Int
        BY <4>5, <4>7
      <4>9. \E x \in Int : s[i] = a + e * x
        BY <4>8
      <4>10. QED BY <4>9 DEF a, e
    <3>4. QED BY <3>1, <3>2, <3>3, <2>1
  <2>4. N \in S
    <3> HIDE DEF S
    <3>1. 0 .. N \subseteq S
      BY <2>2, <2>3, UpTo
    <3>2. QED BY <3>1
  <2>5. PICK j \in Int : s[N] = s[k + 1] + e * j
    BY <2>4
  <2> DEFINE a == s[k]
             m == E[k]
             l == L[k]
             t == s[N]
  <2>6. s[k + 1] = a + l * m /\ e = m * B /\ a \in 0 .. m - 1 /\ m \in Nat \ {0} /\ l \in 0 .. B - 1
    <3>1. k + 1 \in 1 .. N /\ (k + 1) - 1 = k
      OBVIOUS
    <3>2. s[k + 1] = s[(k + 1) - 1] + L[(k + 1) - 1] * E[(k + 1) - 1]
      BY <3>1 DEF Sums
    <3>3. E[k + 1] = E[(k + 1) - 1] * B
      BY <3>1 DEF Scale
    <3>4. a \in 0 .. m - 1 /\ m \in Nat \ {0}
      BY <1>1, <2>1 DEF Scale
    <3>5. QED BY <3>1, <3>2, <3>3, <3>4
  <2>7. t = (a + l * m) + (m * B) * j /\ t \in Int
    BY <2>5, <2>6
  <2> HIDE DEF a, m, l, e, t
  <2>8. t = m * (l + B * j) + a /\ l + B * j \in Int
    BY <2>6, <2>7
  <2>9. t \div m = l + B * j
    <3> DEFINE q == l + B * j
    <3>1. t = m * q + a /\ q \in Int
      BY <2>8
    <3> HIDE DEF q
    <3>2. t \div m = q
      BY <2>6, <2>7, <3>1, ModUnique
    <3>3. QED BY <3>2 DEF q
  <2>10. (l + B * j) % B = l
    <3> DEFINE q == l + B * j
    <3>1. q = B * j + l /\ q \in Int
      BY <2>6
    <3> HIDE DEF q
    <3>2. q % B = l
      BY <2>6, <3>1, ModUnique
    <3>3. QED BY <3>2 DEF q
  <2>11. QED BY <2>9, <2>10 DEF t, m, l, Digit
<1>3. QED BY <1>1, <1>2 DEF MadeOf

(* A number is the sum of its digits.                                       *)
LEMMA DigitsSum ==
    ASSUME NEW N \in Nat, NEW B \in Nat \ {0}, NEW E, Scale(E, N, B),
           NEW x \in 0 .. E[N] - 1,
           NEW L, \A k \in 0 .. N - 1 : L[k] = Digit(x, E[k], B),
           NEW s \in [0 .. N -> Int], Sums(s, N, L, E)
    PROVE  s[N] = x
<1>0. x \in Int /\ N \in 0 .. N /\ E[N] \in Nat \ {0}
  BY DEF Scale
<1> DEFINE S == {k \in 0 .. N : s[k] = x % E[k]}
<1>1. 0 \in S
  BY <1>0 DEF Sums, Scale
<1>2. ASSUME NEW k \in 1 .. N, k - 1 \in S
      PROVE  k \in S
  <2> DEFINE m == E[k - 1]
             q == x \div m
             a == x % m
             l == q % B
             h == q \div B
  <2>1. k - 1 \in 0 .. N - 1 /\ k - 1 \in 0 .. N
    OBVIOUS
  <2>2. m \in Nat \ {0} /\ E[k] = m * B /\ s[k] = a + l * m
    <3>1. s[k] = s[k - 1] + L[k - 1] * E[k - 1] /\ E[k] = E[k - 1] * B
      BY DEF Sums, Scale
    <3>2. s[k - 1] = a /\ L[k - 1] = l
      BY <1>2, <2>1 DEF Digit
    <3>3. m \in Nat \ {0}
      BY <2>1 DEF Scale
    <3>4. QED BY <3>1, <3>2, <3>3
  <2>3. x = m * q + a /\ q \in Int /\ a \in 0 .. m - 1
    <3> HIDE DEF m
    <3>1. QED BY <1>0, <2>2, ModRange
  <2>4. q = B * h + l /\ h \in Int /\ l \in 0 .. B - 1
    <3> HIDE DEF q
    <3>1. QED BY <2>3, ModRange
  <2> HIDE DEF m, q, a, l, h
  <2>5. x = (m * B) * h + (a + l * m)
    <3>1. x = m * (B * h + l) + a
      BY <2>3, <2>4
    <3>2. QED BY <3>1, <2>2, <2>3, <2>4
  <2>6. a + l * m \in 0 .. m * B - 1
    BY <2>2, <2>3, <2>4, Carry
  <2>7. x % (m * B) = a + l * m
    <3> DEFINE M == m * B
               u == a + l * m
    <3>1. M \in Nat \ {0} /\ u \in 0 .. M - 1 /\ x = M * h + u
      <4>1. m * B \in Nat \ {0}
        BY <2>2
      <4>2. QED BY <4>1, <2>5, <2>6
    <3> HIDE DEF M, u
    <3>2. x % M = u
      BY <1>0, <2>4, <3>1, ModUnique
    <3>3. QED BY <3>2 DEF M, u
  <2>8. s[k] = x % E[k]
    BY <2>2, <2>7
  <2>9. QED BY <2>8
<1>3. 0 .. N \subseteq S
  <2> HIDE DEF S
  <2>1. QED BY <1>1, <1>2, UpTo
<1>4. s[N] = x % E[N]
  BY <1>0, <1>3
<1>5. x % E[N] = x
  <2> DEFINE M == E[N]
  <2>1. M \in Nat \ {0} /\ x \in 0 .. M - 1 /\ x \in Int
    BY <1>0
  <2> HIDE DEF M
  <2>2. x % M = x
    BY <2>1
  <2>3. QED BY <2>2 DEF M
<1>6. QED BY <1>4, <1>5

-----------------------------------------------------------------------------
(* The lanes of a word: how many there are, and their places.               *)
Place(w) == [k \in 0 .. PerWord(w) |-> 2 ^ (w * k)]

(* The lanes of a word: 1, 2, 4 and 8 of them.                              *)
LEMMA PerWords ==
    /\ PerWord(W64) = 1 /\ PerWord(W32) = 2 /\ PerWord(W16) = 4 /\ PerWord(W8) = 8
    /\ W64 * PerWord(W64) = W64 /\ W32 * PerWord(W32) = W64
    /\ W16 * PerWord(W16) = W64 /\ W8 * PerWord(W8) = W64
<1>1. /\ W8 \in Nat \ {0} /\ W16 \in Nat \ {0} /\ W32 \in Nat \ {0} /\ W64 \in Nat \ {0}
      /\ W16 = 2 * W8 /\ W32 = 4 * W8 /\ W64 = 8 * W8
  BY WidthAssumption, VectorAssumption
<1>2. ASSUME NEW w \in Nat \ {0}, NEW n \in Nat, W64 = w * n
      PROVE  PerWord(w) = n
  <2>1. 0 \in 0 .. w - 1 /\ W64 = w * n + 0 /\ n \in Int /\ W64 \in Int
    BY <1>1, <1>2
  <2>2. W64 \div w = n
    BY <2>1, ModUnique
  <2>3. QED BY <2>2 DEF PerWord
<1>3. W64 = W64 * 1 /\ W64 = W32 * 2 /\ W64 = W16 * 4 /\ W64 = W8 * 8
  BY <1>1
<1>4. PerWord(W64) = 1 /\ PerWord(W32) = 2 /\ PerWord(W16) = 4 /\ PerWord(W8) = 8
  <2>1. 1 \in Nat /\ 2 \in Nat /\ 4 \in Nat /\ 8 \in Nat
    OBVIOUS
  <2>2. QED BY <1>1, <1>2, <1>3, <2>1
<1>5. QED BY <1>1, <1>3, <1>4

(* The lanes fill the words of a vector.                                    *)
LEMMA LaneCount ==
    ASSUME NEW w \in Widths
    PROVE  /\ PerWord(w) \in Nat \ {0} /\ w * PerWord(w) = W64
           /\ w \in Nat \ {0} /\ w \in 1 .. W64 /\ 2 ^ w \in Nat \ {0}
           /\ LaneIndex(w) = 0 .. 2 * PerWord(w) - 1
<1>1. PerWord(w) \in Nat \ {0} /\ w * PerWord(w) = W64
  BY PerWords DEF Widths
<1>2. w \in Nat \ {0} /\ w \in 1 .. W64
  BY WidthsInRange
<1>3. 2 ^ w \in Nat \ {0}
  <2>1. w \in 0 .. W64
    BY <1>2, Power
  <2>2. QED BY <2>1, Power
<1>4. QED BY <1>1, <1>2, <1>3 DEF LaneIndex

(* The places of the lanes are powers of two apart, up to the whole word.   *)
LEMMA PlaceScale ==
    ASSUME NEW w \in Widths
    PROVE  /\ Scale(Place(w), PerWord(w), 2 ^ w)
           /\ Place(w)[PerWord(w)] = 2 ^ W64
<1> DEFINE N == PerWord(w)
<1>1. N \in Nat \ {0} /\ w * N = W64 /\ w \in Nat \ {0} /\ w \in 1 .. W64
  BY LaneCount
<1>2. \A k \in 0 .. N : w * k \in 0 .. W64
  <2> SUFFICES ASSUME NEW k \in 0 .. N
               PROVE  w * k \in 0 .. W64
    OBVIOUS
  <2> HIDE DEF N
  <2>1. w * k <= w * N /\ w * k >= 0 /\ w * k \in Int
    BY <1>1
  <2>2. QED BY <1>1, <2>1
<1>3. \A k \in 0 .. N : Place(w)[k] = 2 ^ (w * k)
  BY DEF Place
<1> HIDE DEF N
<1>4. Place(w)[0] = 1
  <2>1. w * 0 = 0 /\ 2 ^ 0 = 1 /\ 0 \in 0 .. N
    BY <1>1
  <2>2. QED BY <1>3, <2>1
<1>5. \A k \in 0 .. N : Place(w)[k] \in Nat \ {0}
  BY <1>2, <1>3, Power
<1>6. ASSUME NEW k \in 1 .. N
      PROVE  Place(w)[k] = Place(w)[k - 1] * 2 ^ w
  <2>1. k \in 0 .. N /\ k - 1 \in 0 .. N
    BY <1>1
  <2> DEFINE a == w * (k - 1)
  <2>2. w * k = a + w
    BY <1>1
  <2>3. a \in 0 .. W64 /\ w \in 0 .. W64 /\ a + w <= W64
    BY <1>1, <1>2, <2>1, <2>2
  <2> HIDE DEF a
  <2>4. 2 ^ (a + w) = 2 ^ a * 2 ^ w
    BY <2>3, PowerAssumption
  <2>5. Place(w)[k] = 2 ^ (a + w) /\ Place(w)[k - 1] = 2 ^ a
    BY <1>3, <2>1, <2>2 DEF a
  <2>6. QED BY <2>4, <2>5
<1>7. Place(w)[N] = 2 ^ W64
  <2>1. N \in 0 .. N
    BY <1>1
  <2>2. QED BY <1>1, <1>3, <2>1
<1>8. QED BY <1>4, <1>5, <1>6, <1>7 DEF Scale, N

(* The recursion in Pack, unfolded.                                         *)
LEMMA SumExists ==
    ASSUME NEW w \in Widths, NEW L, NEW o \in Int,
           \A k \in 0 .. PerWord(w) - 1 : L[o + k] \in Int
    PROVE  LET sum[k \in 0 .. PerWord(w)] ==
                   IF k = 0 THEN 0 ELSE sum[k - 1] + L[o + k - 1] * 2 ^ (w * (k - 1))
           IN  /\ sum \in [0 .. PerWord(w) -> Int]
               /\ Sums(sum, PerWord(w), [k \in 0 .. PerWord(w) - 1 |-> L[o + k]], Place(w))
<1> DEFINE N == PerWord(w)
           D == [k \in 0 .. N - 1 |-> L[o + k]]
           Rec(h) == h = [k \in 0 .. N |->
                            IF k = 0 THEN 0 ELSE h[k - 1] + L[o + k - 1] * 2 ^ (w * (k - 1))]
           low == CHOOSE h : Rec(h)
           term(k) == L[o + k - 1] * 2 ^ (w * (k - 1))
           next == [k \in 1 .. N |-> [s \in Int |-> s + term(k)]]
<1>1. N \in Nat \ {0} /\ N \in Nat /\ 0 \in 0 .. N
  BY LaneCount
<1> HIDE DEF N
<1>2. ASSUME NEW k \in 1 .. N
      PROVE  /\ term(k) = D[k - 1] * Place(w)[k - 1]
             /\ term(k) \in Int
  <2>1. k - 1 \in 0 .. N - 1 /\ k - 1 \in 0 .. N /\ o + (k - 1) = o + k - 1
    BY <1>1
  <2>2. L[o + k - 1] \in Int /\ D[k - 1] = L[o + k - 1]
    <3>1. L[o + (k - 1)] \in Int
      BY <2>1 DEF N
    <3>2. QED BY <2>1, <3>1
  <2>3. Place(w)[k - 1] = 2 ^ (w * (k - 1)) /\ Place(w)[k - 1] \in Int
    <3>1. Place(w)[k - 1] = 2 ^ (w * (k - 1))
      BY <2>1 DEF Place, N
    <3>2. Place(w)[k - 1] \in Int
      BY <2>1, PlaceScale DEF Scale, N
    <3>3. QED BY <3>1, <3>2
  <2>4. QED BY <2>2, <2>3
<1> HIDE DEF D
<1>3. next \in [1 .. N -> [Int -> Int]]
  <2> HIDE DEF term
  <2>1. ASSUME NEW k \in 1 .. N
        PROVE  [s \in Int |-> s + term(k)] \in [Int -> Int]
    BY <1>2
  <2>2. QED BY <2>1
<1>4. PICK g \in [0 .. N -> Int] : Recursion(g, N, 0, next)
  <2> HIDE DEF next
  <2>1. 0 \in Int
    OBVIOUS
  <2>2. QED BY <1>1, <1>3, <2>1, RecursionUpTo
<1>5. \A k \in 1 .. N : g[k] = g[k - 1] + term(k)
  <2> SUFFICES ASSUME NEW k \in 1 .. N
               PROVE  g[k] = g[k - 1] + term(k)
    OBVIOUS
  <2> HIDE DEF term
  <2>1. k - 1 \in 0 .. N
    BY <1>1
  <2>2. g[k - 1] \in Int
    BY <2>1
  <2>3. QED BY <1>4, <2>2 DEF Recursion
<1>6. Rec(g)
  <2>1. g = [k \in 0 .. N |-> g[k]]
    OBVIOUS
  <2>2. \A k \in 0 .. N : g[k] = IF k = 0 THEN 0 ELSE g[k - 1] + term(k)
    <3> HIDE DEF term
    <3>1. \A k \in 0 .. N : k = 0 \/ k \in 1 .. N
      BY <1>1
    <3>2. QED BY <1>4, <1>5, <3>1 DEF Recursion
  <2>3. QED BY <2>1, <2>2
<1> HIDE DEF Rec
<1>7. Rec(low)
  BY <1>6
<1> HIDE DEF low
<1>8. low = [k \in 0 .. N |-> low[k]]
  BY <1>7 DEF Rec
<1>9. \A k \in 0 .. N : low[k] = IF k = 0 THEN 0 ELSE low[k - 1] + term(k)
  BY <1>7 DEF Rec
<1> HIDE DEF term
<1>10. low[0] = 0
  BY <1>1, <1>9
<1>11. \A k \in 1 .. N : low[k] = low[k - 1] + term(k)
  <2>1. \A k \in 1 .. N : k \in 0 .. N /\ k # 0
    BY <1>1
  <2>2. QED BY <1>9, <2>1
<1>12. low \in [0 .. N -> Int]
  <2> DEFINE S == {k \in 0 .. N : low[k] \in Int}
  <2>1. 0 \in S
    BY <1>1, <1>10
  <2>2. ASSUME NEW k \in 1 .. N, k - 1 \in S
        PROVE  k \in S
    BY <1>2, <1>11, <2>2
  <2>3. 0 .. N \subseteq S
    <3> HIDE DEF S
    <3>1. QED BY <1>1, <2>1, <2>2, UpTo
  <2>4. QED BY <1>8, <2>3
<1>13. Sums(low, N, D, Place(w))
  BY <1>2, <1>10, <1>11 DEF Sums
<1>14. QED BY <1>12, <1>13 DEF low, Rec, D, N

(* The two halves of a vector put together of lanes.                        *)
LEMMA PackHalves ==
    ASSUME NEW w \in Widths, NEW L, \A k \in LaneIndex(w) : L[k] \in Int
    PROVE  \E s, t \in [0 .. PerWord(w) -> Int] :
               /\ Sums(s, PerWord(w), [k \in 0 .. PerWord(w) - 1 |-> L[0 * PerWord(w) + k]], Place(w))
               /\ Sums(t, PerWord(w), [k \in 0 .. PerWord(w) - 1 |-> L[1 * PerWord(w) + k]], Place(w))
               /\ Pack(w, L) = << s[PerWord(w)], t[PerWord(w)] >>
<1> DEFINE N == PerWord(w)
           half(o) == LET sum[k \in 0 .. PerWord(w)] ==
                              IF k = 0 THEN 0 ELSE sum[k - 1] + L[o + k - 1] * 2 ^ (w * (k - 1))
                      IN  sum
<1>1. N \in Nat \ {0} /\ LaneIndex(w) = 0 .. 2 * N - 1
  BY LaneCount
<1>2. ASSUME NEW o \in {0 * PerWord(w), 1 * PerWord(w)}
      PROVE  /\ half(o) \in [0 .. PerWord(w) -> Int]
             /\ Sums(half(o), PerWord(w), [k \in 0 .. PerWord(w) - 1 |-> L[o + k]], Place(w))
  <2>1. o \in Int /\ \A k \in 0 .. PerWord(w) - 1 : L[o + k] \in Int
    <3>1. o \in {0, N}
      BY <1>1
    <3> HIDE DEF N
    <3>2. \A k \in 0 .. N - 1 : o + k \in 0 .. 2 * N - 1
      BY <1>1, <3>1
    <3>3. QED BY <1>1, <3>1, <3>2 DEF N
  <2>2. QED BY <2>1, SumExists
<1>3. Pack(w, L) = << half(0 * PerWord(w))[PerWord(w)], half(1 * PerWord(w))[PerWord(w)] >>
  BY Zenon DEF Pack
<1> HIDE DEF half
<1>4. QED BY <1>2, <1>3

(* Where lane k is.                                                         *)
LEMMA LaneAt ==
    ASSUME NEW w \in Widths, NEW h \in {0, 1}, NEW k \in 0 .. PerWord(w) - 1
    PROVE  /\ h * PerWord(w) + k \in LaneIndex(w)
           /\ (h * PerWord(w) + k) \div PerWord(w) = h
           /\ (h * PerWord(w) + k) % PerWord(w) = k
<1> DEFINE N == PerWord(w)
           i == h * N + k
<1>1. N \in Nat \ {0} /\ LaneIndex(w) = 0 .. 2 * N - 1
  BY LaneCount
<1>2. k \in 0 .. N - 1 /\ h \in Int
  OBVIOUS
<1> HIDE DEF N
<1>3. i \in 0 .. 2 * N - 1 /\ i = N * h + k /\ i \in Int
  <2>1. CASE h = 0
    BY <1>1, <1>2, <2>1
  <2>2. CASE h = 1
    BY <1>1, <1>2, <2>2
  <2>3. QED BY <2>1, <2>2
<1> HIDE DEF i
<1>4. i % N = k
  BY <1>1, <1>2, <1>3, ModUnique
<1>5. i \div N = h
  BY <1>1, <1>2, <1>3, ModUnique
<1>6. QED BY <1>1, <1>3, <1>4, <1>5 DEF i, N

(* A lane is the k-th of one of the two words.                              *)
LEMMA LaneSplit ==
    ASSUME NEW w \in Widths, NEW i \in LaneIndex(w)
    PROVE  \E h \in {0, 1} : \E k \in 0 .. PerWord(w) - 1 : i = h * PerWord(w) + k
<1> DEFINE N == PerWord(w)
<1>1. N \in Nat \ {0} /\ i \in 0 .. 2 * N - 1
  BY LaneCount
<1> HIDE DEF N
<1>2. CASE i < N
  <2>1. i = 0 * N + i /\ i \in 0 .. N - 1
    BY <1>1, <1>2
  <2>2. QED BY <2>1 DEF N
<1>3. CASE ~(i < N)
  <2>1. i = 1 * N + (i - N) /\ i - N \in 0 .. N - 1
    BY <1>1, <1>3
  <2>2. QED BY <2>1 DEF N
<1>4. QED BY <1>2, <1>3

(* And is a digit of that word, in base 2^w.                                *)
LEMMA LaneOf ==
    ASSUME NEW w \in Widths, NEW h \in {0, 1}, NEW k \in 0 .. PerWord(w) - 1, NEW x
    PROVE  Lane(w, x, h * PerWord(w) + k) = Digit(x[h + 1], Place(w)[k], 2 ^ w)
<1>1. /\ (h * PerWord(w) + k) \div PerWord(w) = h
      /\ (h * PerWord(w) + k) % PerWord(w) = k
  BY LaneAt
<1>2. k \in 0 .. PerWord(w)
  BY LaneCount
<1>3. Place(w)[k] = 2 ^ (w * k)
  BY <1>2 DEF Place
<1>4. QED BY <1>1, <1>3 DEF Lane, Low, Digit

(* The values of lanes.                                                     *)
Values(w) == 0 .. 2 ^ w - 1

(* A vector is a pair of words.                                             *)
LEMMA VectorParts ==
    ASSUME NEW x \in Vector
    PROVE  x = << x[1], x[2] >> /\ x[1] \in Word /\ x[2] \in Word /\ x[1] \in Int /\ x[2] \in Int
           /\ \A h \in {0, 1} : x[h + 1] \in Word
<1>1. PICK a \in Word, b \in Word : x = << a, b >>
  BY DEF Vector
<1>2. x[1] = a /\ x[2] = b
  BY <1>1
<1>3. a \in Int /\ b \in Int
  BY Power DEF Word
<1>4. \A h \in {0, 1} : x[h + 1] = a \/ x[h + 1] = b
  <2>1. x[0 + 1] = a
    BY <1>2
  <2>2. x[1 + 1] = b
    BY <1>2
  <2>3. QED BY <2>1, <2>2
<1>5. QED BY <1>1, <1>2, <1>3, <1>4

(* A lane holds a number of its width.                                      *)
LEMMA LaneRange ==
    ASSUME NEW w \in Widths, NEW x \in Vector, NEW k \in LaneIndex(w)
    PROVE  Lane(w, x, k) \in Values(w) /\ Lane(w, x, k) \in Int
<1>1. PICK h \in {0, 1} : \E j \in 0 .. PerWord(w) - 1 : k = h * PerWord(w) + j
  BY LaneSplit
<1>2. PICK j \in 0 .. PerWord(w) - 1 : k = h * PerWord(w) + j
  BY <1>1
<1> DEFINE a == x[h + 1]
           m == Place(w)[j]
           B == 2 ^ w
<1>3. a \in Int /\ B \in Nat \ {0}
  <2>1. x[h + 1] \in Word
    BY VectorParts
  <2>2. QED BY <2>1, LaneCount, Power DEF Word
<1>4. m \in Nat \ {0}
  <2>1. j \in 0 .. PerWord(w)
    BY LaneCount
  <2>2. QED BY <2>1, PlaceScale DEF Scale
<1>5. Lane(w, x, k) = (a \div m) % B
  BY <1>2, LaneOf DEF Digit
<1> HIDE DEF a, m
<1>6. a \div m \in Int
  BY <1>3, <1>4, ModRange
<1> HIDE DEF B
<1>7. (a \div m) % B \in 0 .. B - 1
  BY <1>3, <1>6, ModRange
<1>8. (a \div m) % B \in Int
  BY <1>3, <1>7
<1>9. QED BY <1>5, <1>7, <1>8 DEF Values, B

(* Putting lanes together makes a vector with those lanes.                  *)
LEMMA PackLanes ==
    ASSUME NEW w \in Widths, NEW L, \A k \in LaneIndex(w) : L[k] \in Values(w)
    PROVE  /\ Pack(w, L) \in Vector
           /\ \A k \in LaneIndex(w) : Lane(w, Pack(w, L), k) = L[k]
<1> DEFINE N == PerWord(w)
           B == 2 ^ w
           part(h) == [k \in 0 .. PerWord(w) - 1 |-> L[h * PerWord(w) + k]]
<1>1. N \in Nat \ {0} /\ N \in Nat /\ B \in Nat \ {0} /\ LaneIndex(w) = 0 .. 2 * N - 1
  BY LaneCount
<1>2. Scale(Place(w), N, B) /\ Place(w)[N] = 2 ^ W64
  BY PlaceScale
<1>3. \A k \in LaneIndex(w) : L[k] \in Int
  BY <1>1 DEF Values
<1>4. PICK s, t \in [0 .. N -> Int] :
           /\ Sums(s, N, part(0), Place(w)) /\ Sums(t, N, part(1), Place(w))
           /\ Pack(w, L) = << s[N], t[N] >>
  BY <1>3, PackHalves
<1>5. \A h \in {0, 1} : \A k \in 0 .. N - 1 : part(h)[k] \in 0 .. B - 1 /\ part(h)[k] = L[h * N + k]
  <2>1. \A h \in {0, 1} : \A k \in 0 .. N - 1 : h * N + k \in LaneIndex(w)
    BY LaneAt
  <2>2. QED BY <2>1 DEF Values
<1> HIDE DEF N, B, part
<1>6. /\ \A k \in 0 .. N : s[k] \in 0 .. Place(w)[k] - 1
      /\ \A k \in 0 .. N - 1 : Digit(s[N], Place(w)[k], B) = part(0)[k]
  <2>1. \A k \in 0 .. N - 1 : part(0)[k] \in 0 .. B - 1
    BY <1>5
  <2>2. MadeOf(s, N, Place(w), B, part(0))
    BY <1>1, <1>2, <1>4, <2>1, Digits
  <2>3. QED BY <2>2 DEF MadeOf
<1>7. /\ \A k \in 0 .. N : t[k] \in 0 .. Place(w)[k] - 1
      /\ \A k \in 0 .. N - 1 : Digit(t[N], Place(w)[k], B) = part(1)[k]
  <2>1. \A k \in 0 .. N - 1 : part(1)[k] \in 0 .. B - 1
    BY <1>5
  <2>2. MadeOf(t, N, Place(w), B, part(1))
    BY <1>1, <1>2, <1>4, <2>1, Digits
  <2>3. QED BY <2>2 DEF MadeOf
<1>8. s[N] \in Word /\ t[N] \in Word
  <2>1. N \in 0 .. N
    BY <1>1
  <2>2. QED BY <1>2, <1>6, <1>7, <2>1 DEF Word
<1>9. Pack(w, L) \in Vector
  BY <1>4, <1>8 DEF Vector
<1>10. ASSUME NEW k \in LaneIndex(w)
       PROVE  Lane(w, Pack(w, L), k) = L[k]
  <2>1. PICK h \in {0, 1} : \E j \in 0 .. PerWord(w) - 1 : k = h * PerWord(w) + j
    BY LaneSplit
  <2>2. PICK j \in 0 .. PerWord(w) - 1 : k = h * PerWord(w) + j
    BY <2>1
  <2>3. Lane(w, Pack(w, L), k) = Digit(Pack(w, L)[h + 1], Place(w)[j], 2 ^ w)
    BY <2>2, LaneOf
  <2>4. CASE h = 0
    <3>1. Pack(w, L)[h + 1] = s[N]
      BY <1>4, <2>4
    <3>2. Digit(s[N], Place(w)[j], B) = L[k]
      BY <1>5, <1>6, <2>2, <2>4 DEF N
    <3>3. QED BY <2>3, <3>1, <3>2 DEF B
  <2>5. CASE h = 1
    <3>1. Pack(w, L)[h + 1] = t[N]
      BY <1>4, <2>5
    <3>2. Digit(t[N], Place(w)[j], B) = L[k]
      BY <1>5, <1>7, <2>2, <2>5 DEF N
    <3>3. QED BY <2>3, <3>1, <3>2 DEF B
  <2>6. QED BY <2>4, <2>5
<1>11. QED BY <1>9, <1>10

(* A vector is put together of its lanes.                                   *)
LEMMA Repack ==
    ASSUME NEW w \in Widths, NEW x \in Vector, NEW L,
           \A k \in LaneIndex(w) : L[k] = Lane(w, x, k)
    PROVE  Pack(w, L) = x
<1> DEFINE N == PerWord(w)
           B == 2 ^ w
           part(h) == [k \in 0 .. PerWord(w) - 1 |-> L[h * PerWord(w) + k]]
<1>1. N \in Nat \ {0} /\ N \in Nat /\ B \in Nat \ {0} /\ LaneIndex(w) = 0 .. 2 * N - 1
  BY LaneCount
<1>2. Scale(Place(w), N, B) /\ Place(w)[N] = 2 ^ W64
  BY PlaceScale
<1>3. \A k \in LaneIndex(w) : L[k] \in Int
  BY LaneRange
<1>4. PICK s, t \in [0 .. N -> Int] :
           /\ Sums(s, N, part(0), Place(w)) /\ Sums(t, N, part(1), Place(w))
           /\ Pack(w, L) = << s[N], t[N] >>
  BY <1>3, PackHalves
<1>5. ASSUME NEW h \in {0, 1}, NEW k \in 0 .. N - 1
      PROVE  part(h)[k] = Digit(x[h + 1], Place(w)[k], B)
  <2>1. h * N + k \in LaneIndex(w)
    BY LaneAt
  <2>2. part(h)[k] = Lane(w, x, h * N + k)
    BY <2>1
  <2>3. Lane(w, x, h * N + k) = Digit(x[h + 1], Place(w)[k], B)
    BY LaneOf
  <2>4. QED BY <2>2, <2>3
<1>6. x = << x[1], x[2] >> /\ x[1] \in 0 .. Place(w)[N] - 1 /\ x[2] \in 0 .. Place(w)[N] - 1
  BY <1>2, VectorParts DEF Word
<1> HIDE DEF N, B, part
<1>7. s[N] = x[1]
  <2>1. \A k \in 0 .. N - 1 : part(0)[k] = Digit(x[1], Place(w)[k], B)
    <3>1. \A k \in 0 .. N - 1 : part(0)[k] = Digit(x[0 + 1], Place(w)[k], B)
      BY <1>5
    <3>2. QED BY <3>1
  <2> DEFINE y == x[1]
  <2>2. \A k \in 0 .. N - 1 : part(0)[k] = Digit(y, Place(w)[k], B)
    BY <2>1
  <2>3. y \in 0 .. Place(w)[N] - 1
    BY <1>6
  <2> HIDE DEF y
  <2>4. QED BY <1>1, <1>2, <1>4, <2>2, <2>3, DigitsSum DEF y
<1>8. t[N] = x[2]
  <2>1. \A k \in 0 .. N - 1 : part(1)[k] = Digit(x[2], Place(w)[k], B)
    <3>1. \A k \in 0 .. N - 1 : part(1)[k] = Digit(x[1 + 1], Place(w)[k], B)
      BY <1>5
    <3>2. QED BY <3>1
  <2> DEFINE y == x[2]
  <2>2. \A k \in 0 .. N - 1 : part(1)[k] = Digit(y, Place(w)[k], B)
    BY <2>1
  <2>3. y \in 0 .. Place(w)[N] - 1
    BY <1>6
  <2> HIDE DEF y
  <2>4. QED BY <1>1, <1>2, <1>4, <2>2, <2>3, DigitsSum DEF y
<1>9. QED BY <1>4, <1>6, <1>7, <1>8

(* Vectors with the same lanes are the same.                                *)
LEMMA SameLanes ==
    ASSUME NEW w \in Widths, NEW x \in Vector, NEW y \in Vector,
           \A k \in LaneIndex(w) : Lane(w, x, k) = Lane(w, y, k)
    PROVE  x = y
<1> DEFINE L == [k \in LaneIndex(w) |-> Lane(w, x, k)]
<1>1. \A k \in LaneIndex(w) : L[k] = Lane(w, x, k) /\ L[k] = Lane(w, y, k)
  OBVIOUS
<1> HIDE DEF L
<1>2. Pack(w, L) = x
  BY <1>1, Repack
<1>3. Pack(w, L) = y
  BY <1>1, Repack
<1>4. QED BY <1>2, <1>3

-----------------------------------------------------------------------------
(* The lanes an instruction makes fit their lane.                           *)
LEMMA LaneWiseTyped ==
    ASSUME NEW op \in LaneWiseOps, NEW w \in Widths,
           op \in {"pmuludq", "pand", "por", "pxor"} => w = W64,
           NEW x \in Values(w), NEW y \in Values(w)
    PROVE  LaneWise(op, w, x, y) \in Values(w)
<1>1. w \in 0 .. W64 /\ w \in 1 .. W64 /\ 2 ^ w \in Nat \ {0} /\ x \in Int /\ y \in Int
  <2>1. w \in 1 .. W64 /\ 2 ^ w \in Nat \ {0}
    BY LaneCount
  <2>2. x \in Int /\ y \in Int
    BY <2>1 DEF Values
  <2>3. QED BY <2>1, <2>2, Power
<1>2. \A z \in Int : Low(w, z) \in Values(w)
  BY <1>1, LowRange DEF Values
<1>3. CASE op \in {"padd", "psub", "pmull"}
  <2>1. x + y \in Int /\ x - y \in Int /\ x * y \in Int
    BY <1>1
  <2>2. LaneWise(op, w, x, y) \in {Low(w, x + y), Low(w, x - y), Low(w, x * y)}
    BY <1>3 DEF LaneWise
  <2>3. QED BY <1>2, <2>1, <2>2
<1>4. CASE op = "pmuludq"
  <2> DEFINE a == Low(W32, x)
             b == Low(W32, y)
             h == 2 ^ W32
  <2>1. W32 \in 0 .. W64 /\ h \in Nat \ {0} /\ 2 ^ W64 = h * h
    <3>1. W32 \in 0 .. W64 /\ W64 = W32 + W32 /\ W64 <= W64
      BY WidthAssumption, VectorAssumption
    <3>2. QED BY <3>1, PowerAssumption
  <2>2. a \in 0 .. h - 1 /\ b \in 0 .. h - 1
    BY <1>1, <2>1, LowRange
  <2>3. LaneWise(op, w, x, y) = a * b /\ w = W64
    BY <1>4 DEF LaneWise
  <2> HIDE DEF a, b, h
  <2>4. a + b * h \in Int
    BY <2>1, <2>2
  <2>5. a * b >= 0 /\ a * b <= (h - 1) * (h - 1) /\ a * b \in Int
    <3>1. a * b >= 0 /\ a * b \in Int
      BY <2>1, <2>2
    <3>2. a * b <= a * (h - 1)
      BY <2>1, <2>2
    <3>3. a * (h - 1) <= (h - 1) * (h - 1)
      BY <2>1, <2>2
    <3>4. a * (h - 1) \in Int /\ (h - 1) * (h - 1) \in Int
      BY <2>1, <2>2
    <3>5. QED BY <3>1, <3>2, <3>3, <3>4
  <2>6. (h - 1) * (h - 1) <= h * h - 1 /\ (h - 1) * (h - 1) \in Int /\ h * h \in Int
    BY <2>1
  <2>7. a * b \in 0 .. h * h - 1
    BY <2>5, <2>6
  <2>8. QED BY <2>1, <2>3, <2>7 DEF Values
<1>5. CASE op \in {"pcmpeq", "pcmpgt"}
  <2>1. Mask(w, TRUE) \in Values(w) /\ Mask(w, FALSE) \in Values(w)
    BY <1>1 DEF Mask, Values
  <2>2. (x = y) \in BOOLEAN /\ (ToSigned(w, x) > ToSigned(w, y)) \in BOOLEAN
    OBVIOUS
  <2>3. Mask(w, x = y) \in Values(w) /\ Mask(w, ToSigned(w, x) > ToSigned(w, y)) \in Values(w)
    BY <1>1 DEF Mask, Values
  <2>4. LaneWise(op, w, x, y) \in {Mask(w, x = y), Mask(w, ToSigned(w, x) > ToSigned(w, y))}
    BY <1>5 DEF LaneWise
  <2>5. QED BY <2>3, <2>4
<1>6. CASE op \in {"pand", "por", "pxor"}
  <2>1. LaneWise(op, w, x, y) \in {BitAnd(x, y), BitOr(x, y), BitXor(x, y)}
    BY <1>6 DEF LaneWise
  <2>2. w = W64
    BY <1>6
  <2>3. LaneWise(op, w, x, y) \in Word
    BY <1>1, <2>1, LogicRange
  <2>4. QED BY <2>2, <2>3 DEF Values, Word
<1>7. QED BY <1>3, <1>4, <1>5, <1>6 DEF LaneWiseOps

(* A quotient of a number is no further from zero.                          *)
LEMMA DivSmaller ==
    ASSUME NEW m \in Nat \ {0}, NEW x \in Nat
    PROVE  x \div m \in 0 .. x
<1> DEFINE q == x \div m
           s == x % m
<1>1. x = m * q + s /\ q \in Int /\ s \in 0 .. m - 1
  BY ModRange
<1> HIDE DEF q, s
<1>2. q >= 0
  <2>1. CASE q < 0
    <3>1. m * q <= -m
      BY <1>1, <2>1
    <3>2. m * q \in Int
      BY <1>1
    <3>3. QED BY <1>1, <3>1, <3>2
  <2>2. QED BY <1>1, <2>1
<1>3. q <= m * q /\ m * q \in Int
  BY <1>1, <1>2
<1>4. QED BY <1>1, <1>2, <1>3 DEF q

(* What a shift makes of a lane is a lane.                                  *)
LEMMA ShiftLaneTyped ==
    ASSUME NEW op \in ShiftVec, NEW w \in Widths, NEW x \in Values(w), NEW n \in Int
    PROVE  ShiftLane(op, w, x, n) \in Values(w)
<1>1. /\ w \in 0 .. W64 /\ w \in 1 .. W64 /\ 2 ^ w \in Nat \ {0} /\ x \in Int /\ x \in Nat
      /\ \A k \in 0 .. w - 1 : k \in 0 .. W64 /\ 2 ^ k \in Nat \ {0}
  <2>1. w \in 1 .. W64 /\ 2 ^ w \in Nat \ {0}
    BY LaneCount
  <2>2. x \in Int /\ x \in Nat
    BY <2>1 DEF Values
  <2>3. \A k \in 0 .. w - 1 : k \in 0 .. W64
    BY <2>1, Power
  <2>4. QED BY <2>1, <2>2, <2>3, Power
<1>2. \A z \in Int : Low(w, z) \in Values(w)
  BY <1>1, LowRange DEF Values
<1>3. 0 \in Values(w)
  BY <1>1 DEF Values
<1>4. CASE op = "psll"
  <2>1. CASE n \in 0 .. w - 1
    <3>1. x * 2 ^ n \in Int
      BY <1>1, <2>1
    <3>2. QED BY <1>2, <1>4, <2>1, <3>1 DEF ShiftLane
  <2>2. CASE n \notin 0 .. w - 1
    BY <1>3, <1>4, <2>2 DEF ShiftLane
  <2>3. QED BY <2>1, <2>2
<1>5. CASE op = "psrl"
  <2>1. CASE n \in 0 .. w - 1
    <3>1. x \div 2 ^ n \in 0 .. x
      BY <1>1, <2>1, DivSmaller
    <3>2. x \div 2 ^ n \in Values(w)
      BY <1>1, <3>1 DEF Values
    <3>3. QED BY <1>5, <2>1, <3>2 DEF ShiftLane
  <2>2. CASE n \notin 0 .. w - 1
    BY <1>3, <1>5, <2>2 DEF ShiftLane
  <2>3. QED BY <2>1, <2>2
<1>6. CASE op = "psra"
  <2> DEFINE c == IF n \in 0 .. w - 1 THEN n ELSE w - 1
             s == ToSigned(w, x)
  <2>1. c \in 0 .. w - 1
    BY <1>1
  <2>2. s \in Int
    BY <1>1, SignedLow
  <2>3. ShiftLane(op, w, x, n) = Low(w, s \div 2 ^ c)
    BY <1>6 DEF ShiftLane
  <2> HIDE DEF c, s
  <2>4. s \div 2 ^ c \in Int
    BY <1>1, <2>1, <2>2, ModRange
  <2>5. QED BY <1>2, <2>3, <2>4
<1>7. QED BY <1>4, <1>5, <1>6 DEF ShiftVec

(* So is what packuswb saturates to a byte.                                 *)
LEMMA SaturateTyped ==
    ASSUME NEW x \in Int
    PROVE  Saturate(x) \in Values(W8)
<1> DEFINE s == ToSigned(W16, x)
<1>1. W16 \in 1 .. W64 /\ 2 ^ W8 \in Nat \ {0}
  <2>1. W16 \in Widths /\ W8 \in Widths
    BY DEF Widths
  <2>2. QED BY <2>1, LaneCount
<1>2. s \in Int
  BY <1>1, SignedLow
<1>3. Saturate(x) = IF s < 0 THEN 0 ELSE IF s >= 2 ^ W8 THEN 2 ^ W8 - 1 ELSE s
  BY DEF Saturate
<1> HIDE DEF s
<1>4. QED BY <1>1, <1>2, <1>3 DEF Values

(* Where the lanes that are unpacked, packed and spread come from.          *)
LEMMA LaneIndices ==
    /\ \A w \in Widths : \A k \in LaneIndex(w) :
           /\ k \div 2 \in 0 .. PerWord(w) - 1
           /\ 0 + k \div 2 \in LaneIndex(w)
           /\ PerWord(w) + k \div 2 \in LaneIndex(w)
    /\ \A k \in LaneIndex(W8) : /\ k < PerWord(W8) => k \in LaneIndex(W16)
                                /\ ~(k < PerWord(W8)) => k - PerWord(W8) \in LaneIndex(W16)
    /\ 0 \in LaneIndex(W32)
<1>1. ASSUME NEW w \in Widths, NEW k \in LaneIndex(w)
      PROVE  /\ k \div 2 \in 0 .. PerWord(w) - 1
             /\ 0 + k \div 2 \in LaneIndex(w)
             /\ PerWord(w) + k \div 2 \in LaneIndex(w)
  <2> DEFINE N == PerWord(w)
  <2>1. N \in Nat \ {0} /\ LaneIndex(w) = 0 .. 2 * N - 1
    BY LaneCount
  <2> HIDE DEF N
  <2>2. k \div 2 \in 0 .. N - 1
    BY <2>1
  <2>3. 0 + k \div 2 \in LaneIndex(w) /\ N + k \div 2 \in LaneIndex(w)
    BY <2>1, <2>2
  <2>4. QED BY <2>2, <2>3 DEF N
<1>2. LaneIndex(W8) = 0 .. 15 /\ LaneIndex(W16) = 0 .. 7 /\ LaneIndex(W32) = 0 .. 3
  BY PerWords DEF LaneIndex
<1>3. QED BY <1>1, <1>2, PerWords

-----------------------------------------------------------------------------
(* What each instruction makes of its sources, lane by lane.                *)
PlainUse(op, w) == op \in {"pmuludq", "pand", "por", "pxor"} => w = W64

(* An operation lane by lane does in every lane what it does to lanes.      *)
LEMMA LaneWiseLanes ==
    ASSUME NEW op \in LaneWiseOps, NEW w \in Widths, PlainUse(op, w),
           NEW a \in Vector, NEW b \in Vector
    PROVE  /\ ExecVector(op, w, a, b) \in Vector
           /\ \A k \in LaneIndex(w) : Lane(w, ExecVector(op, w, a, b), k)
                                      = LaneWise(op, w, Lane(w, a, k), Lane(w, b, k))
<1> DEFINE L == [k \in LaneIndex(w) |-> LaneWise(op, w, Lane(w, a, k), Lane(w, b, k))]
<1>1. ExecVector(op, w, a, b) = Pack(w, L)
  BY DEF ExecVector, LaneWiseOps, ShiftVec
<1>2. \A k \in LaneIndex(w) : L[k] = LaneWise(op, w, Lane(w, a, k), Lane(w, b, k))
  OBVIOUS
<1>3. ASSUME NEW k \in LaneIndex(w)
      PROVE  L[k] \in Values(w)
  <2>1. Lane(w, a, k) \in Values(w) /\ Lane(w, b, k) \in Values(w)
    BY LaneRange
  <2>2. LaneWise(op, w, Lane(w, a, k), Lane(w, b, k)) \in Values(w)
    BY <2>1, LaneWiseTyped DEF PlainUse
  <2>3. QED BY <1>2, <2>2
<1> HIDE DEF L
<1>4. Pack(w, L) \in Vector /\ \A k \in LaneIndex(w) : Lane(w, Pack(w, L), k) = L[k]
  BY <1>3, PackLanes
<1>5. QED BY <1>1, <1>2, <1>4

(* A shift does too, by one count for all lanes.                            *)
LEMMA ShiftLanes ==
    ASSUME NEW op \in ShiftVec, NEW w \in Widths, NEW a \in Vector, NEW b, b[1] \in Int
    PROVE  /\ ExecVector(op, w, a, b) \in Vector
           /\ \A k \in LaneIndex(w) : Lane(w, ExecVector(op, w, a, b), k)
                                      = ShiftLane(op, w, Lane(w, a, k), b[1])
<1> DEFINE L == [k \in LaneIndex(w) |-> ShiftLane(op, w, Lane(w, a, k), b[1])]
<1>1. ExecVector(op, w, a, b) = Pack(w, L)
  BY DEF ExecVector, LaneWiseOps, ShiftVec
<1>2. \A k \in LaneIndex(w) : L[k] = ShiftLane(op, w, Lane(w, a, k), b[1])
  OBVIOUS
<1>3. ASSUME NEW k \in LaneIndex(w)
      PROVE  L[k] \in Values(w)
  <2>1. Lane(w, a, k) \in Values(w)
    BY LaneRange
  <2> DEFINE n == b[1]
  <2>2. n \in Int
    OBVIOUS
  <2> HIDE DEF n
  <2>3. ShiftLane(op, w, Lane(w, a, k), n) \in Values(w)
    BY <2>1, <2>2, ShiftLaneTyped
  <2>4. QED BY <1>2, <2>3 DEF n
<1> HIDE DEF L
<1>4. Pack(w, L) \in Vector /\ \A k \in LaneIndex(w) : Lane(w, Pack(w, L), k) = L[k]
  BY <1>3, PackLanes
<1>5. QED BY <1>1, <1>2, <1>4

(* An unpacking takes lanes from its operands in turn.                      *)
LEMMA UnpackLanes ==
    ASSUME NEW w \in Widths, NEW a \in Vector, NEW b \in Vector, NEW first \in {0, PerWord(w)}
    PROVE  /\ Unpack(w, a, b, first) \in Vector
           /\ \A k \in LaneIndex(w) :
                  Lane(w, Unpack(w, a, b, first), k)
                  = Lane(w, IF k % 2 = 0 THEN a ELSE b, first + k \div 2)
<1> DEFINE L == [k \in LaneIndex(w) |-> Lane(w, IF k % 2 = 0 THEN a ELSE b, first + k \div 2)]
<1>1. Unpack(w, a, b, first) = Pack(w, L)
  BY DEF Unpack
<1>2. \A k \in LaneIndex(w) : L[k] = Lane(w, IF k % 2 = 0 THEN a ELSE b, first + k \div 2)
  OBVIOUS
<1>3. ASSUME NEW k \in LaneIndex(w)
      PROVE  L[k] \in Values(w)
  <2>1. first + k \div 2 \in LaneIndex(w)
    BY LaneIndices
  <2>2. (IF k % 2 = 0 THEN a ELSE b) \in Vector
    OBVIOUS
  <2>3. Lane(w, IF k % 2 = 0 THEN a ELSE b, first + k \div 2) \in Values(w)
    BY <2>1, <2>2, LaneRange
  <2>4. QED BY <1>2, <2>3
<1> HIDE DEF L
<1>4. Pack(w, L) \in Vector /\ \A k \in LaneIndex(w) : Lane(w, Pack(w, L), k) = L[k]
  BY <1>3, PackLanes
<1>5. QED BY <1>1, <1>2, <1>4

(* packuswb saturates the words of one operand, then of the other.          *)
LEMMA PackuswbLanes ==
    ASSUME NEW w, NEW a \in Vector, NEW b \in Vector
    PROVE  /\ ExecVector("packuswb", w, a, b) \in Vector
           /\ \A k \in LaneIndex(W8) :
                  Lane(W8, ExecVector("packuswb", w, a, b), k)
                  = IF k < PerWord(W8) THEN Saturate(Lane(W16, a, k))
                                       ELSE Saturate(Lane(W16, b, k - PerWord(W8)))
<1> DEFINE L == [k \in LaneIndex(W8) |->
                    IF k < PerWord(W8) THEN Saturate(Lane(W16, a, k))
                                       ELSE Saturate(Lane(W16, b, k - PerWord(W8)))]
<1>1. ExecVector("packuswb", w, a, b) = Pack(W8, L)
  BY DEF ExecVector, LaneWiseOps, ShiftVec
<1>2. \A k \in LaneIndex(W8) :
          L[k] = IF k < PerWord(W8) THEN Saturate(Lane(W16, a, k))
                                    ELSE Saturate(Lane(W16, b, k - PerWord(W8)))
  OBVIOUS
<1>3. W8 \in Widths /\ W16 \in Widths
  BY DEF Widths
<1>4. ASSUME NEW k \in LaneIndex(W8)
      PROVE  L[k] \in Values(W8)
  <2>1. CASE k < PerWord(W8)
    <3>1. k \in LaneIndex(W16)
      BY <2>1, LaneIndices
    <3>2. Lane(W16, a, k) \in Int
      BY <1>3, <3>1, LaneRange
    <3>3. Saturate(Lane(W16, a, k)) \in Values(W8)
      BY <3>2, SaturateTyped
    <3>4. QED BY <1>2, <2>1, <3>3
  <2>2. CASE ~(k < PerWord(W8))
    <3>1. k - PerWord(W8) \in LaneIndex(W16)
      BY <2>2, LaneIndices
    <3>2. Lane(W16, b, k - PerWord(W8)) \in Int
      BY <1>3, <3>1, LaneRange
    <3>3. Saturate(Lane(W16, b, k - PerWord(W8))) \in Values(W8)
      BY <3>2, SaturateTyped
    <3>4. QED BY <1>2, <2>2, <3>3
  <2>3. QED BY <2>1, <2>2
<1> HIDE DEF L
<1>5. Pack(W8, L) \in Vector /\ \A k \in LaneIndex(W8) : Lane(W8, Pack(W8, L), k) = L[k]
  BY <1>3, <1>4, PackLanes
<1>6. QED BY <1>1, <1>2, <1>5

(* pshufd, as it is used, spreads the first lane of 32 bits.                *)
LEMMA PshufdLanes ==
    ASSUME NEW w, NEW a, NEW b \in Vector
    PROVE  /\ ExecVector("pshufd", w, a, b) \in Vector
           /\ \A k \in LaneIndex(W32) :
                  Lane(W32, ExecVector("pshufd", w, a, b), k) = Lane(W32, b, 0)
<1> DEFINE L == [k \in LaneIndex(W32) |-> Lane(W32, b, 0)]
<1>1. ExecVector("pshufd", w, a, b) = Pack(W32, L)
  BY DEF ExecVector, LaneWiseOps, ShiftVec
<1>2. \A k \in LaneIndex(W32) : L[k] = Lane(W32, b, 0)
  OBVIOUS
<1>3. W32 \in Widths
  BY DEF Widths
<1>4. \A k \in LaneIndex(W32) : L[k] \in Values(W32)
  BY <1>2, <1>3, LaneIndices, LaneRange
<1> HIDE DEF L
<1>5. Pack(W32, L) \in Vector /\ \A k \in LaneIndex(W32) : Lane(W32, Pack(W32, L), k) = L[k]
  BY <1>3, <1>4, PackLanes
<1>6. QED BY <1>1, <1>2, <1>5

(* The others move whole words.                                             *)
LEMMA WordMoves ==
    ASSUME NEW w, NEW a \in Vector, NEW b \in Vector
    PROVE  /\ ExecVector("movdqa", w, a, b) = b
           /\ ExecVector("movhlps", w, a, b) = << b[2], a[2] >>
           /\ ExecVector("movhlps", w, a, b) \in Vector
           /\ ExecVector("punpckl", w, a, b) = Unpack(w, a, b, 0)
           /\ ExecVector("punpckh", w, a, b) = Unpack(w, a, b, PerWord(w))
<1>1. ExecVector("movdqa", w, a, b) = b
  BY DEF ExecVector, LaneWiseOps, ShiftVec
<1>2. ExecVector("movhlps", w, a, b) = << b[2], a[2] >>
  BY DEF ExecVector, LaneWiseOps, ShiftVec
<1>3. << b[2], a[2] >> \in Vector
  BY VectorParts DEF Vector
<1>4. ExecVector("punpckl", w, a, b) = Unpack(w, a, b, 0)
  BY DEF ExecVector, LaneWiseOps, ShiftVec
<1>5. ExecVector("punpckh", w, a, b) = Unpack(w, a, b, PerWord(w))
  BY DEF ExecVector, LaneWiseOps, ShiftVec
<1>6. QED BY <1>1, <1>2, <1>3, <1>4, <1>5

(* An instruction makes vectors of vectors.                                 *)
LEMMA VectorTyped ==
    ASSUME NEW op \in VectorOps, NEW w \in Widths, PlainUse(op, w),
           NEW a \in Vector, NEW b, b \in Vector \/ (op \in ShiftVec /\ b[1] \in Int)
    PROVE  ExecVector(op, w, a, b) \in Vector
<1>1. CASE op \in ShiftVec
  <2>1. b[1] \in Int
    BY VectorParts
  <2>2. QED BY <1>1, <2>1, ShiftLanes
<1>2. CASE op \notin ShiftVec
  <2>1. b \in Vector
    BY <1>2
  <2>2. CASE op \in LaneWiseOps
    BY <2>1, <2>2, LaneWiseLanes
  <2>3. CASE op = "movdqa"
    BY <2>1, <2>3, WordMoves
  <2>4. CASE op = "movhlps"
    BY <2>1, <2>4, WordMoves
  <2>5. CASE op = "pshufd"
    BY <2>1, <2>5, PshufdLanes
  <2>6. CASE op = "packuswb"
    BY <2>1, <2>6, PackuswbLanes
  <2>7. CASE op = "punpckl"
    <3>1. Unpack(w, a, b, 0) \in Vector
      BY <2>1, UnpackLanes
    <3>2. QED BY <2>1, <2>7, <3>1, WordMoves
  <2>8. CASE op = "punpckh"
    <3>1. Unpack(w, a, b, PerWord(w)) \in Vector
      BY <2>1, UnpackLanes
    <3>2. QED BY <2>1, <2>8, <3>1, WordMoves
  <2>9. QED BY <1>2, <2>2, <2>3, <2>4, <2>5, <2>6, <2>7, <2>8 DEF VectorOps
<1>3. QED BY <1>1, <1>2

-----------------------------------------------------------------------------
(* The processor: its states, and the instructions that keep it in them.    *)
Machines == [x : [Regs16 -> Vector], g : [Regs16 -> Word]]

(* The instructions the emitters write, and those of enabled features.      *)
Operands == [kind : {"xmm"}, n : Regs16] \cup [kind : {"imm"}, n : Int]
GprMoves == {"toxmm", "fromxmm", "mov", "movcl"}
Forms == {i \in [op : Opcodes, w : Widths, dst : Regs16, a : Regs16, b : Operands, avx : BOOLEAN] :
              /\ i.op \in VectorOps \ ShiftVec => i.b.kind = "xmm"
              /\ i.op \in GprMoves => i.b.n \in Regs16
              /\ PlainUse(i.op, i.w)}
Fine == {i \in Forms : Needs(i) \in vec_enabled \cup NeverAsked}

(* The parts of a processor, and the types of its registers.                *)
LEMMA Parts16 ==
    /\ \A m \in Machines : /\ m = [x |-> m.x, g |-> m.g]
                           /\ \A y \in Regs16 : m.x[y] \in Vector /\ m.g[y] \in Word
    /\ \A n : n \in Regs16 => n \in Int
    /\ \A x : x \in Word => x \in Int
    /\ rcx \in Regs16 /\ 13 \in Regs16 /\ 14 \in Regs16
<1>1. \A m \in Machines : /\ m = [x |-> m.x, g |-> m.g]
                          /\ \A y \in Regs16 : m.x[y] \in Vector /\ m.g[y] \in Word
  BY DEF Machines
<1>2. \A x : x \in Word => x \in Int
  BY Power DEF Word
<1>3. (\A n : n \in Regs16 => n \in Int) /\ rcx \in Regs16 /\ 13 \in Regs16 /\ 14 \in Regs16
  BY DEF Regs16, rcx
<1>4. QED BY <1>1, <1>2, <1>3

(* What a move of a general purpose register, or a shift of one, makes.     *)
LEMMA CountRange == WCL \in 0 .. W64 /\ WCL \in 1 .. W64
BY CountRegisterAssumption

(* A word shifted right with its sign, by the count modulo its width.       *)
Halved(x, n) == Low(W64, ToSigned(W64, x) \div 2 ^ (n % W64))

(* A word shifted by sar is a word.                                         *)
LEMMA HalvedTyped ==
    ASSUME NEW x \in Word, NEW n \in Int
    PROVE  Halved(x, n) \in Word
<1> DEFINE c == n % W64
           s == ToSigned(W64, x)
<1>1. W64 \in Nat \ {0} /\ W64 \in 1 .. W64 /\ W64 \in 0 .. W64
  BY WidthAssumption
<1>2. c \in 0 .. W64
  <2>1. c \in 0 .. W64 - 1
    BY <1>1, ModRange
  <2>2. QED BY <1>1, <2>1
<1>3. s \in Int
  BY <1>1, SignedLow, Parts16
<1>4. Halved(x, n) = Low(W64, s \div 2 ^ c)
  BY DEF Halved
<1> HIDE DEF c, s
<1>5. s \div 2 ^ c \in Int
  BY <1>2, <1>3, Power, ModRange
<1>6. QED BY <1>1, <1>4, <1>5, LowRange

(* What the instructions do to a machine.                                   *)
LEMMA VectorStep ==
    ASSUME NEW m \in Machines, NEW i \in Forms, i.op \in VectorOps
    PROVE  /\ ExecOne(m, i) = [m EXCEPT !.x[i.dst] =
                                 ExecVector(i.op, i.w, m.x[i.a], Source(m, i.b))]
           /\ ExecVector(i.op, i.w, m.x[i.a], Source(m, i.b)) \in Vector
           /\ ExecOne(m, i) \in Machines
<1> DEFINE b == Source(m, i.b)
           z == ExecVector(i.op, i.w, m.x[i.a], b)
<1>1. ExecOne(m, i) = [m EXCEPT !.x[i.dst] = z]
  BY DEF ExecOne, VectorOps, LaneWiseOps, ShiftVec
<1>2. i.w \in Widths /\ i.dst \in Regs16 /\ i.a \in Regs16 /\ PlainUse(i.op, i.w) /\ i.b \in Operands
  BY DEF Forms
<1>3. b \in Vector \/ (i.op \in ShiftVec /\ b[1] \in Int)
  <2>1. CASE i.b.kind = "xmm"
    <3>1. i.b.n \in Regs16 /\ b = m.x[i.b.n]
      BY <1>2, <2>1 DEF Operands, Source
    <3>2. QED BY <3>1, Parts16
  <2>2. CASE i.b.kind # "xmm"
    <3>1. i.op \in ShiftVec
      BY <2>2 DEF Forms
    <3>2. b = << i.b.n, 0 >> /\ i.b.n \in Int
      BY <1>2, <2>2, Parts16 DEF Source, Operands
    <3>3. b[1] \in Int
      BY <3>2
    <3>4. QED BY <3>1, <3>3
  <2>3. QED BY <2>1, <2>2
<1>4. m.x[i.a] \in Vector
  BY <1>2, Parts16
<1> HIDE DEF b
<1>5. z \in Vector
  BY <1>2, <1>3, <1>4, VectorTyped
<1> HIDE DEF z
<1>6. [m EXCEPT !.x[i.dst] = z] \in Machines
  BY <1>2, <1>5 DEF Machines
<1>7. QED BY <1>1, <1>5, <1>6 DEF z, b

(* What the moves and the shift of a scalar register make of it.            *)
ScalarEffect(m, i) ==
    /\ i.op = "toxmm" =>
           /\ ExecOne(m, i) = [m EXCEPT !.x[i.dst] = << Low(i.w, m.g[i.b.n]), 0 >>]
           /\ << Low(i.w, m.g[i.b.n]), 0 >> \in Vector
    /\ i.op = "fromxmm" => ExecOne(m, i) = [m EXCEPT !.g[i.dst] = m.x[i.b.n][1]]
                           /\ m.x[i.b.n][1] \in Word
    /\ i.op = "movimm" => ExecOne(m, i) = [m EXCEPT !.g[i.dst] = Low(i.w, i.b.n)]
                          /\ Low(i.w, i.b.n) \in Word
    /\ i.op = "mov" => ExecOne(m, i) = [m EXCEPT !.g[i.dst] = m.g[i.b.n]]
                       /\ m.g[i.b.n] \in Word
    /\ i.op = "movcl" =>
           LET c == m.g[rcx] - Low(WCL, m.g[rcx]) + Low(WCL, m.g[i.b.n])
           IN  ExecOne(m, i) = [m EXCEPT !.g[rcx] = c] /\ c \in Word
    /\ i.op = "sar" =>
           LET s == Halved(m.g[i.dst], IF i.b.kind = "imm" THEN i.b.n ELSE Low(WCL, m.g[rcx]))
           IN  ExecOne(m, i) = [m EXCEPT !.g[i.dst] = s] /\ s \in Word

(* What an instruction on the scalar registers does.                        *)
LEMMA ScalarStep ==
    ASSUME NEW m \in Machines, NEW i \in Forms
    PROVE  ScalarEffect(m, i)
<1>1. /\ i.op \in Opcodes /\ i.w \in Widths /\ i.dst \in Regs16 /\ i.b \in Operands
      /\ i.w \in 0 .. W64 /\ i.b.n \in Int /\ (i.op \in GprMoves => i.b.n \in Regs16)
  <2>1. i.op \in Opcodes /\ i.w \in Widths /\ i.dst \in Regs16 /\ i.b \in Operands /\ (i.op \in GprMoves => i.b.n \in Regs16)
    BY DEF Forms
  <2>2. i.w \in 0 .. W64
    BY <2>1, LaneCount, Power
  <2>3. i.b.n \in Int
    BY <2>1, Parts16 DEF Operands
  <2>4. QED BY <2>1, <2>2, <2>3
<1>2. CASE i.op = "toxmm"
  <2>1. ExecOne(m, i) = [m EXCEPT !.x[i.dst] = << Low(i.w, m.g[i.b.n]), 0 >>]
    BY <1>2 DEF ExecOne, VectorOps, LaneWiseOps, ShiftVec
  <2>2. m.g[i.b.n] \in Int
    BY <1>1, <1>2, Parts16 DEF GprMoves
  <2>3. Low(i.w, m.g[i.b.n]) \in Word /\ 0 \in Word
    BY <1>1, <2>2, LowRange, Power DEF Word
  <2>4. << Low(i.w, m.g[i.b.n]), 0 >> \in Vector
    BY <2>3 DEF Vector
  <2>5. QED BY <1>2, <2>1, <2>4 DEF ScalarEffect
<1>3. CASE i.op = "fromxmm"
  <2>1. ExecOne(m, i) = [m EXCEPT !.g[i.dst] = m.x[i.b.n][1]]
    BY <1>3 DEF ExecOne, VectorOps, LaneWiseOps, ShiftVec
  <2>2. m.x[i.b.n] \in Vector
    BY <1>1, <1>3, Parts16 DEF GprMoves
  <2>3. QED BY <1>3, <2>1, <2>2, VectorParts DEF ScalarEffect
<1>4. CASE i.op = "movimm"
  <2>1. ExecOne(m, i) = [m EXCEPT !.g[i.dst] = Low(i.w, i.b.n)]
    BY <1>4 DEF ExecOne, VectorOps, LaneWiseOps, ShiftVec
  <2>2. Low(i.w, i.b.n) \in Word
    BY <1>1, LowRange
  <2>3. QED BY <1>4, <2>1, <2>2 DEF ScalarEffect
<1>5. CASE i.op = "mov"
  <2>1. ExecOne(m, i) = [m EXCEPT !.g[i.dst] = m.g[i.b.n]]
    BY <1>5 DEF ExecOne, VectorOps, LaneWiseOps, ShiftVec
  <2>2. m.g[i.b.n] \in Word
    BY <1>1, <1>5, Parts16 DEF GprMoves
  <2>3. QED BY <1>5, <2>1, <2>2 DEF ScalarEffect
<1>6. CASE i.op = "movcl"
  <2> DEFINE c == m.g[rcx] - Low(WCL, m.g[rcx]) + Low(WCL, m.g[i.b.n])
  <2>1. ExecOne(m, i) = [m EXCEPT !.g[rcx] = c]
    <3>1. ExecOne(m, i) = [m EXCEPT !.g[rcx] = @ - Low(WCL, @) + Low(WCL, m.g[i.b.n])]
      BY <1>6 DEF ExecOne, VectorOps, LaneWiseOps, ShiftVec
    <3>2. QED BY <3>1
  <2>2. m.g[rcx] \in Word /\ m.g[i.b.n] \in Int
    BY <1>1, <1>6, Parts16 DEF GprMoves
  <2>3. c \in Word
    BY <2>2, CountRange, LowReplaced
  <2>4. QED BY <1>6, <2>1, <2>3 DEF ScalarEffect
<1>7. CASE i.op = "sar"
  <2> DEFINE n == IF i.b.kind = "imm" THEN i.b.n ELSE Low(WCL, m.g[rcx])
             s == Halved(m.g[i.dst], n)
  <2>1. ExecOne(m, i) = [m EXCEPT !.g[i.dst] = s]
    <3>1. ExecOne(m, i) = [m EXCEPT !.g[i.dst] = Low(W64, ToSigned(W64, @) \div 2 ^ (n % W64))]
      BY <1>7 DEF ExecOne, VectorOps, LaneWiseOps, ShiftVec
    <3>2. QED BY <3>1 DEF Halved
  <2>2. m.g[i.dst] \in Word /\ m.g[rcx] \in Int
    BY <1>1, Parts16
  <2>3. n \in Int
    BY <1>1, <2>2, CountRange, LowRange
  <2> HIDE DEF n
  <2>4. s \in Word
    BY <2>2, <2>3, HalvedTyped
  <2>5. QED BY <1>7, <2>1, <2>4 DEF n, ScalarEffect
<1>8. QED BY <1>2, <1>3, <1>4, <1>5, <1>6, <1>7 DEF ScalarEffect

(* Code made of them keeps it a machine.                                    *)
LEMMA StepTyped ==
    ASSUME NEW m \in Machines, NEW i \in Forms
    PROVE  ExecOne(m, i) \in Machines
<1>0. ScalarEffect(m, i)
  BY ScalarStep
<1>1. i.op \in Opcodes /\ i.dst \in Regs16 /\ rcx \in Regs16
  BY Parts16 DEF Forms
<1>2. ASSUME NEW y \in Regs16, NEW v1 \in Word
      PROVE  [m EXCEPT !.g[y] = v1] \in Machines
  BY DEF Machines
<1>3. ASSUME NEW y \in Regs16, NEW v1 \in Vector
      PROVE  [m EXCEPT !.x[y] = v1] \in Machines
  BY DEF Machines
<1>4. CASE i.op \in VectorOps
  BY <1>4, VectorStep
<1>5. CASE i.op = "toxmm"
  BY <1>1, <1>3, <1>5, <1>0 DEF ScalarEffect
<1>6. CASE i.op = "fromxmm"
  BY <1>1, <1>2, <1>6, <1>0 DEF ScalarEffect
<1>7. CASE i.op = "movimm"
  BY <1>1, <1>2, <1>7, <1>0 DEF ScalarEffect
<1>8. CASE i.op = "mov"
  BY <1>1, <1>2, <1>8, <1>0 DEF ScalarEffect
<1>9. CASE i.op = "movcl"
  BY <1>1, <1>2, <1>9, <1>0 DEF ScalarEffect
<1>10. CASE i.op = "sar"
  BY <1>1, <1>2, <1>10, <1>0 DEF ScalarEffect
<1>11. QED BY <1>1, <1>4, <1>5, <1>6, <1>7, <1>8, <1>9, <1>10 DEF Opcodes

-----------------------------------------------------------------------------
(* Exec is defined by recursion: its unfolding.                             *)
Trace(t, m, s) ==
    t = [k \in 0 .. Len(s) |-> IF k = 0 THEN m ELSE ExecOne(t[k - 1], s[k])]

(* The states between the instructions of a piece of code exist.            *)
LEMMA TraceExists ==
    ASSUME NEW m, NEW s, Len(s) \in Nat
    PROVE  \E t : Trace(t, m, s)
<1> DEFINE N == Len(s)
           Until(t, j) == /\ t = [k \in 0 .. N |-> t[k]]
                          /\ t[0] = m
                          /\ \A k \in 1 .. j : t[k] = ExecOne(t[k - 1], s[k])
           U == {j \in 0 .. N : \E t : Until(t, j)}
<1>1. 0 \in U
  <2> DEFINE t == [k \in 0 .. N |-> m]
  <2>1. Until(t, 0) /\ 0 \in 0 .. N
    OBVIOUS
  <2> HIDE DEF t, Until
  <2>2. QED BY <2>1
<1>2. ASSUME NEW j \in 1 .. N, j - 1 \in U
      PROVE  j \in U
  <2>1. PICK t : Until(t, j - 1)
    BY <1>2
  <2> DEFINE h == [k \in 0 .. N |-> IF k = j THEN ExecOne(t[j - 1], s[j]) ELSE t[k]]
  <2>2. h = [k \in 0 .. N |-> h[k]] /\ h[0] = m
    BY <2>1
  <2>3. ASSUME NEW k \in 1 .. j
        PROVE  h[k] = ExecOne(h[k - 1], s[k])
    <3>1. h[k - 1] = t[k - 1]
      OBVIOUS
    <3>2. CASE k = j
      BY <3>1, <3>2
    <3>3. CASE k # j
      <4>1. h[k] = t[k] /\ k \in 1 .. j - 1
        BY <3>3
      <4>2. QED BY <2>1, <3>1, <4>1
    <3>4. QED BY <3>2, <3>3
  <2> HIDE DEF h
  <2>4. \A k \in 1 .. j : h[k] = ExecOne(h[k - 1], s[k])
    BY <2>3
  <2>5. Until(h, j)
    BY <2>2, <2>4
  <2>6. j \in 0 .. N
    OBVIOUS
  <2> HIDE DEF Until
  <2>7. QED BY <2>5, <2>6
<1>3. N \in U
  <2> HIDE DEF U
  <2>1. 0 .. N \subseteq U
    BY <1>1, <1>2, UpTo
  <2>2. QED BY <2>1
<1>4. PICK t : Until(t, N)
  BY <1>3
<1>5. Trace(t, m, s)
  <2>1. \A k \in 0 .. N : t[k] = IF k = 0 THEN m ELSE ExecOne(t[k - 1], s[k])
    <3>1. \A k \in 0 .. N : k = 0 \/ k \in 1 .. N
      OBVIOUS
    <3>2. QED BY <1>4, <3>1
  <2>2. QED BY <1>4, <2>1 DEF Trace
<1>6. QED BY <1>5

(* The states t that the processor m goes through in code s.                *)
Runs(t, m, s) ==
    /\ t[0] = m
    /\ \A k \in 1 .. Len(s) : t[k] = ExecOne(t[k - 1], s[k])
    /\ Exec(m, s) = t[Len(s)]

(* Exec yields the last of them.                                            *)
LEMMA ExecTrace ==
    ASSUME NEW m, NEW s, Len(s) \in Nat
    PROVE  \E t : Runs(t, m, s)
<1> DEFINE Rec(t) == t = [k \in 0 .. Len(s) |-> IF k = 0 THEN m ELSE ExecOne(t[k - 1], s[k])]
           run == CHOOSE t : Rec(t)
<1>1. Exec(m, s) = run[Len(s)]
  BY Zenon DEF Exec
<1>2. \E t : Rec(t)
  <2>1. PICK t : Trace(t, m, s)
    BY TraceExists
  <2>2. Rec(t)
    BY <2>1 DEF Trace
  <2> HIDE DEF Rec
  <2>3. QED BY <2>2
<1> HIDE DEF Rec
<1>3. Rec(run)
  BY <1>2
<1> HIDE DEF run
<1>4. run[0] = m /\ \A k \in 1 .. Len(s) : run[k] = ExecOne(run[k - 1], s[k])
  BY <1>3 DEF Rec
<1>5. Runs(run, m, s)
  BY <1>1, <1>4 DEF Runs
<1>6. QED BY <1>5

(* Code that is empty, of one instruction, or put together of two pieces.   *)
LEMMA ExecEmpty ==
    ASSUME NEW m
    PROVE  Exec(m, << >>) = m
<1>1. Len(<< >>) = 0
  OBVIOUS
<1>2. PICK t : Runs(t, m, << >>)
  BY <1>1, ExecTrace
<1>3. QED BY <1>1, <1>2 DEF Runs

(* One instruction is executed by ExecOne.                                  *)
LEMMA ExecSingle ==
    ASSUME NEW m, NEW i
    PROVE  Exec(m, <<i>>) = ExecOne(m, i)
<1> DEFINE s == <<i>>
<1>1. Len(s) = 1 /\ s[1] = i
  OBVIOUS
<1> HIDE DEF s
<1>2. PICK t : Runs(t, m, s)
  <2>1. Len(s) \in Nat
    BY <1>1
  <2>2. QED BY <2>1, ExecTrace
<1>3. t[1] = ExecOne(t[0], s[1])
  <2>1. 1 \in 1 .. Len(s) /\ 1 - 1 = 0
    BY <1>1
  <2>2. t[1] = ExecOne(t[1 - 1], s[1])
    BY <1>2, <2>1 DEF Runs
  <2>3. QED BY <2>1, <2>2
<1>4. QED BY <1>1, <1>2, <1>3 DEF s, Runs

(* Code put together of two pieces runs the one and then the other.         *)
LEMMA ExecConcat ==
    ASSUME NEW m, NEW S, NEW s \in Seq(S), NEW u \in Seq(S)
    PROVE  Exec(m, s \o u) = Exec(Exec(m, s), u)
<1> DEFINE a == Len(s)
           b == Len(u)
           c == s \o u
<1>1. /\ a \in Nat /\ b \in Nat /\ Len(c) = a + b
      /\ \A k \in 1 .. a : c[k] = s[k]
      /\ \A k \in 1 .. b : c[a + k] = u[k]
  OBVIOUS
<1> HIDE DEF a, b, c
<1>2. PICK t : Runs(t, m, s)
  BY <1>1, ExecTrace DEF a
<1>3. PICK h : Runs(h, Exec(m, s), u)
  BY <1>1, ExecTrace DEF b
<1>4. PICK g : Runs(g, m, c)
  <2>1. Len(c) \in Nat
    BY <1>1
  <2>2. QED BY <2>1, ExecTrace
<1>5. \A k \in 0 .. a : g[k] = t[k]
  <2> DEFINE U == {k \in 0 .. a : g[k] = t[k]}
  <2>1. 0 \in U
    BY <1>1, <1>2, <1>4 DEF Runs
  <2>2. ASSUME NEW k \in 1 .. a, k - 1 \in U
        PROVE  k \in U
    <3>1. g[k] = ExecOne(g[k - 1], c[k]) /\ t[k] = ExecOne(t[k - 1], s[k])
      BY <1>1, <1>2, <1>4 DEF Runs, a
    <3>2. QED BY <1>1, <2>2, <3>1
  <2>3. 0 .. a \subseteq U
    <3> HIDE DEF U
    <3>1. QED BY <1>1, <2>1, <2>2, UpTo
  <2>4. QED BY <2>3
<1>6. \A k \in 0 .. b : g[a + k] = h[k]
  <2> DEFINE U == {k \in 0 .. b : g[a + k] = h[k]}
  <2>1. 0 \in U
    <3>1. g[a] = t[a] /\ a + 0 = a /\ 0 \in 0 .. b
      BY <1>1, <1>5
    <3>2. QED BY <1>2, <1>3, <3>1 DEF Runs, a
  <2>2. ASSUME NEW k \in 1 .. b, k - 1 \in U
        PROVE  k \in U
    <3>1. a + k \in 1 .. a + b /\ (a + k) - 1 = a + (k - 1)
      BY <1>1
    <3>2. g[a + k] = ExecOne(g[(a + k) - 1], c[a + k])
      BY <1>1, <1>4, <3>1 DEF Runs
    <3>3. h[k] = ExecOne(h[k - 1], u[k]) /\ c[a + k] = u[k]
      BY <1>1, <1>3 DEF Runs, b
    <3>4. QED BY <2>2, <3>1, <3>2, <3>3
  <2>3. 0 .. b \subseteq U
    <3> HIDE DEF U
    <3>1. QED BY <1>1, <2>1, <2>2, UpTo
  <2>4. QED BY <2>3
<1>7. g[a + b] = h[b]
  BY <1>1, <1>6
<1>8. QED BY <1>1, <1>3, <1>4, <1>7 DEF Runs, c, b

-----------------------------------------------------------------------------
(* Code of instructions that are all enabled, and the machine after it.     *)
After(m, s, n) == m \in Machines /\ n \in Machines /\ s \in Seq(Fine) /\ Exec(m, s) = n

(* Code after code: no code leaves the processor alone,                     *)
LEMMA AfterEmpty == \A m \in Machines : After(m, << >>, m)
<1> SUFFICES ASSUME NEW m \in Machines
             PROVE  After(m, << >>, m)
  OBVIOUS
<1>1. << >> \in Seq(Fine)
  OBVIOUS
<1>2. QED BY <1>1, ExecEmpty DEF After

(* one instruction does one step,                                           *)
LEMMA AfterOne ==
    ASSUME NEW m \in Machines, NEW i \in Fine
    PROVE  After(m, << i >>, ExecOne(m, i))
<1>1. << i >> \in Seq(Fine)
  OBVIOUS
<1>2. i \in Forms
  BY DEF Fine
<1>3. ExecOne(m, i) \in Machines
  BY <1>2, StepTyped
<1>4. QED BY <1>1, <1>3, ExecSingle DEF After

(* and what follows starts where the first part ended.                      *)
LEMMA AfterConcat ==
    ASSUME NEW m, NEW n, NEW o, NEW s, NEW t, After(m, s, n), After(n, t, o)
    PROVE  After(m, s \o t, o)
<1>1. s \in Seq(Fine) /\ t \in Seq(Fine) /\ s \o t \in Seq(Fine)
  BY DEF After
<1>2. Exec(m, s \o t) = Exec(Exec(m, s), t)
  BY <1>1, ExecConcat
<1>3. QED BY <1>1, <1>2 DEF After

(* The code s sets the vector register d, or the general purpose register d,*)
(* to z and nothing else.                                                   *)
Sets(m, s, n, d, z) ==
    /\ After(m, s, n) /\ n.g = m.g /\ n.x[d] = z
    /\ \A y \in Regs16 \ {d} : n.x[y] = m.x[y]
Loads(m, s, n, d, z) ==
    /\ After(m, s, n) /\ n.x = m.x /\ n.g[d] = z
    /\ \A y \in Regs16 \ {d} : n.g[y] = m.g[y]

(* The instructions the emitters make of a feature they have asked for.     *)
LEMMA Enabled2 ==
    ASSUME use_sse2, NEW i \in Forms, i.avx => use_avx
    PROVE  i \in Fine
<1>1. i.avx \in BOOLEAN
  BY DEF Forms
<1>2. "SSE2" \in vec_enabled
  BY DEF use_sse2, Features!use_sse2
<1>3. CASE i.avx
  <2>1. Needs(i) = "AVX"
    BY <1>3 DEF Needs
  <2>2. "AVX" \in vec_enabled
    BY <1>3 DEF use_avx, Features!use_avx
  <2>3. QED BY <2>1, <2>2 DEF Fine
<1>4. CASE ~i.avx
  <2>1. Needs(i) \in {"SSE4_1", "SSE4_2", "SSE2"}
    <3>1. CASE i.op = "pmull"
      BY <1>4, <3>1 DEF Needs
    <3>2. CASE i.op = "pcmpeq"
      BY <1>4, <3>2 DEF Needs
    <3>3. CASE i.op = "pcmpgt"
      BY <1>4, <3>3 DEF Needs
    <3>4. CASE i.op \notin {"pmull", "pcmpeq", "pcmpgt"}
      BY <1>4, <3>4 DEF Needs
    <3>5. QED BY <3>1, <3>2, <3>3, <3>4
  <2>2. QED BY <1>2, <2>1 DEF Fine, NeverAsked
<1>5. QED BY <1>1, <1>3, <1>4

(* A second operand: a register, or the immediate count of a shift.         *)
Sourced(op, b) == b \in Operands /\ (op \notin ShiftVec => b.kind = "xmm")

(* The operands that emitters write.                                        *)
LEMMA Operand ==
    /\ \A op : \A y \in Regs16 : Sourced(op, X(y))
    /\ \A op \in ShiftVec : \A c \in Int : Sourced(op, I(c))
    /\ \A m, y : Source(m, X(y)) = m.x[y]
    /\ \A m, c : Source(m, I(c)) = << c, 0 >>
<1>1. ASSUME NEW y
      PROVE  X(y) = [kind |-> "xmm", n |-> y] /\ I(y) = [kind |-> "imm", n |-> y]
  BY DEF X, I
<1>2. \A y : X(y).kind = "xmm" /\ X(y).n = y /\ I(y).kind = "imm" /\ I(y).n = y
  BY DEF X, I
<1>3. \A op : \A y \in Regs16 : Sourced(op, X(y))
  BY DEF Sourced, Operands, X
<1>4. \A op \in ShiftVec : \A c \in Int : Sourced(op, I(c))
  BY DEF Sourced, Operands, I
<1>5. \A m, y : Source(m, X(y)) = m.x[y]
  BY <1>2 DEF Source
<1>6. \A m, c : Source(m, I(c)) = << c, 0 >>
  BY <1>2 DEF Source
<1>7. QED BY <1>3, <1>4, <1>5, <1>6

(* A vector instruction computes its operation into its destination.        *)
LEMMA VStep ==
    ASSUME use_sse2, NEW m \in Machines, NEW op \in VectorOps, NEW w \in Widths, PlainUse(op, w),
           NEW d \in Regs16, NEW a \in Regs16, NEW b, Sourced(op, b),
           NEW avx \in BOOLEAN, avx => use_avx
    PROVE  \E n : Sets(m, << VInstr(op, w, d, a, b, avx) >>, n, d,
                       ExecVector(op, w, m.x[a], Source(m, b)))
<1> DEFINE i == VInstr(op, w, d, a, b, avx)
           z == ExecVector(op, w, m.x[a], Source(m, b))
           n == ExecOne(m, i)
<1>1. i.op = op /\ i.w = w /\ i.dst = d /\ i.a = a /\ i.b = b /\ i.avx = avx
  BY DEF VInstr
<1>2. op \in Opcodes /\ op \notin GprMoves
  BY DEF Opcodes, GprMoves, VectorOps, LaneWiseOps, ShiftVec
<1>3. i \in Forms
  BY <1>2 DEF VInstr, Forms, Sourced
<1>4. i \in Fine
  <2> HIDE DEF i
  <2>1. QED BY <1>1, <1>3, Enabled2
<1> HIDE DEF i
<1>5. n = [m EXCEPT !.x[d] = z] /\ z \in Vector
  BY <1>1, <1>3, VectorStep
<1>6. After(m, << i >>, n)
  BY <1>4, AfterOne
<1> HIDE DEF n, z
<1>7. n.g = m.g /\ n.x[d] = z /\ \A y \in Regs16 \ {d} : n.x[y] = m.x[y]
  BY <1>5 DEF Machines
<1>8. Sets(m, << i >>, n, d, z)
  BY <1>6, <1>7 DEF Sets
<1>9. QED BY <1>8 DEF i, z

(* The two forms of an instruction, on registers and with an immediate.     *)
LEMMA LegacyStep ==
    ASSUME use_sse2, NEW m \in Machines, NEW op \in VectorOps, NEW w \in Widths, PlainUse(op, w),
           NEW d \in Regs16, NEW s \in Regs16
    PROVE  \E n : Sets(m, Legacy(op, w, d, X(s)), n, d, ExecVector(op, w, m.x[d], m.x[s]))
<1>1. Sourced(op, X(s)) /\ Source(m, X(s)) = m.x[s]
  BY Operand
<1>2. \E n : Sets(m, << VInstr(op, w, d, d, X(s), FALSE) >>, n, d,
                  ExecVector(op, w, m.x[d], Source(m, X(s))))
  BY <1>1, VStep
<1>3. QED BY <1>1, <1>2 DEF Legacy

(* So do the forms of a shift by two operands,                              *)
LEMMA LegacyShift ==
    ASSUME use_sse2, NEW m \in Machines, NEW op \in ShiftVec, NEW w \in Widths,
           NEW d \in Regs16, NEW b, Sourced(op, b)
    PROVE  \E n : Sets(m, Legacy(op, w, d, b), n, d, ExecVector(op, w, m.x[d], Source(m, b)))
<1>1. op \in VectorOps /\ PlainUse(op, w)
  BY DEF VectorOps, ShiftVec, PlainUse
<1>2. \E n : Sets(m, << VInstr(op, w, d, d, b, FALSE) >>, n, d,
                  ExecVector(op, w, m.x[d], Source(m, b)))
  BY <1>1, VStep
<1>3. QED BY <1>2 DEF Legacy

(* of AVX instructions,                                                     *)
LEMMA AvxStep ==
    ASSUME use_sse2, use_avx, NEW m \in Machines, NEW op \in VectorOps, NEW w \in Widths,
           PlainUse(op, w), NEW d \in Regs16, NEW a \in Regs16, NEW s \in Regs16
    PROVE  \E n : Sets(m, Avx(op, w, d, a, X(s)), n, d, ExecVector(op, w, m.x[a], m.x[s]))
<1>1. Sourced(op, X(s)) /\ Source(m, X(s)) = m.x[s]
  BY Operand
<1>2. \E n : Sets(m, << VInstr(op, w, d, a, X(s), TRUE) >>, n, d,
                  ExecVector(op, w, m.x[a], Source(m, X(s))))
  BY <1>1, VStep
<1>3. QED BY <1>1, <1>2 DEF Avx

(* and of AVX shifts.                                                       *)
LEMMA AvxShift ==
    ASSUME use_sse2, use_avx, NEW m \in Machines, NEW op \in ShiftVec, NEW w \in Widths,
           NEW d \in Regs16, NEW a \in Regs16, NEW b, Sourced(op, b)
    PROVE  \E n : Sets(m, Avx(op, w, d, a, b), n, d, ExecVector(op, w, m.x[a], Source(m, b)))
<1>1. op \in VectorOps /\ PlainUse(op, w)
  BY DEF VectorOps, ShiftVec, PlainUse
<1>2. \E n : Sets(m, << VInstr(op, w, d, a, b, TRUE) >>, n, d,
                  ExecVector(op, w, m.x[a], Source(m, b)))
  BY <1>1, VStep
<1>3. QED BY <1>2 DEF Avx

(* Moves between the two register files.                                    *)
LEMMA GStep ==
    ASSUME use_sse2, NEW m \in Machines, NEW op \in Opcodes \ VectorOps, NEW w \in Widths,
           NEW d \in Regs16, NEW b \in Operands, op \in GprMoves => b.n \in Regs16
    PROVE  LET i == VInstr(op, w, d, d, b, FALSE)
           IN  After(m, << i >>, ExecOne(m, i)) /\ ScalarEffect(m, i)
<1> DEFINE i == VInstr(op, w, d, d, b, FALSE)
<1>1. i.op = op /\ i.w = w /\ i.dst = d /\ i.a = d /\ i.b = b /\ i.avx = FALSE
  BY DEF VInstr
<1>2. PlainUse(op, w)
  BY DEF PlainUse, VectorOps, LaneWiseOps
<1>3. i \in Forms
  BY <1>2 DEF VInstr, Forms
<1>4. i \in Fine
  <2> HIDE DEF i
  <2>1. QED BY <1>1, <1>3, Enabled2
<1>5. QED BY <1>3, <1>4, AfterOne, ScalarStep

-----------------------------------------------------------------------------
(* The temporaries.                                                         *)
LEMMA Temporaries ==
    /\ T0 = 14 /\ T1 = 13
    /\ \A x \in SUBSET X_FREE : /\ x \subseteq Regs16
                                /\ x # {} => alloc_(x) \in x /\ alloc_(x) \in Regs16
                                /\ x \ {alloc_(x)} \in SUBSET X_FREE
    /\ X_FREE # {} /\ X_FREE \ {alloc_(X_FREE)} # {}
    /\ (X_FREE \ {alloc_(X_FREE)}) \ {alloc_(X_FREE \ {alloc_(X_FREE)})} # {}
<1>1. T0 = 14
  BY DEF T0, alloc_, R_FREE
<1>2. R_FREE \ {14} = {13, 11, 10}
  BY DEF R_FREE
<1>3. alloc_({13, 11, 10}) = 13
  BY DEF alloc_
<1>4. T1 = 13
  BY <1>1, <1>2, <1>3 DEF T1
<1>5. ASSUME NEW x \in SUBSET X_FREE
      PROVE  /\ x \subseteq Regs16
             /\ x # {} => alloc_(x) \in x /\ alloc_(x) \in Regs16
             /\ x \ {alloc_(x)} \in SUBSET X_FREE
  <2>1. x \subseteq Regs16
    BY DEF X_FREE, Regs16
  <2>2. ASSUME x # {}
        PROVE  alloc_(x) \in x
    <3>1. \E r0 \in x : \A s \in x : s <= r0
      <4>1. CASE 13 \in x
        BY <4>1 DEF X_FREE
      <4>2. CASE 13 \notin x /\ 12 \in x
        BY <4>2 DEF X_FREE
      <4>3. CASE 13 \notin x /\ 12 \notin x
        <5>1. x = {11}
          BY <2>2, <4>3 DEF X_FREE
        <5>2. QED BY <5>1
      <4>4. QED BY <4>1, <4>2, <4>3
    <3>2. alloc_(x) = CHOOSE r0 \in x : \A s \in x : s <= r0
      BY <2>2 DEF alloc_
    <3>3. QED BY <3>1, <3>2
  <2>3. QED BY <2>1, <2>2
<1>6. alloc_(X_FREE) = 13 /\ X_FREE \ {13} = {12, 11}
  BY DEF alloc_, X_FREE
<1>7. alloc_({12, 11}) = 12
  BY DEF alloc_
<1>8. X_FREE # {} /\ {12, 11} # {} /\ {12, 11} \ {12} # {}
  BY DEF X_FREE
<1>9. QED BY <1>1, <1>4, <1>5, <1>6, <1>7, <1>8

(* The moves between the two register files, and the shift of a general     *)
(* purpose register.                                                        *)
LEMMA ImmediateStep ==
    ASSUME use_sse2, NEW m \in Machines, NEW w \in Widths, NEW d \in Regs16, NEW c \in Int
    PROVE  \E n : Loads(m, << VInstr("movimm", w, d, d, I(c), FALSE) >>, n, d, Low(w, c))
<1> DEFINE i == VInstr("movimm", w, d, d, I(c), FALSE)
           n == ExecOne(m, i)
<1>1. I(c) \in Operands /\ I(c).n = c /\ "movimm" \notin GprMoves /\ "movimm" \in Opcodes \ VectorOps
  BY DEF I, Operands, GprMoves, Opcodes, VectorOps, LaneWiseOps, ShiftVec
<1>2. After(m, << i >>, n) /\ ScalarEffect(m, i)
  BY <1>1, GStep
<1>3. i.op = "movimm" /\ i.w = w /\ i.dst = d /\ i.b = I(c)
  BY DEF VInstr
<1>4. n = [m EXCEPT !.g[d] = Low(w, c)] /\ Low(w, c) \in Word
  BY <1>1, <1>2, <1>3 DEF ScalarEffect
<1> HIDE DEF n, i
<1>5. n.x = m.x /\ n.g[d] = Low(w, c) /\ \A y \in Regs16 \ {d} : n.g[y] = m.g[y]
  BY <1>4 DEF Machines
<1>6. Loads(m, << i >>, n, d, Low(w, c))
  BY <1>2, <1>5 DEF Loads
<1>7. QED BY <1>6 DEF i

(* movd and movq into a vector register,                                    *)
LEMMA ToXmmStep ==
    ASSUME use_sse2, NEW m \in Machines, NEW w \in Widths, NEW d \in Regs16, NEW y \in Regs16
    PROVE  \E n : Sets(m, << VInstr("toxmm", w, d, d, I(y), FALSE) >>, n, d, << Low(w, m.g[y]), 0 >>)
<1> DEFINE i == VInstr("toxmm", w, d, d, I(y), FALSE)
           n == ExecOne(m, i)
           z == << Low(w, m.g[y]), 0 >>
<1>1. I(y) \in Operands /\ I(y).n = y /\ "toxmm" \in Opcodes \ VectorOps
  BY Parts16 DEF I, Operands, Opcodes, VectorOps, LaneWiseOps, ShiftVec
<1>2. After(m, << i >>, n) /\ ScalarEffect(m, i)
  BY <1>1, GStep
<1>3. i.op = "toxmm" /\ i.w = w /\ i.dst = d /\ i.b = I(y)
  BY DEF VInstr
<1>4. n = [m EXCEPT !.x[d] = z] /\ z \in Vector
  BY <1>1, <1>2, <1>3 DEF ScalarEffect
<1> HIDE DEF n, i, z
<1>5. n.g = m.g /\ n.x[d] = z /\ \A y1 \in Regs16 \ {d} : n.x[y1] = m.x[y1]
  BY <1>4 DEF Machines
<1>6. Sets(m, << i >>, n, d, z)
  BY <1>2, <1>5 DEF Sets
<1>7. QED BY <1>6 DEF i, z

(* movq out of one,                                                         *)
LEMMA FromXmmStep ==
    ASSUME use_sse2, NEW m \in Machines, NEW d \in Regs16, NEW y \in Regs16
    PROVE  \E n : Loads(m, << VInstr("fromxmm", W64, d, d, X(y), FALSE) >>, n, d, m.x[y][1])
<1> DEFINE i == VInstr("fromxmm", W64, d, d, X(y), FALSE)
           n == ExecOne(m, i)
           z == m.x[y][1]
<1>1. X(y) \in Operands /\ X(y).n = y /\ "fromxmm" \in Opcodes \ VectorOps /\ W64 \in Widths
  BY DEF X, Operands, Opcodes, VectorOps, LaneWiseOps, ShiftVec, Widths
<1>2. After(m, << i >>, n) /\ ScalarEffect(m, i)
  BY <1>1, GStep
<1>3. i.op = "fromxmm" /\ i.dst = d /\ i.b = X(y)
  BY DEF VInstr
<1>4. n = [m EXCEPT !.g[d] = z] /\ z \in Word
  BY <1>1, <1>2, <1>3 DEF ScalarEffect
<1> HIDE DEF n, i, z
<1>5. n.x = m.x /\ n.g[d] = z /\ \A y1 \in Regs16 \ {d} : n.g[y1] = m.g[y1]
  BY <1>4 DEF Machines
<1>6. Loads(m, << i >>, n, d, z)
  BY <1>2, <1>5 DEF Loads
<1>7. QED BY <1>6 DEF i, z

(* mov between scalar registers,                                            *)
LEMMA MovStep ==
    ASSUME use_sse2, NEW m \in Machines, NEW d \in Regs16, NEW y \in Regs16
    PROVE  \E n : Loads(m, << VInstr("mov", W64, d, d, I(y), FALSE) >>, n, d, m.g[y])
<1> DEFINE i == VInstr("mov", W64, d, d, I(y), FALSE)
           n == ExecOne(m, i)
           z == m.g[y]
<1>1. I(y) \in Operands /\ I(y).n = y /\ "mov" \in Opcodes \ VectorOps /\ W64 \in Widths
  BY Parts16 DEF I, Operands, Opcodes, VectorOps, LaneWiseOps, ShiftVec, Widths
<1>2. After(m, << i >>, n) /\ ScalarEffect(m, i)
  BY <1>1, GStep
<1>3. i.op = "mov" /\ i.dst = d /\ i.b = I(y)
  BY DEF VInstr
<1>4. n = [m EXCEPT !.g[d] = z] /\ z \in Word
  BY <1>1, <1>2, <1>3 DEF ScalarEffect
<1> HIDE DEF n, i, z
<1>5. n.x = m.x /\ n.g[d] = z /\ \A y1 \in Regs16 \ {d} : n.g[y1] = m.g[y1]
  BY <1>4 DEF Machines
<1>6. Loads(m, << i >>, n, d, z)
  BY <1>2, <1>5 DEF Loads
<1>7. QED BY <1>6 DEF i, z

(* mov into cl, which leaves the rest of rcx alone,                         *)
LEMMA MovClStep ==
    ASSUME use_sse2, NEW m \in Machines, NEW y \in Regs16
    PROVE  \E n, c : /\ Loads(m, << VInstr("movcl", W8, rcx, rcx, I(y), FALSE) >>, n, rcx, c)
                     /\ Low(WCL, c) = Low(WCL, m.g[y])
<1> DEFINE i == VInstr("movcl", W8, rcx, rcx, I(y), FALSE)
           n == ExecOne(m, i)
           c == m.g[rcx] - Low(WCL, m.g[rcx]) + Low(WCL, m.g[y])
<1>1. I(y) \in Operands /\ I(y).n = y /\ "movcl" \in Opcodes \ VectorOps /\ W8 \in Widths /\ rcx \in Regs16
  BY Parts16 DEF I, Operands, Opcodes, VectorOps, LaneWiseOps, ShiftVec, Widths
<1>2. After(m, << i >>, n) /\ ScalarEffect(m, i)
  BY <1>1, GStep
<1>3. i.op = "movcl" /\ i.dst = rcx /\ i.b = I(y)
  BY DEF VInstr
<1>4. n = [m EXCEPT !.g[rcx] = c] /\ c \in Word
  BY <1>1, <1>2, <1>3 DEF ScalarEffect
<1>5. Low(WCL, c) = Low(WCL, m.g[y])
  <2>1. m.g[rcx] \in Word /\ m.g[y] \in Int
    BY Parts16
  <2>2. QED BY <2>1, CountRange, LowReplaced
<1> HIDE DEF n, i, c
<1>6. n.x = m.x /\ n.g[rcx] = c /\ \A y1 \in Regs16 \ {rcx} : n.g[y1] = m.g[y1]
  BY <1>1, <1>4 DEF Machines
<1>7. Loads(m, << i >>, n, rcx, c)
  BY <1>2, <1>6 DEF Loads
<1>8. QED BY <1>5, <1>7 DEF i

(* and sar, by an immediate or by cl.                                       *)
LEMMA SarStep ==
    ASSUME use_sse2, NEW m \in Machines, NEW d \in Regs16, NEW b \in Operands
    PROVE  \E n : Loads(m, << VInstr("sar", W64, d, d, b, FALSE) >>, n, d,
                        Halved(m.g[d], IF b.kind = "imm" THEN b.n ELSE Low(WCL, m.g[rcx])))
<1> DEFINE i == VInstr("sar", W64, d, d, b, FALSE)
           n == ExecOne(m, i)
           z == Halved(m.g[d], IF b.kind = "imm" THEN b.n ELSE Low(WCL, m.g[rcx]))
<1>1. "sar" \notin GprMoves /\ "sar" \in Opcodes \ VectorOps /\ W64 \in Widths
  BY DEF GprMoves, Opcodes, VectorOps, LaneWiseOps, ShiftVec, Widths
<1>2. After(m, << i >>, n) /\ ScalarEffect(m, i)
  BY <1>1, GStep
<1>3. i.op = "sar" /\ i.dst = d /\ i.b = b
  BY DEF VInstr
<1>4. n = [m EXCEPT !.g[d] = z] /\ z \in Word
  BY <1>2, <1>3 DEF ScalarEffect
<1> HIDE DEF n, i, z
<1>5. n.x = m.x /\ n.g[d] = z /\ \A y1 \in Regs16 \ {d} : n.g[y1] = m.g[y1]
  BY <1>4 DEF Machines
<1>6. Loads(m, << i >>, n, d, z)
  BY <1>2, <1>5 DEF Loads
<1>7. QED BY <1>6 DEF i, z

-----------------------------------------------------------------------------
(* The widths of lanes.                                                     *)
LEMMA WidthFacts ==
    /\ W8 \in Widths /\ W16 \in Widths /\ W32 \in Widths /\ W64 \in Widths
    /\ \A w \in Widths : w \in Int /\ w \in 0 .. W64 /\ w \in 1 .. W64 /\ 2 ^ w \in Nat \ {0}
    /\ W8 \in Nat \ {0} /\ W16 = 2 * W8 /\ W32 = 2 * W16 /\ W64 = 2 * W32
<1>1. W8 \in Widths /\ W16 \in Widths /\ W32 \in Widths /\ W64 \in Widths
  BY DEF Widths
<1>2. ASSUME NEW w \in Widths
      PROVE  w \in Int /\ w \in 0 .. W64 /\ w \in 1 .. W64 /\ 2 ^ w \in Nat \ {0}
  <2>1. w \in 1 .. W64 /\ 2 ^ w \in Nat \ {0}
    BY LaneCount
  <2>2. QED BY <2>1, Power
<1>3. W8 \in Nat \ {0} /\ W16 = 2 * W8 /\ W32 = 2 * W16 /\ W64 = 2 * W32
  BY WidthAssumption, VectorAssumption
<1>4. QED BY <1>1, <1>2, <1>3

(* The vectors of zeros and of ones, and their lanes.                       *)
Zero == << 0, 0 >>
Ones == << 2 ^ W64 - 1, 2 ^ W64 - 1 >>

(* The vectors of zeros and of ones, lane by lane.                          *)
LEMMA ConstantLanes ==
    /\ Zero \in Vector /\ Ones \in Vector
    /\ \A w \in Widths : \A k \in LaneIndex(w) : /\ Lane(w, Zero, k) = 0
                                                 /\ Lane(w, Ones, k) = 2 ^ w - 1
<1>1. Zero \in Vector /\ Ones \in Vector
  BY Power DEF Zero, Ones, Vector, Word
<1>2. ASSUME NEW w \in Widths, NEW k \in LaneIndex(w)
      PROVE  Lane(w, Zero, k) = 0 /\ Lane(w, Ones, k) = 2 ^ w - 1
  <2>1. PICK h \in {0, 1} : \E j \in 0 .. PerWord(w) - 1 : k = h * PerWord(w) + j
    BY LaneSplit
  <2>2. PICK j \in 0 .. PerWord(w) - 1 : k = h * PerWord(w) + j
    BY <2>1
  <2> DEFINE E == Place(w)
             N == PerWord(w)
             B == 2 ^ w
             m == E[j]
  <2>3. Scale(E, N, B) /\ E[N] = 2 ^ W64 /\ N \in Nat \ {0} /\ B \in Nat \ {0}
    BY PlaceScale, LaneCount
  <2>4. j \in 0 .. N /\ j + 1 \in 0 .. N /\ j + 1 \in 1 .. N /\ (j + 1) - 1 = j
    BY <2>3
  <2>5. m \in Nat \ {0} /\ E[j + 1] = m * B /\ E[j + 1] \in Nat \ {0}
    BY <2>3, <2>4 DEF Scale
  <2>6. PICK i \in Nat \ {0} : E[N] = E[j + 1] * i
    <3>1. N \in Nat /\ N \in j + 1 .. N
      BY <2>3, <2>4
    <3> HIDE DEF E, N, B
    <3>2. QED BY <2>3, <2>4, <3>1, Places
  <2>7. Lane(w, Zero, k) = Digit(0, m, B) /\ Lane(w, Ones, k) = Digit(2 ^ W64 - 1, m, B)
    <3>1. Zero[h + 1] = 0 /\ Ones[h + 1] = 2 ^ W64 - 1
      <4>1. Zero[1] = 0 /\ Zero[2] = 0 /\ Ones[1] = 2 ^ W64 - 1 /\ Ones[2] = 2 ^ W64 - 1
        BY DEF Zero, Ones
      <4>2. h + 1 = 1 \/ h + 1 = 2
        OBVIOUS
      <4>3. QED BY <4>1, <4>2
    <3>2. QED BY <2>2, <3>1, LaneOf
  <2>8. 2 ^ W64 = (m * B) * i
    BY <2>3, <2>5, <2>6
  <2> DEFINE P == 2 ^ W64
  <2>9. P \in Int /\ P = (m * B) * i
    BY <2>8, Power
  <2> HIDE DEF m, B, E, N, P
  <2>10. Digit(0, m, B) = 0
    <3>1. 0 = m * 0 + 0 /\ 0 \in 0 .. m - 1 /\ 0 = B * 0 + 0 /\ 0 \in 0 .. B - 1
      BY <2>3, <2>5
    <3>2. 0 \div m = 0
      BY <2>5, <3>1, ModUnique
    <3>3. 0 % B = 0
      BY <2>3, <3>1, ModUnique
    <3>4. QED BY <3>2, <3>3 DEF Digit
  <2>11. Digit(P - 1, m, B) = B - 1
    <3> DEFINE q == B * i - 1
               p == i - 1
               c == B - 1
    <3>1. P - 1 = m * q + (m - 1) /\ m - 1 \in 0 .. m - 1 /\ q \in Int /\ P - 1 \in Int
      BY <2>3, <2>5, <2>6, <2>9
    <3>2. q = B * p + c /\ c \in 0 .. B - 1 /\ p \in Int
      BY <2>3, <2>6
    <3> HIDE DEF q, p, c
    <3>3. (P - 1) \div m = q
      BY <2>5, <3>1, ModUnique
    <3>4. B \in Nat \ {0} /\ q \in Int /\ p \in Int /\ c \in 0 .. B - 1 /\ q = B * p + c
      BY <2>3, <3>1, <3>2
    <3>5. q % B = c
      BY <3>4, ModUnique
    <3>6. QED BY <3>3, <3>5 DEF Digit, c
  <2>12. QED BY <2>7, <2>10, <2>11 DEF B, P
<1>3. QED BY <1>1, <1>2

(* The ways the emitters make them.                                         *)
LEMMA Constants ==
    ASSUME NEW a \in Vector, NEW w \in Widths
    PROVE  /\ ExecVector("pxor", W64, a, a) = Zero
           /\ ExecVector("psub", w, a, a) = Zero
           /\ ExecVector("pcmpeq", w, a, a) = Ones
           /\ ExecVector("pcmpgt", w, a, a) = Zero
<1>1. W64 \in Widths /\ w \in 0 .. W64 /\ w \in 1 .. W64 /\ 2 ^ w \in Nat \ {0}
  BY WidthFacts
<1>2. /\ "pxor" \in LaneWiseOps /\ "psub" \in LaneWiseOps /\ "pcmpeq" \in LaneWiseOps
      /\ "pcmpgt" \in LaneWiseOps /\ PlainUse("pxor", W64) /\ PlainUse("psub", w)
      /\ PlainUse("pcmpeq", w) /\ PlainUse("pcmpgt", w)
  BY DEF LaneWiseOps, PlainUse
<1>3. ExecVector("pxor", W64, a, a) = Zero
  <2> DEFINE z == ExecVector("pxor", W64, a, a)
  <2>1. z \in Vector /\ \A k \in LaneIndex(W64) :
            Lane(W64, z, k) = LaneWise("pxor", W64, Lane(W64, a, k), Lane(W64, a, k))
    BY <1>1, <1>2, LaneWiseLanes
  <2>2. ASSUME NEW k \in LaneIndex(W64)
        PROVE  LaneWise("pxor", W64, Lane(W64, a, k), Lane(W64, a, k)) = 0
    <3> DEFINE y == Lane(W64, a, k)
    <3>1. y \in Int /\ W64 \in 0 .. W64
      BY <1>1, LaneRange, Power
    <3> HIDE DEF y
    <3>2. BitXor(y, y) \in 0 .. 2 ^ W64 - 1 /\ Low(W64, BitXor(y, y)) = 0
      BY <3>1, LogicRange, LogicConstants DEF Word
    <3>3. BitXor(y, y) = 0
      BY <3>1, <3>2, LowId
    <3>4. LaneWise("pxor", W64, y, y) = BitXor(y, y)
      BY DEF LaneWise
    <3>5. QED BY <3>3, <3>4 DEF y
  <2> HIDE DEF z
  <2>3. \A k \in LaneIndex(W64) : Lane(W64, z, k) = Lane(W64, Zero, k)
    BY <1>1, <2>1, <2>2, ConstantLanes
  <2>4. z = Zero
    BY <1>1, <2>1, <2>3, ConstantLanes, SameLanes
  <2>5. QED BY <2>4 DEF z
<1>4. ExecVector("psub", w, a, a) = Zero
  <2> DEFINE z == ExecVector("psub", w, a, a)
  <2>1. z \in Vector /\ \A k \in LaneIndex(w) :
            Lane(w, z, k) = LaneWise("psub", w, Lane(w, a, k), Lane(w, a, k))
    BY <1>1, <1>2, LaneWiseLanes
  <2>2. ASSUME NEW k \in LaneIndex(w)
        PROVE  LaneWise("psub", w, Lane(w, a, k), Lane(w, a, k)) = 0
    <3> DEFINE y == Lane(w, a, k)
    <3>1. y \in Int
      BY LaneRange
    <3>2. LaneWise("psub", w, y, y) = Low(w, y - y)
      BY DEF LaneWise
    <3> HIDE DEF y
    <3>3. y - y = 0 /\ 0 \in 0 .. 2 ^ w - 1
      BY <1>1, <3>1
    <3>4. QED BY <1>1, <3>2, <3>3, LowId DEF y
  <2> HIDE DEF z
  <2>3. \A k \in LaneIndex(w) : Lane(w, z, k) = Lane(w, Zero, k)
    BY <2>1, <2>2, ConstantLanes
  <2>4. z = Zero
    BY <2>1, <2>3, ConstantLanes, SameLanes
  <2>5. QED BY <2>4 DEF z
<1>5. ExecVector("pcmpeq", w, a, a) = Ones
  <2> DEFINE z == ExecVector("pcmpeq", w, a, a)
  <2>1. z \in Vector /\ \A k \in LaneIndex(w) :
            Lane(w, z, k) = LaneWise("pcmpeq", w, Lane(w, a, k), Lane(w, a, k))
    BY <1>1, <1>2, LaneWiseLanes
  <2>2. \A y : LaneWise("pcmpeq", w, y, y) = 2 ^ w - 1
    BY DEF LaneWise, Mask
  <2> HIDE DEF z
  <2>3. \A k \in LaneIndex(w) : Lane(w, z, k) = Lane(w, Ones, k)
    BY <2>1, <2>2, ConstantLanes
  <2>4. z = Ones
    BY <2>1, <2>3, ConstantLanes, SameLanes
  <2>5. QED BY <2>4 DEF z
<1>6. ExecVector("pcmpgt", w, a, a) = Zero
  <2> DEFINE z == ExecVector("pcmpgt", w, a, a)
  <2>1. z \in Vector /\ \A k \in LaneIndex(w) :
            Lane(w, z, k) = LaneWise("pcmpgt", w, Lane(w, a, k), Lane(w, a, k))
    BY <1>1, <1>2, LaneWiseLanes
  <2>2. ASSUME NEW k \in LaneIndex(w)
        PROVE  LaneWise("pcmpgt", w, Lane(w, a, k), Lane(w, a, k)) = 0
    <3> DEFINE y == Lane(w, a, k)
    <3>1. y \in Int
      BY LaneRange
    <3>2. LaneWise("pcmpgt", w, y, y) = Mask(w, ToSigned(w, y) > ToSigned(w, y))
      BY DEF LaneWise
    <3> HIDE DEF y
    <3>3. ToSigned(w, y) \in Int
      BY <1>1, <3>1, SignedLow
    <3>4. ~(ToSigned(w, y) > ToSigned(w, y))
      BY <3>3
    <3>5. QED BY <3>2, <3>4 DEF y, Mask
  <2> HIDE DEF z
  <2>3. \A k \in LaneIndex(w) : Lane(w, z, k) = Lane(w, Zero, k)
    BY <2>1, <2>2, ConstantLanes
  <2>4. z = Zero
    BY <2>1, <2>3, ConstantLanes, SameLanes
  <2>5. QED BY <2>4 DEF z
<1>7. QED BY <1>3, <1>4, <1>5, <1>6

-----------------------------------------------------------------------------
(* One piece of code after another.                                         *)
LEMMA SetsAgain ==
    ASSUME NEW m, NEW n, NEW o, NEW s, NEW t, NEW d \in Regs16, NEW a, NEW z,
           Sets(m, s, n, d, a), Sets(n, t, o, d, z)
    PROVE  Sets(m, s \o t, o, d, z)
<1>1. After(m, s \o t, o)
  BY AfterConcat DEF Sets
<1>2. o.g = m.g /\ o.x[d] = z /\ \A y \in Regs16 \ {d} : o.x[y] = m.x[y]
  BY DEF Sets
<1>3. QED BY <1>1, <1>2 DEF Sets

(* No code sets a register to what it holds.                                *)
LEMMA SetsNothing ==
    ASSUME NEW m \in Machines, NEW d \in Regs16
    PROVE  Sets(m, << >>, m, d, m.x[d])
BY AfterEmpty DEF Sets

(* vmov,                                                                    *)
LEMMA Move ==
    ASSUME use_sse2, NEW m \in Machines, NEW d \in Regs16, NEW s \in Regs16
    PROVE  \E n : Sets(m, emit_vmov(d, s), n, d, m.x[s])
<1>1. CASE s = d
  <2>1. emit_vmov(d, s) = << >>
    BY <1>1 DEF emit_vmov
  <2>2. QED BY <1>1, <2>1, SetsNothing
<1>2. CASE s # d
  <2>1. emit_vmov(d, s) = Legacy("movdqa", W64, d, X(s))
    BY <1>2 DEF emit_vmov
  <2>2. "movdqa" \in VectorOps /\ PlainUse("movdqa", W64) /\ W64 \in Widths
    BY WidthFacts DEF VectorOps, PlainUse
  <2>3. ExecVector("movdqa", W64, m.x[d], m.x[s]) = m.x[s]
    BY Parts16, WordMoves
  <2>4. QED BY <2>1, <2>2, <2>3, LegacyStep
<1>3. QED BY <1>1, <1>2

(* A copy that is made whether or not the registers differ.                 *)
LEMMA Copy ==
    ASSUME use_sse2, NEW m \in Machines, NEW d \in Regs16, NEW s \in Regs16
    PROVE  \E n : Sets(m, Legacy("movdqa", W64, d, X(s)), n, d, m.x[s])
<1>1. "movdqa" \in VectorOps /\ PlainUse("movdqa", W64) /\ W64 \in Widths
  BY WidthFacts DEF VectorOps, PlainUse
<1>2. ExecVector("movdqa", W64, m.x[d], m.x[s]) = m.x[s]
  BY Parts16, WordMoves
<1>3. QED BY <1>1, <1>2, LegacyStep

(* the ways of making a zero,                                               *)
LEMMA ZeroStep ==
    ASSUME use_sse2, NEW m \in Machines, NEW d \in Regs16, NEW by \in {"avx", "sse2", "any"},
           by = "avx" => use_avx
    PROVE  \E n : Sets(m, zeroed(by, d), n, d, Zero)
<1>1. "pxor" \in VectorOps /\ PlainUse("pxor", W64) /\ W64 \in Widths
  BY WidthFacts DEF VectorOps, LaneWiseOps, PlainUse
<1>2. ExecVector("pxor", W64, m.x[d], m.x[d]) = Zero
  BY <1>1, Parts16, Constants
<1>3. \E n : Sets(m, vzero_sse2(d), n, d, Zero)
  <2>1. \E n : Sets(m, Legacy("pxor", W64, d, X(d)), n, d, ExecVector("pxor", W64, m.x[d], m.x[d]))
    BY <1>1, LegacyStep
  <2>2. QED BY <1>2, <2>1 DEF vzero_sse2
<1>4. ASSUME use_avx
      PROVE  \E n : Sets(m, vzero_avx(d), n, d, Zero)
  <2>1. \E n : Sets(m, Avx("pxor", W64, d, d, X(d)), n, d, ExecVector("pxor", W64, m.x[d], m.x[d]))
    BY <1>1, <1>4, AvxStep
  <2>2. QED BY <1>2, <2>1 DEF vzero_avx
<1>5. zeroed(by, d) = vzero_sse2(d) \/ (use_avx /\ zeroed(by, d) = vzero_avx(d))
  BY DEF zeroed, vzero, Choose
<1>6. QED BY <1>3, <1>4, <1>5

(* vzero,                                                                   *)
LEMMA ClearStep ==
    ASSUME use_sse2, NEW m \in Machines, NEW d \in Regs16
    PROVE  \E n : Sets(m, emit_vzero(d), n, d, Zero)
<1>1. emit_vzero(d) = zeroed("any", d)
  BY DEF emit_vzero, zeroed
<1>2. "any" \in {"avx", "sse2", "any"} /\ ("any" = "avx" => use_avx)
  OBVIOUS
<1>3. \E n : Sets(m, zeroed("any", d), n, d, Zero)
  BY <1>2, ZeroStep
<1>4. QED BY <1>1, <1>3

(* and the vector of ones.                                                  *)
LEMMA OneStep ==
    ASSUME use_sse2, NEW m \in Machines, NEW d \in Regs16
    PROVE  \E n : Sets(m, emit_vone(d), n, d, Ones)
<1>1. "pcmpeq" \in VectorOps /\ PlainUse("pcmpeq", W8) /\ W8 \in Widths
  BY WidthFacts DEF VectorOps, LaneWiseOps, PlainUse
<1>2. ExecVector("pcmpeq", W8, m.x[d], m.x[d]) = Ones
  BY <1>1, Parts16, Constants
<1>3. \E n : Sets(m, Legacy("pcmpeq", W8, d, X(d)), n, d, ExecVector("pcmpeq", W8, m.x[d], m.x[d]))
  BY <1>1, LegacyStep
<1>4. QED BY <1>2, <1>3 DEF emit_vone

-----------------------------------------------------------------------------
(* Operations that may take their sources in either order.                  *)
EitherOrder == {"padd", "pmull", "pcmpeq", "pand", "por", "pxor"}

(* The operations whose operands an emitter may exchange.                   *)
LEMMA Commutes ==
    ASSUME NEW op \in EitherOrder, NEW w \in Widths, PlainUse(op, w),
           NEW a \in Vector, NEW b \in Vector
    PROVE  ExecVector(op, w, a, b) = ExecVector(op, w, b, a)
<1> DEFINE y == ExecVector(op, w, a, b)
           z == ExecVector(op, w, b, a)
<1>1. op \in LaneWiseOps
  BY DEF EitherOrder, LaneWiseOps
<1>2. y \in Vector /\ \A k \in LaneIndex(w) :
          Lane(w, y, k) = LaneWise(op, w, Lane(w, a, k), Lane(w, b, k))
  BY <1>1, LaneWiseLanes
<1>3. z \in Vector /\ \A k \in LaneIndex(w) :
          Lane(w, z, k) = LaneWise(op, w, Lane(w, b, k), Lane(w, a, k))
  BY <1>1, LaneWiseLanes
<1> HIDE DEF y, z
<1>4. ASSUME NEW p \in Values(w), NEW q \in Values(w)
      PROVE  LaneWise(op, w, p, q) = LaneWise(op, w, q, p)
  <2>1. p \in Int /\ q \in Int /\ W64 \in 0 .. W64
    BY WidthFacts DEF Values
  <2>2. CASE op = "padd"
    <3>1. p + q = q + p
      BY <2>1
    <3>2. QED BY <2>2, <3>1 DEF LaneWise
  <2>3. CASE op = "pmull"
    <3>1. p * q = q * p
      BY <2>1
    <3>2. QED BY <2>3, <3>1 DEF LaneWise
  <2>4. CASE op = "pcmpeq"
    <3>1. Mask(w, p = q) = Mask(w, q = p)
      BY DEF Mask
    <3>2. QED BY <2>4, <3>1 DEF LaneWise
  <2>5. CASE op \in {"pand", "por", "pxor"}
    <3>1. /\ Low(W64, BitAnd(p, q)) = Low(W64, BitAnd(q, p))
          /\ Low(W64, BitOr(p, q)) = Low(W64, BitOr(q, p))
          /\ Low(W64, BitXor(p, q)) = Low(W64, BitXor(q, p))
      BY <2>1, LogicCommutes
    <3>2. \A u \in Word : Low(W64, u) = u
      BY <2>1, LowId DEF Word
    <3>3. /\ BitAnd(p, q) = BitAnd(q, p) /\ BitOr(p, q) = BitOr(q, p) /\ BitXor(p, q) = BitXor(q, p)
      BY <2>1, <3>1, <3>2, LogicRange
    <3>4. QED BY <2>5, <3>3 DEF LaneWise
  <2>6. QED BY <2>2, <2>3, <2>4, <2>5 DEF EitherOrder
<1>5. \A k \in LaneIndex(w) : Lane(w, y, k) = Lane(w, z, k)
  BY <1>2, <1>3, <1>4, LaneRange
<1>6. y = z
  BY <1>2, <1>3, <1>5, SameLanes
<1>7. QED BY <1>6 DEF y, z

(* Two sources reduced to dst and one other.                                *)
LEMMA OneSource ==
    ASSUME use_sse2, NEW m \in Machines, NEW d \in Regs16, NEW s1 \in Regs16, NEW s2 \in Regs16
    PROVE  /\ one_vsrc(d, s1, s2) \in Regs16
           /\ \E n, a : /\ Sets(m, emit_one_vsrc(d, s1, s2), n, d, a)
                        /\ \/ a = m.x[s1] /\ n.x[one_vsrc(d, s1, s2)] = m.x[s2]
                           \/ a = m.x[s2] /\ n.x[one_vsrc(d, s1, s2)] = m.x[s1]
<1>1. one_vsrc(d, s1, s2) \in Regs16
  BY DEF one_vsrc
<1>2. CASE d \in {s1, s2}
  <2>1. emit_one_vsrc(d, s1, s2) = << >> /\ Sets(m, << >>, m, d, m.x[d])
    BY <1>2, SetsNothing DEF emit_one_vsrc
  <2>2. \/ m.x[d] = m.x[s1] /\ m.x[one_vsrc(d, s1, s2)] = m.x[s2]
        \/ m.x[d] = m.x[s2] /\ m.x[one_vsrc(d, s1, s2)] = m.x[s1]
    BY <1>2 DEF one_vsrc
  <2>3. QED BY <1>1, <2>1, <2>2
<1>3. CASE d \notin {s1, s2}
  <2>1. emit_one_vsrc(d, s1, s2) = emit_vmov(d, s1) /\ one_vsrc(d, s1, s2) = s2 /\ s2 # d
    BY <1>3 DEF emit_one_vsrc, one_vsrc
  <2>2. PICK n : Sets(m, emit_vmov(d, s1), n, d, m.x[s1])
    BY Move
  <2>3. n.x[s2] = m.x[s2]
    BY <2>1, <2>2 DEF Sets
  <2>4. QED BY <1>1, <2>1, <2>2, <2>3
<1>4. QED BY <1>2, <1>3

(* Two-operand code computes its operation whatever its registers are.      *)
LEMMA TwoOperandStep ==
    ASSUME use_sse2, NEW m \in Machines, NEW op \in EitherOrder, NEW type \in IntTypes,
           PlainUse(op, Width(type)), NEW d \in Regs16, NEW s1 \in Regs16, NEW s2 \in Regs16
    PROVE  \E n : Sets(m, TwoOperand(op, type, d, s1, s2), n, d,
                       ExecVector(op, Width(type), m.x[s1], m.x[s2]))
<1> DEFINE w == Width(type)
           s == one_vsrc(d, s1, s2)
<1>1. w \in Widths /\ op \in VectorOps /\ s \in Regs16
  BY WidthsInRange, OneSource DEF EitherOrder, VectorOps, LaneWiseOps
<1>2. PICK n, a : /\ Sets(m, emit_one_vsrc(d, s1, s2), n, d, a)
                  /\ \/ a = m.x[s1] /\ n.x[s] = m.x[s2]
                     \/ a = m.x[s2] /\ n.x[s] = m.x[s1]
  BY OneSource
<1> HIDE DEF w, s
<1>3. n \in Machines /\ n.x[d] = a
  BY <1>2 DEF Sets, After
<1>4. PICK o : Sets(n, Legacy(op, w, d, X(s)), o, d, ExecVector(op, w, n.x[d], n.x[s]))
  BY <1>1, <1>3, LegacyStep DEF w
<1>5. ExecVector(op, w, n.x[d], n.x[s]) = ExecVector(op, w, m.x[s1], m.x[s2])
  <2>1. m.x[s1] \in Vector /\ m.x[s2] \in Vector
    BY Parts16
  <2>2. ExecVector(op, w, m.x[s1], m.x[s2]) = ExecVector(op, w, m.x[s2], m.x[s1])
    BY <1>1, <2>1, Commutes DEF w
  <2>3. QED BY <1>2, <1>3, <2>2
<1>6. Sets(m, emit_one_vsrc(d, s1, s2) \o Legacy(op, w, d, X(s)), o, d,
           ExecVector(op, w, m.x[s1], m.x[s2]))
  BY <1>2, <1>4, <1>5, SetsAgain
<1>7. QED BY <1>6 DEF TwoOperand, w, s

(* So does three-operand code.                                              *)
LEMMA ThreeOperandStep ==
    ASSUME use_sse2, use_avx, NEW m \in Machines, NEW op \in VectorOps, NEW type \in IntTypes,
           PlainUse(op, Width(type)), NEW d \in Regs16, NEW s1 \in Regs16, NEW s2 \in Regs16
    PROVE  \E n : Sets(m, ThreeOperand(op, type, d, s1, s2), n, d,
                       ExecVector(op, Width(type), m.x[s1], m.x[s2]))
<1>1. Width(type) \in Widths
  BY WidthsInRange
<1>2. QED BY <1>1, AvxStep DEF ThreeOperand

-----------------------------------------------------------------------------
(* Code that leaves alone what is outside x, but for the temporaries among  *)
(* the general purpose registers; and that computes z in d besides.         *)
Leaves(m, s, n, x) ==
    /\ After(m, s, n)
    /\ \A y \in Regs16 \ x : n.x[y] = m.x[y]
    /\ \A y \in Regs16 \ {13, 14} : n.g[y] = m.g[y]
Does(m, s, n, d, z, x) == Leaves(m, s, n, x \cup {d}) /\ n.x[d] = z

(* Code that leaves all but some registers alone: its states are typed,     *)
LEMMA LeavesTyped ==
    ASSUME NEW m, NEW n, NEW s, NEW x, Leaves(m, s, n, x)
    PROVE  m \in Machines /\ n \in Machines
BY DEF Leaves, After

(* code that sets one of those registers is such code,                      *)
LEMMA SetsLeaves ==
    ASSUME NEW m, NEW n, NEW s, NEW d, NEW z, NEW x, Sets(m, s, n, d, z), d \in x
    PROVE  Leaves(m, s, n, x) /\ n.x[d] = z
BY DEF Sets, Leaves

(* and does it,                                                             *)
LEMMA SetsDoes ==
    ASSUME NEW m, NEW n, NEW s, NEW d, NEW z, NEW x, Sets(m, s, n, d, z)
    PROVE  Does(m, s, n, d, z, x)
<1>1. d \in x \cup {d}
  OBVIOUS
<1>2. QED BY <1>1, SetsLeaves DEF Does

(* so is code that loads one of the scalar temporaries,                     *)
LEMMA LoadsLeaves ==
    ASSUME NEW m, NEW n, NEW s, NEW d \in {13, 14}, NEW z, NEW x, Loads(m, s, n, d, z)
    PROVE  Leaves(m, s, n, x)
BY DEF Loads, Leaves

(* and the concatenation of two,                                            *)
LEMMA LeavesConcat ==
    ASSUME NEW m, NEW n, NEW o, NEW s, NEW t, NEW x, Leaves(m, s, n, x), Leaves(n, t, o, x)
    PROVE  Leaves(m, s \o t, o, x)
<1>1. After(m, s \o t, o)
  BY AfterConcat DEF Leaves
<1>2. QED BY <1>1 DEF Leaves

(* and it leaves all but more registers alone.                              *)
LEMMA LeavesMore ==
    ASSUME NEW m, NEW n, NEW s, NEW x, NEW y, Leaves(m, s, n, x), x \subseteq y
    PROVE  Leaves(m, s, n, y)
BY DEF Leaves

(* Code that prepares a register t of x, and then code that uses it.        *)
LEMMA DoesThen ==
    ASSUME NEW m, NEW n, NEW o, NEW s, NEW t, NEW d, NEW z, NEW x, NEW u, NEW y,
           Leaves(m, s, n, u), Does(n, t, o, d, z, y), u \subseteq x \cup {d}, y \subseteq x \cup {d}
    PROVE  Does(m, s \o t, o, d, z, x)
<1>1. Leaves(m, s, n, x \cup {d})
  BY LeavesMore
<1>2. Leaves(n, t, o, x \cup {d})
  <2>1. Leaves(n, t, o, y \cup {d}) /\ y \cup {d} \subseteq x \cup {d}
    BY DEF Does
  <2>2. QED BY <2>1, LeavesMore
<1>3. QED BY <1>1, <1>2, LeavesConcat DEF Does

(* The registers of an instruction are not temporaries that are free.       *)
Free(x) == x \in SUBSET X_FREE /\ x # {}

-----------------------------------------------------------------------------
(* Sums, differences and negation.                                          *)
Negated(w, a) == ExecVector("psub", w, Zero, a)

(* Negation without AVX: 0 - s, by way of a temporary if d is s.            *)
LEMMA NegSse2 ==
    ASSUME use_sse2, NEW m \in Machines, NEW type \in IntTypes, NEW x, Free(x),
           NEW d \in Regs16 \ x, NEW s \in Regs16 \ x
    PROVE  \E n : Does(m, emit_vneg_sse2(type, d, s, x), n, d, Negated(Width(type), m.x[s]), x)
<1> DEFINE w == Width(type)
           t == IF s = d THEN alloc_(x) ELSE s
           c == IF s = d THEN emit_vmov(t, d) ELSE << >>
<1>1. /\ w \in Widths /\ "psub" \in VectorOps /\ PlainUse("psub", w)
      /\ t \in Regs16 /\ t # d /\ (s = d => t \in x)
  BY WidthsInRange, Temporaries DEF Free, VectorOps, LaneWiseOps, PlainUse
<1>2. PICK n : Leaves(m, c, n, x \cup {d}) /\ n.x[t] = m.x[s]
  <2>1. CASE s = d
    <3>1. PICK n : Sets(m, emit_vmov(t, d), n, t, m.x[d])
      BY <1>1, Move
    <3>2. Leaves(m, emit_vmov(t, d), n, x \cup {d}) /\ n.x[t] = m.x[d]
      BY <1>1, <2>1, <3>1, SetsLeaves
    <3>3. QED BY <2>1, <3>2
  <2>2. CASE s # d
    <3>1. Sets(m, << >>, m, d, m.x[d])
      BY SetsNothing
    <3>2. Leaves(m, << >>, m, x \cup {d})
      BY <3>1, SetsLeaves
    <3>3. QED BY <2>2, <3>2
  <2>3. QED BY <2>1, <2>2
<1> HIDE DEF t, c
<1>3. n \in Machines
  BY <1>2, LeavesTyped
<1>4. "sse2" \in {"avx", "sse2", "any"} /\ ("sse2" = "avx" => use_avx) /\ zeroed("sse2", d) = vzero_sse2(d)
  BY DEF zeroed
<1>5. PICK o : Sets(n, zeroed("sse2", d), o, d, Zero)
  BY <1>3, <1>4, ZeroStep
<1>6. o \in Machines /\ o.x[d] = Zero /\ o.x[t] = m.x[s]
  BY <1>1, <1>2, <1>5 DEF Sets, After
<1>7. PICK p : Sets(o, Legacy("psub", w, d, X(t)), p, d, ExecVector("psub", w, o.x[d], o.x[t]))
  BY <1>1, <1>6, LegacyStep
<1>8. Leaves(m, c \o vzero_sse2(d), o, x \cup {d})
  <2>1. Leaves(n, vzero_sse2(d), o, x \cup {d})
    BY <1>4, <1>5, SetsLeaves
  <2>2. QED BY <1>2, <2>1, LeavesConcat
<1>9. Leaves(m, (c \o vzero_sse2(d)) \o Legacy("psub", w, d, X(t)), p, x \cup {d}) /\ p.x[d] = Negated(w, m.x[s])
  <2>1. Leaves(o, Legacy("psub", w, d, X(t)), p, x \cup {d}) /\ p.x[d] = ExecVector("psub", w, o.x[d], o.x[t])
    BY <1>7, SetsLeaves
  <2>2. QED BY <1>6, <1>8, <2>1, LeavesConcat DEF Negated
<1>10. emit_vneg_sse2(type, d, s, x) = (c \o vzero_sse2(d)) \o Legacy("psub", w, d, X(t))
  BY DEF emit_vneg_sse2, c, t
<1>11. QED BY <1>9, <1>10 DEF Does

(* Negation.                                                                *)
LEMMA Neg ==
    ASSUME use_sse2, NEW m \in Machines, NEW type \in IntTypes, NEW x, Free(x),
           NEW d \in Regs16 \ x, NEW s \in Regs16 \ x
    PROVE  \E n : Does(m, emit_vneg(type, d, s, x), n, d, Negated(Width(type), m.x[s]), x)
<1>1. CASE use_avx
  <2> DEFINE w == Width(type)
             t == alloc_(x)
  <2>1. /\ w \in Widths /\ "psub" \in VectorOps /\ PlainUse("psub", w) /\ t \in Regs16 /\ t \in x
    BY WidthsInRange, Temporaries DEF Free, VectorOps, LaneWiseOps, PlainUse
  <2>2. "avx" \in {"avx", "sse2", "any"} /\ zeroed("avx", t) = vzero_avx(t)
    BY DEF zeroed
  <2> HIDE DEF t
  <2>3. PICK n : Sets(m, zeroed("avx", t), n, t, Zero)
    BY <1>1, <2>1, <2>2, ZeroStep
  <2>4. n \in Machines /\ n.x[t] = Zero /\ n.x[s] = m.x[s]
    BY <2>1, <2>3 DEF Sets, After
  <2>5. PICK o : Sets(n, ThreeOperand("psub", type, d, t, s), o, d, ExecVector("psub", w, n.x[t], n.x[s]))
    BY <1>1, <2>1, <2>4, ThreeOperandStep
  <2>6. Leaves(m, vzero_avx(t), n, x)
    BY <2>1, <2>2, <2>3, SetsLeaves
  <2>7. Does(n, ThreeOperand("psub", type, d, t, s), o, d, Negated(w, m.x[s]), x)
    BY <2>4, <2>5, SetsDoes DEF Negated
  <2>8. Does(m, vzero_avx(t) \o ThreeOperand("psub", type, d, t, s), o, d, Negated(w, m.x[s]), x)
    BY <2>6, <2>7, DoesThen
  <2>9. emit_vneg(type, d, s, x) = vzero_avx(t) \o ThreeOperand("psub", type, d, t, s)
    BY <1>1 DEF emit_vneg, emit_vneg_avx, Choose, t
  <2>10. QED BY <2>8, <2>9
<1>2. CASE ~use_avx
  <2>1. emit_vneg(type, d, s, x) = emit_vneg_sse2(type, d, s, x)
    BY <1>2 DEF emit_vneg, Choose
  <2>2. QED BY <2>1, NegSse2
<1>3. QED BY <1>1, <1>2

(* Addition without AVX,                                                    *)
LEMMA AddSse2 ==
    ASSUME use_sse2, NEW m \in Machines, NEW type \in IntTypes,
           NEW d \in Regs16, NEW s1 \in Regs16, NEW s2 \in Regs16
    PROVE  \E n : Sets(m, emit_vadd_sse2(type, d, s1, s2), n, d,
                       ExecVector("padd", Width(type), m.x[s1], m.x[s2]))
<1>1. "padd" \in EitherOrder /\ PlainUse("padd", Width(type))
  BY DEF EitherOrder, PlainUse
<1>2. QED BY <1>1, TwoOperandStep DEF emit_vadd_sse2

(* and addition.                                                            *)
LEMMA Add ==
    ASSUME use_sse2, NEW m \in Machines, NEW type \in IntTypes, NEW x,
           NEW d \in Regs16, NEW s1 \in Regs16, NEW s2 \in Regs16
    PROVE  \E n : Does(m, emit_vadd(type, d, s1, s2, x), n, d,
                       ExecVector("padd", Width(type), m.x[s1], m.x[s2]), x)
<1> DEFINE z == ExecVector("padd", Width(type), m.x[s1], m.x[s2])
<1>1. "padd" \in VectorOps /\ PlainUse("padd", Width(type))
  BY DEF VectorOps, LaneWiseOps, PlainUse
<1>2. \E n : Sets(m, emit_vadd(type, d, s1, s2, x), n, d, z)
  <2>1. CASE use_avx
    <3>1. emit_vadd(type, d, s1, s2, x) = ThreeOperand("padd", type, d, s1, s2)
      BY <2>1 DEF emit_vadd, emit_vadd_avx, Choose
    <3>2. QED BY <1>1, <2>1, <3>1, ThreeOperandStep
  <2>2. CASE ~use_avx
    <3>1. emit_vadd(type, d, s1, s2, x) = emit_vadd_sse2(type, d, s1, s2)
      BY <2>2 DEF emit_vadd, Choose
    <3>2. QED BY <3>1, AddSse2
  <2>3. QED BY <2>1, <2>2
<1> HIDE DEF z
<1>3. QED BY <1>2, SetsDoes DEF z

(* A difference is a sum with the negated operand.                          *)
LEMMA AddNegated ==
    ASSUME NEW w \in Widths, NEW a \in Vector, NEW b \in Vector
    PROVE  ExecVector("padd", w, a, Negated(w, b)) = ExecVector("psub", w, a, b)
<1> DEFINE c == Negated(w, b)
           y == ExecVector("padd", w, a, c)
           z == ExecVector("psub", w, a, b)
<1>1. /\ "padd" \in LaneWiseOps /\ "psub" \in LaneWiseOps
      /\ PlainUse("padd", w) /\ PlainUse("psub", w)
      /\ w \in 0 .. W64
  BY WidthFacts DEF LaneWiseOps, PlainUse
<1>2. c \in Vector /\ \A k \in LaneIndex(w) :
          Lane(w, c, k) = LaneWise("psub", w, Lane(w, Zero, k), Lane(w, b, k))
  BY <1>1, ConstantLanes, LaneWiseLanes DEF Negated
<1> HIDE DEF c
<1>3. y \in Vector /\ \A k \in LaneIndex(w) :
          Lane(w, y, k) = LaneWise("padd", w, Lane(w, a, k), Lane(w, c, k))
  BY <1>1, <1>2, LaneWiseLanes
<1>4. z \in Vector /\ \A k \in LaneIndex(w) :
          Lane(w, z, k) = LaneWise("psub", w, Lane(w, a, k), Lane(w, b, k))
  BY <1>1, LaneWiseLanes
<1> HIDE DEF y, z
<1>5. ASSUME NEW k \in LaneIndex(w)
      PROVE  Lane(w, y, k) = Lane(w, z, k)
  <2> DEFINE p == Lane(w, a, k)
             q == Lane(w, b, k)
  <2>1. p \in Int /\ q \in Int /\ Lane(w, Zero, k) = 0
    BY LaneRange, ConstantLanes
  <2>2. Lane(w, c, k) = Low(w, 0 - q)
    BY <1>2, <2>1 DEF LaneWise
  <2>3. Lane(w, y, k) = Low(w, p + Low(w, 0 - q))
    BY <1>3, <2>2 DEF LaneWise
  <2>4. Lane(w, z, k) = Low(w, p - q)
    BY <1>4 DEF LaneWise
  <2> HIDE DEF p, q
  <2> DEFINE u == 0 - q
             t == Low(w, u)
  <2>5. u \in Int /\ p + u = p - q
    BY <2>1
  <2>6. t \in Int /\ Low(w, t) = Low(w, u) /\ Low(w, p) = Low(w, p)
    BY <1>1, <2>5, LowRange, LowOfLow
  <2> HIDE DEF t, u
  <2>7. PICK o \in Int : o = p
    BY <2>1
  <2>8. w \in 0 .. W64 /\ p \in Int /\ t \in Int /\ u \in Int /\ Low(w, p) = Low(w, o) /\ Low(w, t) = Low(w, u)
    BY <1>1, <2>1, <2>5, <2>6, <2>7
  <2>9. /\ Low(w, p + t) = Low(w, o + u)
        /\ Low(w, p - t) = Low(w, o - u)
        /\ Low(w, p * t) = Low(w, o * u)
    BY <2>8, LowArithmetic
  <2>10. QED BY <2>3, <2>4, <2>5, <2>7, <2>9 DEF t, u
<1>6. y = z
  BY <1>3, <1>4, <1>5, SameLanes
<1>7. QED BY <1>6 DEF y, z, c

(* Subtraction, d = s2 included.                                            *)
LEMMA Sub ==
    ASSUME use_sse2, NEW m \in Machines, NEW type \in IntTypes, NEW x, Free(x),
           NEW d \in Regs16 \ x, NEW s1 \in Regs16 \ x, NEW s2 \in Regs16
    PROVE  \E n : Does(m, emit_vsub(type, d, s1, s2, x), n, d,
                       ExecVector("psub", Width(type), m.x[s1], m.x[s2]), x)
<1> DEFINE w == Width(type)
           z == ExecVector("psub", w, m.x[s1], m.x[s2])
<1>1. /\ w \in Widths /\ "psub" \in VectorOps /\ PlainUse("psub", w)
      /\ m.x[s1] \in Vector /\ m.x[s2] \in Vector
  BY WidthsInRange, Parts16 DEF VectorOps, LaneWiseOps, PlainUse
<1>2. CASE use_avx
  <2>1. emit_vsub(type, d, s1, s2, x) = ThreeOperand("psub", type, d, s1, s2)
    BY <1>2 DEF emit_vsub, emit_vsub_avx, Choose
  <2>2. \E n : Sets(m, ThreeOperand("psub", type, d, s1, s2), n, d, z)
    BY <1>1, <1>2, ThreeOperandStep
  <2> HIDE DEF z
  <2>3. QED BY <2>1, <2>2, SetsDoes DEF z
<1>3. CASE ~use_avx
  <2>1. emit_vsub(type, d, s1, s2, x) = emit_vsub_sse2(type, d, s1, s2, x)
    BY <1>3 DEF emit_vsub, Choose
  <2>2. CASE d = s1 /\ d = s2
    <3>1. emit_vsub_sse2(type, d, s1, s2, x) = emit_vzero(d)
      BY <2>2 DEF emit_vsub_sse2
    <3>2. z = Zero
      BY <1>1, <2>2, Constants
    <3>3. \E n : Sets(m, emit_vzero(d), n, d, z)
      BY <3>2, ClearStep
    <3> HIDE DEF z
    <3>4. QED BY <2>1, <3>1, <3>3, SetsDoes DEF z
  <2>3. CASE d = s1 /\ d # s2
    <3>1. emit_vsub_sse2(type, d, s1, s2, x) = Legacy("psub", w, d, X(s2))
      BY <2>3 DEF emit_vsub_sse2
    <3>2. \E n : Sets(m, Legacy("psub", w, d, X(s2)), n, d, z)
      BY <1>1, <2>3, LegacyStep
    <3> HIDE DEF z
    <3>3. QED BY <2>1, <3>1, <3>2, SetsDoes DEF z
  <2>4. CASE d # s1 /\ d = s2
    <3>1. emit_vsub_sse2(type, d, s1, s2, x)
          = emit_vneg_sse2(type, d, d, x) \o emit_vadd_sse2(type, d, s1, d)
      BY <2>4 DEF emit_vsub_sse2
    <3>2. PICK n : Does(m, emit_vneg_sse2(type, d, d, x), n, d, Negated(w, m.x[d]), x)
      BY NegSse2
    <3>3. n \in Machines /\ n.x[s1] = m.x[s1] /\ n.x[d] = Negated(w, m.x[s2])
      BY <2>4, <3>2, LeavesTyped DEF Does, Leaves
    <3>4. PICK o : Sets(n, emit_vadd_sse2(type, d, s1, d), o, d, ExecVector("padd", w, n.x[s1], n.x[d]))
      BY <3>3, AddSse2
    <3>5. ExecVector("padd", w, n.x[s1], n.x[d]) = z
      BY <1>1, <3>3, AddNegated
    <3> HIDE DEF z
    <3>6. Does(n, emit_vadd_sse2(type, d, s1, d), o, d, z, x)
      BY <3>4, <3>5, SetsDoes
    <3>7. Does(m, emit_vneg_sse2(type, d, d, x) \o emit_vadd_sse2(type, d, s1, d), o, d, z, x)
      BY <3>2, <3>6, DoesThen DEF Does
    <3>8. QED BY <2>1, <3>1, <3>7 DEF z
  <2>5. CASE d # s1 /\ d # s2
    <3>1. emit_vsub_sse2(type, d, s1, s2, x) = emit_vmov(d, s1) \o Legacy("psub", w, d, X(s2))
      BY <2>5 DEF emit_vsub_sse2
    <3>2. PICK n : Sets(m, emit_vmov(d, s1), n, d, m.x[s1])
      BY Move
    <3>3. n \in Machines /\ n.x[d] = m.x[s1] /\ n.x[s2] = m.x[s2]
      BY <2>5, <3>2 DEF Sets, After
    <3>4. PICK o : Sets(n, Legacy("psub", w, d, X(s2)), o, d, ExecVector("psub", w, n.x[d], n.x[s2]))
      BY <1>1, <3>3, LegacyStep
    <3>5. ExecVector("psub", w, n.x[d], n.x[s2]) = z
      BY <3>3
    <3> HIDE DEF z
    <3>6. Sets(m, emit_vmov(d, s1) \o Legacy("psub", w, d, X(s2)), o, d, z)
      BY <3>2, <3>4, <3>5, SetsAgain
    <3>7. QED BY <2>1, <3>1, <3>6, SetsDoes DEF z
  <2>6. QED BY <2>2, <2>3, <2>4, <2>5
<1>4. QED BY <1>2, <1>3

-----------------------------------------------------------------------------
(* The bitwise operations.                                                  *)
Logic == {"pand", "por", "pxor"}

(* The bitwise operations are on whole vectors.                             *)
LEMMA Whole ==
    ASSUME use_sse2, NEW m \in Machines, NEW op \in Logic, NEW name, NEW type, NEW x,
           NEW d \in Regs16, NEW s1 \in Regs16, NEW s2 \in Regs16
    PROVE  \E n : Does(m, WholeVector(op, name, type, d, s1, s2), n, d,
                       ExecVector(op, W64, m.x[s1], m.x[s2]), x)
<1> DEFINE z == ExecVector(op, W64, m.x[s1], m.x[s2])
<1>1. /\ "UINT64" \in IntTypes /\ Width("UINT64") = W64
      /\ op \in VectorOps /\ op \in EitherOrder /\ PlainUse(op, W64)
  BY DEF IntTypes, UnsignedTypes, Width, Logic, VectorOps, LaneWiseOps, EitherOrder, PlainUse
<1>2. CASE use_avx
  <2>1. WholeVector(op, name, type, d, s1, s2) = ThreeOperand(op, "UINT64", d, s1, s2)
    BY <1>2 DEF WholeVector, Choose
  <2>2. \E n : Sets(m, ThreeOperand(op, "UINT64", d, s1, s2), n, d,
                    ExecVector(op, Width("UINT64"), m.x[s1], m.x[s2]))
    BY <1>1, <1>2, ThreeOperandStep
  <2>3. \E n : Sets(m, ThreeOperand(op, "UINT64", d, s1, s2), n, d, z)
    BY <1>1, <2>2
  <2> HIDE DEF z
  <2>4. QED BY <2>1, <2>3, SetsDoes DEF z
<1>3. CASE ~use_avx
  <2>1. WholeVector(op, name, type, d, s1, s2) = TwoOperand(op, "UINT64", d, s1, s2)
    BY <1>3 DEF WholeVector, Choose
  <2>2. \E n : Sets(m, TwoOperand(op, "UINT64", d, s1, s2), n, d,
                    ExecVector(op, Width("UINT64"), m.x[s1], m.x[s2]))
    BY <1>1, TwoOperandStep
  <2>3. \E n : Sets(m, TwoOperand(op, "UINT64", d, s1, s2), n, d, z)
    BY <1>1, <2>2
  <2> HIDE DEF z
  <2>4. QED BY <2>1, <2>3, SetsDoes DEF z
<1>4. QED BY <1>2, <1>3

(* The complement of a vector.                                              *)
Not(a) == ExecVector("pxor", W64, a, Ones)

(* Complement.                                                              *)
LEMMA BNot ==
    ASSUME use_sse2, NEW m \in Machines, NEW type, NEW x, Free(x),
           NEW d \in Regs16 \ x, NEW s \in Regs16 \ x
    PROVE  \E n : Does(m, emit_vbnot(type, d, s, x), n, d, Not(m.x[s]), x)
<1> DEFINE t == alloc_(x)
           y == x \ {t}
<1>1. t \in x /\ t \in Regs16 /\ "pxor" \in Logic
  BY Temporaries DEF Free, Logic
<1> HIDE DEF t, y
<1>2. PICK n : Sets(m, emit_vmov(d, s), n, d, m.x[s])
  BY Move
<1>3. n \in Machines /\ n.x[d] = m.x[s]
  BY <1>2 DEF Sets, After
<1>4. PICK o : Sets(n, emit_vone(t), o, t, Ones)
  BY <1>1, <1>3, OneStep
<1>5. o \in Machines /\ o.x[d] = m.x[s] /\ o.x[t] = Ones
  BY <1>1, <1>3, <1>4 DEF Sets, After
<1>6. PICK p : Does(o, emit_vbxor(type, d, d, t, y), p, d, ExecVector("pxor", W64, o.x[d], o.x[t]), {})
  BY <1>1, <1>5, Whole DEF emit_vbxor
<1>7. Leaves(m, emit_vmov(d, s) \o emit_vone(t), o, x \cup {d})
  <2>1. Leaves(m, emit_vmov(d, s), n, x \cup {d})
    BY <1>2, SetsLeaves
  <2>2. Leaves(n, emit_vone(t), o, x \cup {d})
    BY <1>1, <1>4, SetsLeaves
  <2>3. QED BY <2>1, <2>2, LeavesConcat
<1>8. Does(m, (emit_vmov(d, s) \o emit_vone(t)) \o emit_vbxor(type, d, d, t, y), p, d, Not(m.x[s]), x)
  <2>1. Does(o, emit_vbxor(type, d, d, t, y), p, d, Not(m.x[s]), {})
    BY <1>5, <1>6 DEF Not
  <2>2. QED BY <1>7, <2>1, DoesThen
<1>9. emit_vbnot(type, d, s, x) = (emit_vmov(d, s) \o emit_vone(t)) \o emit_vbxor(type, d, d, t, y)
  BY DEF emit_vbnot, t, y
<1>10. QED BY <1>8, <1>9

(* bandn.                                                                   *)
LEMMA BAndN ==
    ASSUME use_sse2, NEW m \in Machines, NEW type, NEW x, Free(x), x \ {alloc_(x)} # {},
           NEW d \in Regs16 \ x, NEW s1 \in Regs16 \ x, NEW s2 \in Regs16 \ x
    PROVE  \E n : Does(m, emit_vbandn(type, d, s1, s2, x), n, d,
                       ExecVector("pand", W64, Not(m.x[s1]), m.x[s2]), x)
<1> DEFINE t == alloc_(x)
           y == x \ {t}
<1>1. t \in x /\ t \in Regs16 /\ "pand" \in Logic /\ Free(y) /\ t \notin y /\ s1 \notin y
  BY Temporaries DEF Free, Logic
<1>2. y \subseteq x
  OBVIOUS
<1> HIDE DEF t, y
<1>3. PICK n : Does(m, emit_vbnot(type, t, s1, y), n, t, Not(m.x[s1]), y)
  BY <1>1, BNot
<1>4. n \in Machines /\ n.x[t] = Not(m.x[s1]) /\ n.x[s2] = m.x[s2]
  BY <1>1, <1>2, <1>3, LeavesTyped DEF Does, Leaves
<1>5. PICK o : Does(n, emit_vband(type, d, t, s2, y), o, d, ExecVector("pand", W64, n.x[t], n.x[s2]), {})
  BY <1>1, <1>4, Whole DEF emit_vband
<1>6. Does(m, emit_vbnot(type, t, s1, y) \o emit_vband(type, d, t, s2, y), o, d,
           ExecVector("pand", W64, n.x[t], n.x[s2]), x)
  <2>1. Leaves(m, emit_vbnot(type, t, s1, y), n, y \cup {t}) /\ y \cup {t} \subseteq x \cup {d}
    BY <1>1, <1>2, <1>3 DEF Does
  <2>2. QED BY <1>5, <2>1, DoesThen
<1>7. emit_vbandn(type, d, s1, s2, x) = emit_vbnot(type, t, s1, y) \o emit_vband(type, d, t, s2, y)
  BY DEF emit_vbandn, t, y
<1>8. QED BY <1>4, <1>6, <1>7

-----------------------------------------------------------------------------
(* Comparisons: in place first.                                             *)
Eq(w, a, b) == ExecVector("pcmpeq", w, a, b)
Gt(w, a, b) == ExecVector("pcmpgt", w, a, b)

(* A result complemented in place or into another register.                 *)
LEMMA Complemented ==
    ASSUME use_sse2, NEW m, NEW n, NEW s, NEW type, NEW x, Free(x), NEW d \in Regs16 \ x, NEW e \in Regs16 \ x, NEW z, NEW u,
           Leaves(m, s, n, u), n.x[e] = z, NEW y, u \subseteq y \cup {d}, x \subseteq y
    PROVE  \E o : Does(m, s \o emit_vbnot(type, d, e, x), o, d, Not(z), y)
<1>1. n \in Machines
  BY LeavesTyped
<1>2. PICK o : Does(n, emit_vbnot(type, d, e, x), o, d, Not(n.x[e]), x)
  BY <1>1, BNot
<1>3. x \subseteq y \cup {d}
  OBVIOUS
<1>4. Does(m, s \o emit_vbnot(type, d, e, x), o, d, Not(n.x[e]), y)
  BY <1>2, <1>3, DoesThen
<1>5. QED BY <1>4

(* The two comparisons that the processor has.                              *)
LEMMA CmpOps ==
    /\ "pcmpeq" \in VectorOps /\ "pcmpgt" \in VectorOps /\ "pcmpeq" \in EitherOrder
    /\ \A w : PlainUse("pcmpeq", w) /\ PlainUse("pcmpgt", w)
    /\ \A type \in IntTypes : Width(type) \in Widths
BY WidthsInRange DEF VectorOps, LaneWiseOps, EitherOrder, PlainUse

(* Comparisons of the destination with a source: equal,                     *)
LEMMA CmpEq1 ==
    ASSUME use_sse2, NEW m \in Machines, NEW type \in IntTypes, NEW d \in Regs16, NEW s \in Regs16
    PROVE  \E n : Sets(m, emit_vcmpeq1(type, d, s), n, d, Eq(Width(type), m.x[d], m.x[s]))
BY CmpOps, LegacyStep DEF emit_vcmpeq1, Eq

(* greater,                                                                 *)
LEMMA CmpGt1 ==
    ASSUME use_sse2, NEW m \in Machines, NEW type \in IntTypes, NEW d \in Regs16, NEW s \in Regs16
    PROVE  \E n : Sets(m, emit_vcmpgt1(type, d, s), n, d, Gt(Width(type), m.x[d], m.x[s]))
BY CmpOps, LegacyStep DEF emit_vcmpgt1, Gt

(* less, which exchanges the operands by way of a temporary,                *)
LEMMA CmpLt1 ==
    ASSUME use_sse2, NEW m \in Machines, NEW type \in IntTypes, NEW x, Free(x),
           NEW d \in Regs16 \ x, NEW s \in Regs16 \ x, d # s
    PROVE  \E n : Does(m, emit_vcmplt1(type, d, s, x), n, d, Gt(Width(type), m.x[s], m.x[d]), x)
<1> DEFINE t == alloc_(x)
           w == Width(type)
<1>1. t \in x /\ t \in Regs16
  BY Temporaries DEF Free
<1> HIDE DEF t
<1>2. PICK n : Sets(m, emit_vmov(t, d), n, t, m.x[d])
  BY <1>1, Move
<1>3. n \in Machines /\ n.x[t] = m.x[d] /\ n.x[s] = m.x[s]
  BY <1>1, <1>2 DEF Sets, After
<1>4. PICK o : Sets(n, emit_vmov(d, s), o, d, n.x[s])
  BY <1>3, Move
<1>5. o \in Machines /\ o.x[t] = m.x[d] /\ o.x[d] = m.x[s]
  BY <1>1, <1>3, <1>4 DEF Sets, After
<1>6. PICK p : Sets(o, Legacy("pcmpgt", w, d, X(t)), p, d, ExecVector("pcmpgt", w, o.x[d], o.x[t]))
  BY <1>1, <1>5, CmpOps, LegacyStep
<1>7. Leaves(m, emit_vmov(t, d) \o emit_vmov(d, s), o, x \cup {d})
  <2>1. Leaves(m, emit_vmov(t, d), n, x \cup {d})
    BY <1>1, <1>2, SetsLeaves
  <2>2. Leaves(n, emit_vmov(d, s), o, x \cup {d})
    BY <1>4, SetsLeaves
  <2>3. QED BY <2>1, <2>2, LeavesConcat
<1>8. Does(o, Legacy("pcmpgt", w, d, X(t)), p, d, Gt(w, m.x[s], m.x[d]), {})
  BY <1>5, <1>6, SetsDoes DEF Gt
<1>9. Does(m, (emit_vmov(t, d) \o emit_vmov(d, s)) \o Legacy("pcmpgt", w, d, X(t)), p, d,
           Gt(w, m.x[s], m.x[d]), x)
  BY <1>7, <1>8, DoesThen
<1>10. QED BY <1>9 DEF emit_vcmplt1, t

(* and less or equal.                                                       *)
LEMMA CmpLe1 ==
    ASSUME use_sse2, NEW m \in Machines, NEW type \in IntTypes, NEW x, Free(x), x \ {alloc_(x)} # {},
           NEW d \in Regs16 \ x, NEW s \in Regs16 \ x
    PROVE  \E n : Does(m, emit_vcmple1(type, d, s, x), n, d, Not(Gt(Width(type), m.x[d], m.x[s])), x)
<1> DEFINE t == alloc_(x)
           w == Width(type)
           y == x \ {t}
<1>1. t \in x /\ t \in Regs16 /\ Free(y) /\ t \in Regs16 \ y /\ d \in Regs16 \ y
  BY Temporaries DEF Free
<1>2. y \subseteq x
  OBVIOUS
<1> HIDE DEF t, y
<1>3. PICK n : Sets(m, emit_vmov(t, d), n, t, m.x[d])
  BY <1>1, Move
<1>4. n \in Machines /\ n.x[t] = m.x[d] /\ n.x[s] = m.x[s]
  BY <1>1, <1>3 DEF Sets, After
<1>5. PICK o : Sets(n, Legacy("pcmpgt", w, t, X(s)), o, t, ExecVector("pcmpgt", w, n.x[t], n.x[s]))
  BY <1>1, <1>4, CmpOps, LegacyStep
<1>6. Leaves(m, emit_vmov(t, d) \o Legacy("pcmpgt", w, t, X(s)), o, x)
  <2>1. Leaves(m, emit_vmov(t, d), n, x)
    BY <1>1, <1>3, SetsLeaves
  <2>2. Leaves(n, Legacy("pcmpgt", w, t, X(s)), o, x)
    BY <1>1, <1>5, SetsLeaves
  <2>3. QED BY <2>1, <2>2, LeavesConcat
<1>7. o.x[t] = Gt(w, m.x[d], m.x[s])
  BY <1>4, <1>5 DEF Sets, Gt
<1>8. x \subseteq x \cup {d}
  OBVIOUS
<1>9. \E p : Does(m, (emit_vmov(t, d) \o Legacy("pcmpgt", w, t, X(s))) \o emit_vbnot(type, d, t, y), p, d,
                  Not(Gt(w, m.x[d], m.x[s])), x)
  BY <1>1, <1>2, <1>6, <1>7, <1>8, Complemented
<1>10. QED BY <1>9 DEF emit_vcmple1, t, y

-----------------------------------------------------------------------------
(* Comparisons of two sources with the result in a third register.          *)
LEMMA CmpEq ==
    ASSUME use_sse2, NEW m \in Machines, NEW type \in IntTypes, NEW x,
           NEW d \in Regs16, NEW s1 \in Regs16, NEW s2 \in Regs16
    PROVE  \E n : Does(m, emit_vcmpeq(type, d, s1, s2, x), n, d, Eq(Width(type), m.x[s1], m.x[s2]), x)
<1> DEFINE w == Width(type)
           s == one_vsrc(d, s1, s2)
           c == emit_one_vsrc(d, s1, s2)
           z == Eq(w, m.x[s1], m.x[s2])
<1>1. w \in Widths /\ s \in Regs16 /\ m.x[s1] \in Vector /\ m.x[s2] \in Vector
  BY CmpOps, OneSource, Parts16
<1>2. PICK n, a : /\ Sets(m, c, n, d, a)
                  /\ \/ a = m.x[s1] /\ n.x[s] = m.x[s2]
                     \/ a = m.x[s2] /\ n.x[s] = m.x[s1]
  BY OneSource
<1>3. n \in Machines /\ n.x[d] = a
  BY <1>2 DEF Sets, After
<1> HIDE DEF c
<1>4. CASE s1 = s2
  <2>1. PICK o : Sets(n, emit_vone(d), o, d, Ones)
    BY <1>3, OneStep
  <2>2. z = Ones
    BY <1>1, <1>4, Constants DEF Eq
  <2> HIDE DEF z
  <2>3. Sets(m, c \o emit_vone(d), o, d, z)
    BY <1>2, <2>1, <2>2, SetsAgain
  <2>4. emit_vcmpeq(type, d, s1, s2, x) = c \o emit_vone(d)
    BY <1>4 DEF emit_vcmpeq, c
  <2>5. QED BY <2>3, <2>4, SetsDoes DEF z
<1>5. CASE s1 # s2
  <2>1. PICK o : Sets(n, emit_vcmpeq1(type, d, s), o, d, Eq(w, n.x[d], n.x[s]))
    BY <1>1, <1>3, CmpEq1
  <2>2. Eq(w, n.x[d], n.x[s]) = z
    <3>1. Eq(w, m.x[s2], m.x[s1]) = z
      BY <1>1, CmpOps, Commutes DEF Eq
    <3>2. QED BY <1>2, <1>3, <3>1
  <2> HIDE DEF z
  <2>3. Sets(m, c \o emit_vcmpeq1(type, d, s), o, d, z)
    BY <1>2, <2>1, <2>2, SetsAgain
  <2>4. emit_vcmpeq(type, d, s1, s2, x) = c \o emit_vcmpeq1(type, d, s)
    BY <1>5 DEF emit_vcmpeq, c
  <2>5. QED BY <2>3, <2>4, SetsDoes DEF z
<1>6. QED BY <1>4, <1>5

(* A complement of a comparison of equal vectors.                           *)
LEMMA NotConstant == Not(Ones) = Zero /\ Not(Zero) = Ones
<1>1. W64 \in Widths /\ Ones \in Vector /\ Zero \in Vector
  BY WidthFacts, ConstantLanes
<1>2. Not(Ones) = Zero
  BY <1>1, Constants DEF Not
<1>3. Not(Zero) = Ones
  <2> DEFINE z == Not(Zero)
  <2>1. "pxor" \in LaneWiseOps /\ PlainUse("pxor", W64)
    BY DEF LaneWiseOps, PlainUse
  <2>2. z \in Vector /\ \A k \in LaneIndex(W64) :
            Lane(W64, z, k) = LaneWise("pxor", W64, Lane(W64, Zero, k), Lane(W64, Ones, k))
    BY <1>1, <2>1, LaneWiseLanes DEF Not
  <2> HIDE DEF z
  <2>3. ASSUME NEW k \in LaneIndex(W64)
        PROVE  Lane(W64, z, k) = Lane(W64, Ones, k)
    <3> DEFINE P == 2 ^ W64 - 1
    <3>1. P \in Int /\ P \in Word /\ W64 \in 0 .. W64 /\ 0 \in Int /\ 0 \in 0 .. 2 ^ W64 - 1
      BY Power DEF Word
    <3>2. Lane(W64, z, k) = BitXor(0, P) /\ Lane(W64, Ones, k) = P
      BY <1>1, <2>2, ConstantLanes DEF LaneWise
    <3>3. ASSUME NEW j \in 0 .. W64 - 1
          PROVE  Bit(j, BitXor(0, P)) = Bit(j, P)
      <4>1. XorBit \in BitFunctions
        BY BitFunctionsTyped
      <4>2. Bit(j, BitByBit(XorBit, 0, P)) = XorBit[<<Bit(j, 0), Bit(j, P)>>]
        BY <3>1, <4>1, BitOfBitwise
      <4>3. j \in 0 .. W64
        BY <3>1
      <4>4. Bit(j, 0) = 0
        <5>1. 2 ^ j \in Nat \ {0}
          BY <4>3, Power
        <5>2. 0 = (2 ^ j) * 0 + 0 /\ 0 \in 0 .. 2 ^ j - 1
          BY <5>1
        <5>3. 0 % 2 ^ j = 0 /\ 0 \div 2 ^ j = 0
          BY <5>1, <5>2, ModUnique
        <5>4. 0 % 2 = 0
          OBVIOUS
        <5>5. QED BY <5>3, <5>4 DEF Bit
      <4> DEFINE b == Bit(j, P)
      <4>5. b \in 0 .. 1
        BY <3>1, <4>3, BitRange
      <4> HIDE DEF b
      <4>6. XorBit[<<0, b>>] = b
        BY <4>5 DEF XorBit
      <4>7. QED BY <4>2, <4>4, <4>6 DEF b, BitXor
    <3> HIDE DEF P
    <3>4. BitXor(0, P) \in Word /\ BitXor(0, P) \in Int
      BY <3>1, LogicRange
    <3>5. Low(W64, BitXor(0, P)) = Low(W64, P)
      BY <3>1, <3>3, <3>4, SameBits
    <3>6. BitXor(0, P) = P
      BY <3>1, <3>4, <3>5, LowId DEF Word
    <3>7. QED BY <3>2, <3>6
  <2>4. z = Ones
    BY <1>1, <2>2, <2>3, SameLanes
  <2>5. QED BY <2>4 DEF z
<1>4. QED BY <1>2, <1>3

(* Not equal, of the destination and a source,                              *)
LEMMA CmpNe1 ==
    ASSUME use_sse2, NEW m \in Machines, NEW type \in IntTypes, NEW x, Free(x),
           NEW d \in Regs16 \ x, NEW s \in Regs16
    PROVE  \E n : Does(m, emit_vcmpne1(type, d, s, x), n, d, Not(Eq(Width(type), m.x[d], m.x[s])), x)
<1>1. PICK n : Sets(m, emit_vcmpeq1(type, d, s), n, d, Eq(Width(type), m.x[d], m.x[s]))
  BY CmpEq1
<1>2. Leaves(m, emit_vcmpeq1(type, d, s), n, {d}) /\ n.x[d] = Eq(Width(type), m.x[d], m.x[s])
  <2>1. d \in {d}
    OBVIOUS
  <2>2. QED BY <1>1, <2>1, SetsLeaves
<1>3. {d} \subseteq x \cup {d} /\ x \subseteq x
  OBVIOUS
<1>4. \E p : Does(m, emit_vcmpeq1(type, d, s) \o emit_vbnot(type, d, d, x), p, d,
                  Not(Eq(Width(type), m.x[d], m.x[s])), x)
  BY <1>2, <1>3, Complemented
<1>5. QED BY <1>4 DEF emit_vcmpne1

(* and of two sources.                                                      *)
LEMMA CmpNe ==
    ASSUME use_sse2, NEW m \in Machines, NEW type \in IntTypes, NEW x, Free(x),
           NEW d \in Regs16 \ x, NEW s1 \in Regs16, NEW s2 \in Regs16
    PROVE  \E n : Does(m, emit_vcmpne(type, d, s1, s2, x), n, d, Not(Eq(Width(type), m.x[s1], m.x[s2])), x)
<1> DEFINE w == Width(type)
           s == one_vsrc(d, s1, s2)
           c == emit_one_vsrc(d, s1, s2)
           z == Not(Eq(w, m.x[s1], m.x[s2]))
<1>1. w \in Widths /\ s \in Regs16 /\ m.x[s1] \in Vector /\ m.x[s2] \in Vector
  BY CmpOps, OneSource, Parts16
<1>2. PICK n, a : /\ Sets(m, c, n, d, a)
                  /\ \/ a = m.x[s1] /\ n.x[s] = m.x[s2]
                     \/ a = m.x[s2] /\ n.x[s] = m.x[s1]
  BY OneSource
<1>3. n \in Machines /\ n.x[d] = a
  BY <1>2 DEF Sets, After
<1>4. Leaves(m, c, n, x \cup {d}) /\ x \cup {d} \subseteq x \cup {d} /\ x \subseteq x \cup {d}
  BY <1>2, SetsLeaves
<1> HIDE DEF c
<1>5. CASE s1 = s2
  <2>1. PICK o : Sets(n, emit_vzero(d), o, d, Zero)
    BY <1>3, ClearStep
  <2>2. z = Zero
    BY <1>1, <1>5, Constants, NotConstant DEF Eq
  <2> HIDE DEF z
  <2>3. Sets(m, c \o emit_vzero(d), o, d, z)
    BY <1>2, <2>1, <2>2, SetsAgain
  <2>4. emit_vcmpne(type, d, s1, s2, x) = c \o emit_vzero(d)
    BY <1>5 DEF emit_vcmpne, c
  <2>5. QED BY <2>3, <2>4, SetsDoes DEF z
<1>6. CASE s1 # s2
  <2>1. PICK o : Does(n, emit_vcmpne1(type, d, s, x), o, d, Not(Eq(w, n.x[d], n.x[s])), x)
    BY <1>1, <1>3, CmpNe1
  <2>2. Not(Eq(w, n.x[d], n.x[s])) = z
    <3>1. Eq(w, m.x[s2], m.x[s1]) = Eq(w, m.x[s1], m.x[s2])
      BY <1>1, CmpOps, Commutes DEF Eq
    <3>2. QED BY <1>2, <1>3, <3>1
  <2> HIDE DEF z
  <2>3. Does(n, emit_vcmpne1(type, d, s, x), o, d, z, x)
    BY <2>1, <2>2
  <2>4. Does(m, c \o emit_vcmpne1(type, d, s, x), o, d, z, x)
    BY <1>4, <2>3, DoesThen
  <2>5. emit_vcmpne(type, d, s1, s2, x) = c \o emit_vcmpne1(type, d, s, x)
    BY <1>6 DEF emit_vcmpne, c
  <2>6. QED BY <2>4, <2>5 DEF z
<1>7. QED BY <1>5, <1>6

(* Greater, of two sources.                                                 *)
LEMMA CmpGt ==
    ASSUME use_sse2, NEW m \in Machines, NEW type \in IntTypes, NEW x, Free(x),
           NEW d \in Regs16 \ x, NEW s1 \in Regs16 \ x, NEW s2 \in Regs16 \ x
    PROVE  \E n : Does(m, emit_vcmpgt(type, d, s1, s2, x), n, d, Gt(Width(type), m.x[s1], m.x[s2]), x)
<1> DEFINE w == Width(type)
           z == Gt(w, m.x[s1], m.x[s2])
<1>1. w \in Widths /\ m.x[s1] \in Vector /\ m.x[s2] \in Vector
  BY CmpOps, Parts16
<1>2. CASE d = s1 /\ d = s2
  <2>1. emit_vcmpgt(type, d, s1, s2, x) = emit_vzero(d)
    BY <1>2 DEF emit_vcmpgt
  <2>2. z = Zero
    BY <1>1, <1>2, Constants DEF Gt
  <2>3. \E n : Sets(m, emit_vzero(d), n, d, z)
    BY <2>2, ClearStep
  <2> HIDE DEF z
  <2>4. QED BY <2>1, <2>3, SetsDoes DEF z
<1>3. CASE d = s1 /\ d # s2
  <2>1. emit_vcmpgt(type, d, s1, s2, x) = emit_vcmpgt1(type, d, s2)
    BY <1>3 DEF emit_vcmpgt
  <2>2. \E n : Sets(m, emit_vcmpgt1(type, d, s2), n, d, z)
    BY <1>3, CmpGt1
  <2> HIDE DEF z
  <2>3. QED BY <2>1, <2>2, SetsDoes DEF z
<1>4. CASE d # s1 /\ d = s2
  <2>1. emit_vcmpgt(type, d, s1, s2, x) = emit_vcmplt1(type, d, s1, x)
    BY <1>4 DEF emit_vcmpgt
  <2>2. \E n : Does(m, emit_vcmplt1(type, d, s1, x), n, d, Gt(w, m.x[s1], m.x[d]), x)
    BY <1>4, CmpLt1
  <2>3. QED BY <1>4, <2>1, <2>2
<1>5. CASE d # s1 /\ d # s2
  <2>1. emit_vcmpgt(type, d, s1, s2, x) = emit_vmov(d, s1) \o emit_vcmpgt1(type, d, s2)
    BY <1>5 DEF emit_vcmpgt
  <2>2. PICK n : Sets(m, emit_vmov(d, s1), n, d, m.x[s1])
    BY Move
  <2>3. n \in Machines /\ n.x[d] = m.x[s1] /\ n.x[s2] = m.x[s2]
    BY <1>5, <2>2 DEF Sets, After
  <2>4. PICK o : Sets(n, emit_vcmpgt1(type, d, s2), o, d, Gt(w, n.x[d], n.x[s2]))
    BY <2>3, CmpGt1
  <2>5. Gt(w, n.x[d], n.x[s2]) = z
    BY <2>3
  <2> HIDE DEF z
  <2>6. Sets(m, emit_vmov(d, s1) \o emit_vcmpgt1(type, d, s2), o, d, z)
    BY <2>2, <2>4, <2>5, SetsAgain
  <2>7. QED BY <2>1, <2>6, SetsDoes DEF z
<1>6. QED BY <1>2, <1>3, <1>4, <1>5

(* Greater or equal.                                                        *)
LEMMA CmpGe ==
    ASSUME use_sse2, NEW m \in Machines, NEW type \in IntTypes, NEW x, Free(x), x \ {alloc_(x)} # {},
           NEW d \in Regs16 \ x, NEW s1 \in Regs16 \ x, NEW s2 \in Regs16 \ x
    PROVE  \E n : Does(m, emit_vcmpge(type, d, s1, s2, x), n, d, Not(Gt(Width(type), m.x[s2], m.x[s1])), x)
<1> DEFINE w == Width(type)
           z == Not(Gt(w, m.x[s2], m.x[s1]))
<1>1. w \in Widths /\ m.x[s1] \in Vector /\ m.x[s2] \in Vector
  BY CmpOps, Parts16
<1>a. x \cup {d} \subseteq x \cup {d} /\ x \subseteq x \cup {d} /\ x \subseteq x
  OBVIOUS
<1>2. CASE d = s1 /\ d = s2
  <2>1. emit_vcmpge(type, d, s1, s2, x) = emit_vone(d)
    BY <1>2 DEF emit_vcmpge
  <2>2. z = Ones
    BY <1>1, <1>2, Constants, NotConstant DEF Gt
  <2>3. \E n : Sets(m, emit_vone(d), n, d, z)
    BY <2>2, OneStep
  <2> HIDE DEF z
  <2>4. QED BY <2>1, <2>3, SetsDoes DEF z
<1>3. CASE d = s1 /\ d # s2
  <2>1. emit_vcmpge(type, d, s1, s2, x) = emit_vcmplt1(type, d, s2, x) \o emit_vbnot(type, d, d, x)
    BY <1>3 DEF emit_vcmpge
  <2>2. PICK n : Does(m, emit_vcmplt1(type, d, s2, x), n, d, Gt(w, m.x[s2], m.x[d]), x)
    BY <1>3, CmpLt1
  <2>3. Leaves(m, emit_vcmplt1(type, d, s2, x), n, x \cup {d}) /\ n.x[d] = Gt(w, m.x[s2], m.x[s1])
    BY <1>3, <2>2 DEF Does
  <2>4. \E o : Does(m, emit_vcmplt1(type, d, s2, x) \o emit_vbnot(type, d, d, x), o, d, z, x)
    BY <1>a, <2>3, Complemented
  <2>5. QED BY <2>1, <2>4
<1>4. CASE d # s1 /\ d = s2
  <2>1. emit_vcmpge(type, d, s1, s2, x) = emit_vcmple1(type, d, s1, x)
    BY <1>4 DEF emit_vcmpge
  <2>2. \E n : Does(m, emit_vcmple1(type, d, s1, x), n, d, Not(Gt(w, m.x[d], m.x[s1])), x)
    BY CmpLe1
  <2>3. QED BY <1>4, <2>1, <2>2
<1>5. CASE d # s1 /\ d # s2
  <2>1. PICK n : Sets(m, emit_vmov(d, s2), n, d, m.x[s2])
    BY Move
  <2>2. n \in Machines /\ n.x[d] = m.x[s2] /\ n.x[s1] = m.x[s1]
    BY <1>5, <2>1 DEF Sets, After
  <2>3. PICK o : Sets(n, emit_vcmpgt1(type, d, s1), o, d, Gt(w, n.x[d], n.x[s1]))
    BY <2>2, CmpGt1
  <2>4. Sets(m, emit_vmov(d, s2) \o emit_vcmpgt1(type, d, s1), o, d, Gt(w, m.x[s2], m.x[s1]))
    <3>1. Sets(n, emit_vcmpgt1(type, d, s1), o, d, Gt(w, m.x[s2], m.x[s1]))
      BY <2>2, <2>3
    <3>2. QED BY <2>1, <3>1, SetsAgain
  <2>5. Leaves(m, emit_vmov(d, s2) \o emit_vcmpgt1(type, d, s1), o, x \cup {d}) /\ o.x[d] = Gt(w, m.x[s2], m.x[s1])
    BY <2>4, SetsLeaves
  <2>6. \E p : Does(m, (emit_vmov(d, s2) \o emit_vcmpgt1(type, d, s1)) \o emit_vbnot(type, d, d, x), p, d, z, x)
    BY <1>a, <2>5, Complemented
  <2>7. emit_vcmpge(type, d, s1, s2, x)
        = (emit_vmov(d, s2) \o emit_vcmpgt1(type, d, s1)) \o emit_vbnot(type, d, d, x)
    BY <1>5 DEF emit_vcmpge
  <2>8. QED BY <2>6, <2>7
<1>6. QED BY <1>2, <1>3, <1>4, <1>5

-----------------------------------------------------------------------------
(* A lane and the two lanes of half its width.                              *)
LEMMA TwoDigits ==
    ASSUME NEW E \in Nat \ {0}, NEW B \in Nat \ {0}, NEW x \in Int
    PROVE  /\ Digit(x, E, B * B) % B = Digit(x, E, B)
           /\ Digit(x, E, B * B) \div B = Digit(x, E * B, B)
<1> DEFINE q == x \div E
           r0 == x % E
<1>1. q \in Int /\ r0 \in 0 .. E - 1 /\ x = E * q + r0
  BY ModRange
<1> HIDE DEF q, r0
<1> DEFINE p == q \div B
           s == q % B
<1>2. p \in Int /\ s \in 0 .. B - 1 /\ q = B * p + s
  BY <1>1, ModRange
<1> HIDE DEF p, s
<1> DEFINE u == p \div B
           t == p % B
<1>3. u \in Int /\ t \in 0 .. B - 1 /\ p = B * u + t
  BY <1>2, ModRange
<1> HIDE DEF u, t
<1> DEFINE D == B * t + s
           BB == B * B
<1>4. D \in Int /\ D \in 0 .. BB - 1 /\ BB \in Nat \ {0}
  <2>1. B * t <= B * (B - 1)
    BY <1>3
  <2>2. B * t >= 0
    BY <1>3
  <2>3. B * (B - 1) = B * B - B
    OBVIOUS
  <2>4. B * B \in Nat /\ B * B >= B /\ t \in Int /\ s \in Int /\ B * t \in Int
    BY <1>2, <1>3
  <2>5. QED BY <1>2, <2>1, <2>2, <2>3, <2>4
<1>5. q = BB * u + D
  <2>1. q = B * (B * u + t) + s
    BY <1>2, <1>3
  <2>2. B * (B * u + t) = (B * B) * u + B * t
    BY <1>3
  <2>3. QED BY <1>2, <1>3, <2>1, <2>2
<1> HIDE DEF D, BB
<1>6. q % BB = D
  BY <1>1, <1>3, <1>4, <1>5, ModUnique
<1>7. Digit(x, E, B * B) = D
  BY <1>6 DEF Digit, q, BB
<1>8. D % B = s /\ D \div B = t
  <2>1. D = B * t + s /\ t \in Int
    BY <1>3 DEF D
  <2>2. QED BY <1>2, <1>4, <2>1, ModUnique
<1>9. x \div (E * B) = p
  <2> DEFINE EB == E * B
             rr == E * s + r0
  <2>1. EB \in Nat \ {0}
    OBVIOUS
  <2>2. rr \in 0 .. EB - 1
    <3>1. E * s <= E * (B - 1) /\ E * s >= 0 /\ E * s \in Int
      BY <1>2
    <3>2. E * (B - 1) = E * B - E
      OBVIOUS
    <3>3. QED BY <1>1, <3>1, <3>2
  <2>3. x = EB * p + rr
    <3>1. E * (B * p + s) = (E * B) * p + E * s
      BY <1>2
    <3>2. QED BY <1>1, <1>2, <3>1
  <2> HIDE DEF EB, rr
  <2>4. x \div EB = p
    BY <1>2, <2>1, <2>2, <2>3, ModUnique
  <2>5. QED BY <2>4 DEF EB
<1>10. QED BY <1>7, <1>8, <1>9 DEF Digit, s, t, q

(* Lanes twice as wide.                                                     *)
Twice(w, ww) == w \in Widths /\ ww \in Widths /\ ww = 2 * w

(* Each width of lanes is twice the next smaller one.                       *)
LEMMA Twices == Twice(W8, W16) /\ Twice(W16, W32) /\ Twice(W32, W64)
BY WidthFacts DEF Twice

(* A lane and the two lanes of half its width.                              *)
LEMMA HalfLanes ==
    ASSUME NEW w, NEW ww, Twice(w, ww), NEW x \in Vector, NEW k \in LaneIndex(ww)
    PROVE  /\ 2 * k \in LaneIndex(w) /\ 2 * k + 1 \in LaneIndex(w)
           /\ Lane(w, x, 2 * k) = Low(w, Lane(ww, x, k))
           /\ Lane(w, x, 2 * k + 1) = Lane(ww, x, k) \div 2 ^ w
           /\ Lane(ww, x, k) = Lane(w, x, 2 * k) + 2 ^ w * Lane(w, x, 2 * k + 1)
<1> DEFINE N == PerWord(w)
           M == PerWord(ww)
           B == 2 ^ w
<1>1. /\ w \in Widths /\ ww \in Widths /\ ww = 2 * w
      /\ w \in 0 .. W64 /\ ww \in 0 .. W64 /\ w \in Nat /\ ww \in Nat
  BY WidthFacts DEF Twice
<1>2. M \in Nat \ {0} /\ N = 2 * M
  BY <1>1, PerWords, WidthFacts DEF Widths
<1>3. B \in Nat \ {0} /\ 2 ^ ww = B * B
  <2>1. w + w <= W64 /\ 2 ^ (w + w) = 2 ^ w * 2 ^ w /\ w + w = ww
    BY <1>1, PowerAssumption
  <2>2. 2 ^ w \in Nat \ {0}
    BY <1>1, WidthFacts
  <2>3. QED BY <2>1, <2>2
<1>4. PICK h \in {0, 1} : \E j \in 0 .. M - 1 : k = h * M + j
  BY <1>1, LaneSplit
<1>5. PICK j \in 0 .. M - 1 : k = h * M + j
  BY <1>4
<1>6. 2 * k = h * N + 2 * j /\ 2 * k + 1 = h * N + (2 * j + 1)
  <2>1. CASE h = 0
    BY <1>2, <1>5, <2>1
  <2>2. CASE h = 1
    BY <1>2, <1>5, <2>2
  <2>3. QED BY <2>1, <2>2
<1> DEFINE i == 2 * j
           i1 == 2 * j + 1
<1>7. i \in 0 .. N - 1 /\ i1 \in 0 .. N - 1 /\ i1 \in 1 .. N /\ i \in 0 .. N /\ i1 \in 0 .. N /\ j \in 0 .. M /\ i1 - 1 = i
  BY <1>2
<1> DEFINE E == Place(w)[i]
<1>8. E = Place(ww)[j]
  <2>1. Place(w)[i] = 2 ^ (w * i) /\ Place(ww)[j] = 2 ^ (ww * j)
    BY <1>7 DEF Place
  <2>2. w * i = ww * j
    <3>1. w * (2 * j) = (2 * w) * j
      BY <1>1
    <3>2. QED BY <1>1, <3>1
  <2>3. QED BY <2>1, <2>2
<1>9. E \in Nat \ {0} /\ Place(w)[i1] = E * B
  <2>1. Scale(Place(w), N, B)
    BY <1>1, PlaceScale
  <2> HIDE DEF N, B
  <2>2. QED BY <1>7, <2>1 DEF Scale
<1> HIDE DEF i, i1, E
<1>10. /\ Lane(w, x, h * N + i) = Digit(x[h + 1], E, B)
       /\ Lane(w, x, h * N + i1) = Digit(x[h + 1], E * B, B)
  BY <1>1, <1>7, <1>9, LaneOf DEF E
<1>11. Lane(ww, x, k) = Digit(x[h + 1], E, B * B)
  BY <1>1, <1>3, <1>5, <1>8, LaneOf
<1>12. x[h + 1] \in Int
  BY VectorParts DEF Word
<1> DEFINE X0 == x[h + 1]
           D == Digit(X0, E, B * B)
<1> HIDE DEF X0
<1>13. D % B = Digit(X0, E, B) /\ D \div B = Digit(X0, E * B, B)
  <2>1. X0 \in Int
    BY <1>12 DEF X0
  <2> HIDE DEF B
  <2>2. QED BY <1>3, <1>9, <2>1, TwoDigits
<1>14. Lane(w, x, 2 * k) = D % B /\ Lane(w, x, 2 * k + 1) = D \div B /\ Lane(ww, x, k) = D
  BY <1>6, <1>10, <1>11, <1>13 DEF X0, i, i1
<1>15. D \in Int
  BY <1>1, <1>14, LaneRange
<1> HIDE DEF D, B
<1>16. D = (D % B) + B * (D \div B)
  <2>1. /\ D % B \in 0 .. B - 1
        /\ D \div B \in Int
        /\ D = B * (D \div B) + (D % B)
    BY <1>3, <1>15, ModRange
  <2>2. B * (D \div B) \in Int /\ D % B \in Int
    BY <1>3, <2>1
  <2>3. QED BY <2>1, <2>2
<1>17. 2 * k \in LaneIndex(w) /\ 2 * k + 1 \in LaneIndex(w)
  BY <1>1, <1>6, <1>7, LaneAt DEF i, i1
<1>18. QED BY <1>14, <1>16, <1>17 DEF Low, B

-----------------------------------------------------------------------------
(* The vector whose lanes are all the low part of a number.                 *)
Splat(w, c) == Pack(w, [k \in LaneIndex(w) |-> Low(w, c)])

(* A splat has its number in every lane.                                    *)
LEMMA SplatLanes ==
    ASSUME NEW w \in Widths, NEW c \in Int
    PROVE  /\ Splat(w, c) \in Vector
           /\ \A k \in LaneIndex(w) : Lane(w, Splat(w, c), k) = Low(w, c)
<1> DEFINE L == [k \in LaneIndex(w) |-> Low(w, c)]
<1>1. \A k \in LaneIndex(w) : L[k] \in Values(w) /\ L[k] = Low(w, c)
  BY WidthFacts, LowRange DEF Values
<1> HIDE DEF L
<1>2. /\ Pack(w, L) \in Vector
      /\ \A k \in LaneIndex(w) : Lane(w, Pack(w, L), k) = L[k]
  BY <1>1, PackLanes
<1>3. QED BY <1>1, <1>2 DEF Splat, L

(* The lowest lane is the low part of the first word.                       *)
LEMMA LowestLane ==
    ASSUME NEW w \in Widths, NEW x, x[1] \in Int
    PROVE  0 \in LaneIndex(w) /\ 1 \in LaneIndex(w) /\ Lane(w, x, 0) = Low(w, x[1])
<1> DEFINE N == PerWord(w)
<1>1. N \in Nat \ {0} /\ LaneIndex(w) = 0 .. 2 * N - 1 /\ 2 ^ w \in Nat \ {0}
  BY LaneCount
<1>2. 0 \in {0, 1} /\ 0 \in 0 .. N - 1 /\ 0 * N + 0 = 0 /\ 0 \in 0 .. N
  BY <1>1
<1>3. Lane(w, x, 0 * N + 0) = Digit(x[0 + 1], Place(w)[0], 2 ^ w)
  BY <1>2, LaneOf
<1>4. Place(w)[0] = 1
  BY PlaceScale DEF Scale
<1>5. x[0 + 1] = x[1] /\ x[1] \div 1 = x[1]
  <2>1. x[1] = 1 * x[1] + 0 /\ 0 \in 0 .. 1 - 1 /\ 1 \in Nat \ {0}
    OBVIOUS
  <2>2. x[1] \div 1 = x[1]
    BY <2>1, ModUnique
  <2>3. QED BY <2>2
<1>6. Lane(w, x, 0) = Digit(x[1], 1, 2 ^ w)
  BY <1>2, <1>3, <1>4, <1>5
<1>7. 0 \in LaneIndex(w) /\ 1 \in LaneIndex(w)
  BY <1>1
<1>8. QED BY <1>5, <1>6, <1>7 DEF Digit, Low

-----------------------------------------------------------------------------
(* The code that spreads an immediate.                                      *)
LEMMA DoesAgain ==
    ASSUME NEW m, NEW n, NEW o, NEW s, NEW t, NEW d, NEW a, NEW z, NEW x,
           Does(m, s, n, d, a, x), Sets(n, t, o, d, z)
    PROVE  Does(m, s \o t, o, d, z, x)
<1>1. Leaves(m, s, n, x \cup {d}) /\ x \cup {d} \subseteq x \cup {d} /\ x \subseteq x \cup {d}
  BY DEF Does
<1>2. Does(n, t, o, d, z, x)
  BY SetsDoes
<1>3. QED BY <1>1, <1>2, DoesThen

(* Code of two instructions.                                                *)
LEMMA Pair == \A i, j : << i >> \o << j >> = << i, j >>
<1>1. ASSUME NEW S, NEW s \in Seq(S), NEW t \in Seq(S), Len(s) = 1, Len(t) = 1
      PROVE  s \o t = << s[1], t[1] >>
  <2> DEFINE u == s \o t
  <2>1. u \in Seq(S) /\ Len(u) = 2
    BY <1>1
  <2>2. u[1] = s[1] /\ u[2] = t[1]
    BY <1>1
  <2> HIDE DEF u
  <2>3. u = << s[1], t[1] >>
    BY <2>1, <2>2
  <2>4. QED BY <2>3 DEF u
<1>2. ASSUME NEW i, NEW j
      PROVE  << i >> \o << j >> = << i, j >>
  <2>1. /\ << i >> \in Seq({i, j}) /\ << j >> \in Seq({i, j})
        /\ Len(<< i >>) = 1 /\ Len(<< j >>) = 1 /\ << i >>[1] = i /\ << j >>[1] = j
    OBVIOUS
  <2>2. << i >> \o << j >> = << << i >>[1], << j >>[1] >>
    BY <1>1, <2>1
  <2>3. QED BY <2>1, <2>2
<1>3. QED BY <1>2

(* The immediate moved by way of a scalar register to the first lane,       *)
LEMMA MoveImmediate ==
    ASSUME use_sse2, NEW m \in Machines, NEW w \in Widths, NEW d \in Regs16, NEW c \in Int
    PROVE  \E n : Does(m, << VInstr("movimm", w, T0, T0, I(c), FALSE),
                             VInstr("toxmm", w, d, d, I(T0), FALSE) >>, n, d, << Low(w, c), 0 >>, {})
<1>1. T0 \in Regs16 /\ T0 \in {13, 14}
  BY Temporaries, Parts16
<1>2. PICK n : Loads(m, << VInstr("movimm", w, T0, T0, I(c), FALSE) >>, n, T0, Low(w, c))
  BY <1>1, ImmediateStep
<1>3. Leaves(m, << VInstr("movimm", w, T0, T0, I(c), FALSE) >>, n, {}) /\ n.g[T0] = Low(w, c)
  BY <1>1, <1>2, LoadsLeaves DEF Loads
<1>4. n \in Machines
  BY <1>3, LeavesTyped
<1>5. PICK o : Sets(n, << VInstr("toxmm", w, d, d, I(T0), FALSE) >>, o, d, << Low(w, n.g[T0]), 0 >>)
  BY <1>1, <1>4, ToXmmStep
<1>6. Low(w, n.g[T0]) = Low(w, c)
  <2>1. w \in 0 .. W64 /\ w \in 0 .. w
    BY WidthFacts
  <2>2. Low(w, Low(w, c)) = Low(w, c)
    BY <2>1, LowOfLow
  <2>3. QED BY <1>3, <2>2
<1>7. Does(n, << VInstr("toxmm", w, d, d, I(T0), FALSE) >>, o, d, << Low(w, c), 0 >>, {})
  BY <1>5, <1>6, SetsDoes
<1>8. Does(m, << VInstr("movimm", w, T0, T0, I(c), FALSE) >>
              \o << VInstr("toxmm", w, d, d, I(T0), FALSE) >>, o, d, << Low(w, c), 0 >>, {})
  BY <1>3, <1>7, DoesThen
<1>9. QED BY <1>8, Pair

(* The first lane twice, and the first lane everywhere.                     *)
Doubled(w, a) == Unpack(w, a, a, 0)
Spread(a) == ExecVector("pshufd", W32, a, a)

(* doubled,                                                                 *)
LEMMA DoubleStep ==
    ASSUME use_sse2, NEW m \in Machines, NEW w \in Widths, NEW d \in Regs16
    PROVE  \E n : Sets(m, Legacy("punpckl", w, d, X(d)), n, d, Doubled(w, m.x[d]))
<1>1. "punpckl" \in VectorOps /\ PlainUse("punpckl", w) /\ m.x[d] \in Vector
  BY Parts16 DEF VectorOps, PlainUse
<1>2. ExecVector("punpckl", w, m.x[d], m.x[d]) = Doubled(w, m.x[d])
  BY <1>1, WordMoves DEF Doubled
<1>3. QED BY <1>1, <1>2, LegacyStep

(* and spread.                                                              *)
LEMMA SpreadStep ==
    ASSUME use_sse2, NEW m \in Machines, NEW d \in Regs16
    PROVE  \E n : Sets(m, Legacy("pshufd", W32, d, X(d)), n, d, Spread(m.x[d]))
<1>1. "pshufd" \in VectorOps /\ PlainUse("pshufd", W32) /\ W32 \in Widths
  BY WidthFacts DEF VectorOps, PlainUse
<1>2. QED BY <1>1, LegacyStep DEF Spread

(* The first lanes of a vector unpacked with itself.                        *)
LEMMA DoubledLanes ==
    ASSUME NEW w \in Widths, NEW a \in Vector
    PROVE  /\ Doubled(w, a) \in Vector
           /\ Lane(w, Doubled(w, a), 0) = Lane(w, a, 0)
           /\ Lane(w, Doubled(w, a), 1) = Lane(w, a, 0)
<1>1. 0 \in {0, PerWord(w)} /\ 0 \in LaneIndex(w) /\ 1 \in LaneIndex(w)
  BY LowestLane, VectorParts
<1>2. /\ Unpack(w, a, a, 0) \in Vector
      /\ \A k \in LaneIndex(w) :
             Lane(w, Unpack(w, a, a, 0), k) = Lane(w, IF k % 2 = 0 THEN a ELSE a, 0 + k \div 2)
  BY <1>1, UnpackLanes
<1>3. 0 + 0 \div 2 = 0 /\ 0 + 1 \div 2 = 0
  OBVIOUS
<1>4. Lane(w, Unpack(w, a, a, 0), 0) = Lane(w, a, 0) /\ Lane(w, Unpack(w, a, a, 0), 1) = Lane(w, a, 0)
  BY <1>1, <1>2, <1>3
<1>5. QED BY <1>2, <1>4 DEF Doubled

(* Vectors whose lanes are all equal: at half the width.                    *)
LEMMA SplatHalves ==
    ASSUME NEW w, NEW u, Twice(w, u), NEW x \in Vector, NEW c,
           \A k \in LaneIndex(u) : Low(w, Lane(u, x, k)) = c /\ Lane(u, x, k) \div 2 ^ w = c
    PROVE  \A k \in LaneIndex(w) : Lane(w, x, k) = c
<1>1. PerWord(w) = 2 * PerWord(u) /\ PerWord(u) \in Nat \ {0} /\ w \in Widths /\ u \in Widths
  BY PerWords, WidthFacts DEF Widths, Twice
<1>2. LaneIndex(w) = 0 .. 2 * PerWord(w) - 1 /\ LaneIndex(u) = 0 .. 2 * PerWord(u) - 1
  BY DEF LaneIndex
<1>3. SUFFICES ASSUME NEW k \in LaneIndex(w)
               PROVE  Lane(w, x, k) = c
  OBVIOUS
<1>4. \E j \in LaneIndex(u) : k = 2 * j \/ k = 2 * j + 1
  <2>1. k \in Int /\ 2 \in Nat \ {0}
    BY <1>1, <1>2
  <2> DEFINE j == k \div 2
             i == k % 2
  <2>2. i \in 0 .. 2 - 1 /\ j \in Int /\ k = 2 * j + i
    BY <2>1, ModRange
  <2> HIDE DEF i, j
  <2>3. QED BY <1>1, <1>2, <2>2
<1>5. PICK j \in LaneIndex(u) : k = 2 * j \/ k = 2 * j + 1
  BY <1>4
<1>6. Lane(w, x, 2 * j) = Low(w, Lane(u, x, j)) /\ Lane(w, x, 2 * j + 1) = Lane(u, x, j) \div 2 ^ w
  BY HalfLanes
<1>7. QED BY <1>5, <1>6

(* What the pieces of emit_vmovi make of the immediate.                     *)
LEMMA SpreadWords ==
    ASSUME NEW y \in Vector, NEW q, Lane(W16, y, 0) = q, Lane(W16, y, 1) = q
    PROVE  Spread(y) \in Vector /\ \A k \in LaneIndex(W16) : Lane(W16, Spread(y), k) = q
<1> DEFINE z == Spread(y)
<1>1. z \in Vector /\ \A k \in LaneIndex(W32) : Lane(W32, z, k) = Lane(W32, y, 0)
  BY PshufdLanes DEF Spread
<1> HIDE DEF z
<1>2. 0 \in LaneIndex(W32)
  BY LaneIndices
<1>3. /\ Lane(W16, y, 2 * 0) = Low(W16, Lane(W32, y, 0))
      /\ Lane(W16, y, 2 * 0 + 1) = Lane(W32, y, 0) \div 2 ^ W16
  BY <1>2, Twices, HalfLanes
<1>4. \A k \in LaneIndex(W32) : Low(W16, Lane(W32, z, k)) = q /\ Lane(W32, z, k) \div 2 ^ W16 = q
  BY <1>1, <1>3
<1>5. \A k \in LaneIndex(W16) : Lane(W16, z, k) = q
  BY <1>1, <1>4, Twices, SplatHalves
<1>6. QED BY <1>1, <1>5 DEF z

(* A number moved into a vector: its first lane of any narrower width.      *)
LEMMA MovedLane ==
    ASSUME NEW u \in Widths, NEW w \in Widths, w <= u, NEW c \in Int
    PROVE  /\ << Low(u, c), 0 >> \in Vector
           /\ Lane(w, << Low(u, c), 0 >>, 0) = Low(w, c)
<1>1. u \in 0 .. W64 /\ w \in 0 .. u /\ w \in 0 .. W64
  BY WidthFacts
<1>2. Low(u, c) \in Word /\ Low(u, c) \in Int /\ Low(w, Low(u, c)) = Low(w, c)
  BY <1>1, LowRange, LowOfLow
<1>3. 0 \in Word
  BY Power DEF Word
<1> DEFINE a == << Low(u, c), 0 >>
<1>4. a \in Vector /\ a[1] = Low(u, c)
  BY <1>2, <1>3 DEF Vector
<1> HIDE DEF a
<1>5. Lane(w, a, 0) = Low(w, a[1])
  <2>1. a[1] \in Int
    BY <1>2, <1>4
  <2>2. QED BY <2>1, LowestLane
<1>6. QED BY <1>2, <1>4, <1>5 DEF a

(* Moving, doubling and spreading makes the splat of each width.            *)
LEMMA MadeSplat ==
    ASSUME NEW c \in Int
    PROVE  /\ Doubled(W64, << Low(W64, c), 0 >>) = Splat(W64, c)
           /\ Spread(<< Low(W32, c), 0 >>) = Splat(W32, c)
           /\ Spread(Doubled(W16, << Low(W32, c), 0 >>)) = Splat(W16, c)
           /\ Spread(Doubled(W16, Doubled(W8, << Low(W32, c), 0 >>))) = Splat(W8, c)
<1> DEFINE a == << Low(W32, c), 0 >>
           b == << Low(W64, c), 0 >>
<1>1. /\ W8 \in Widths /\ W16 \in Widths /\ W32 \in Widths /\ W64 \in Widths
      /\ W8 <= W32 /\ W16 <= W32 /\ W32 <= W32 /\ W64 <= W64
  BY WidthFacts
<1>2. a \in Vector /\ Lane(W32, a, 0) = Low(W32, c)
  BY <1>1, MovedLane
<1>3. Lane(W16, a, 0) = Low(W16, c) /\ Lane(W8, a, 0) = Low(W8, c)
  BY <1>1, MovedLane
<1>4. b \in Vector /\ Lane(W64, b, 0) = Low(W64, c)
  BY <1>1, MovedLane
<1> HIDE DEF a, b
<1>5. Doubled(W64, b) = Splat(W64, c)
  <2> DEFINE y == Doubled(W64, b)
             z == Splat(W64, c)
  <2>1. y \in Vector /\ Lane(W64, y, 0) = Low(W64, c) /\ Lane(W64, y, 1) = Low(W64, c)
    BY <1>1, <1>4, DoubledLanes
  <2>2. z \in Vector /\ \A k \in LaneIndex(W64) : Lane(W64, z, k) = Low(W64, c)
    BY <1>1, SplatLanes
  <2> HIDE DEF y, z
  <2>3. \A k \in LaneIndex(W64) : k = 0 \/ k = 1
    BY PerWords DEF LaneIndex
  <2>4. \A k \in LaneIndex(W64) : Lane(W64, y, k) = Lane(W64, z, k)
    BY <2>1, <2>2, <2>3
  <2>5. y = z
    BY <1>1, <2>1, <2>2, <2>4, SameLanes
  <2>6. QED BY <2>5 DEF y, z
<1>6. Spread(a) = Splat(W32, c)
  <2> DEFINE y == Spread(a)
             z == Splat(W32, c)
  <2>1. y \in Vector /\ \A k \in LaneIndex(W32) : Lane(W32, y, k) = Lane(W32, a, 0)
    BY <1>2, PshufdLanes DEF Spread
  <2>2. z \in Vector /\ \A k \in LaneIndex(W32) : Lane(W32, z, k) = Low(W32, c)
    BY <1>1, SplatLanes
  <2> HIDE DEF y, z
  <2>3. \A k \in LaneIndex(W32) : Lane(W32, y, k) = Lane(W32, z, k)
    BY <1>2, <2>1, <2>2
  <2>4. y = z
    BY <1>1, <2>1, <2>2, <2>3, SameLanes
  <2>5. QED BY <2>4 DEF y, z
<1>7. Spread(Doubled(W16, a)) = Splat(W16, c)
  <2> DEFINE e == Doubled(W16, a)
             y == Spread(e)
             z == Splat(W16, c)
  <2>1. e \in Vector /\ Lane(W16, e, 0) = Low(W16, c) /\ Lane(W16, e, 1) = Low(W16, c)
    BY <1>1, <1>2, <1>3, DoubledLanes
  <2> HIDE DEF e
  <2>2. y \in Vector /\ \A k \in LaneIndex(W16) : Lane(W16, y, k) = Low(W16, c)
    BY <2>1, SpreadWords
  <2>3. z \in Vector /\ \A k \in LaneIndex(W16) : Lane(W16, z, k) = Low(W16, c)
    BY <1>1, SplatLanes
  <2> HIDE DEF y, z
  <2>4. \A k \in LaneIndex(W16) : Lane(W16, y, k) = Lane(W16, z, k)
    BY <2>2, <2>3
  <2>5. y = z
    BY <1>1, <2>2, <2>3, <2>4, SameLanes
  <2>6. QED BY <2>5 DEF y, z, e
<1>8. Spread(Doubled(W16, Doubled(W8, a))) = Splat(W8, c)
  <2> DEFINE e == Doubled(W8, a)
             f == Doubled(W16, e)
             y == Spread(f)
             z == Splat(W8, c)
             q == Lane(W16, e, 0)
  <2>1. e \in Vector /\ Lane(W8, e, 0) = Low(W8, c) /\ Lane(W8, e, 1) = Low(W8, c)
    BY <1>1, <1>2, <1>3, DoubledLanes
  <2>2. 0 \in LaneIndex(W16)
    BY <1>1, <1>2, LowestLane, VectorParts
  <2> HIDE DEF e
  <2>3. /\ Lane(W8, e, 2 * 0) = Low(W8, Lane(W16, e, 0))
        /\ Lane(W8, e, 2 * 0 + 1) = Lane(W16, e, 0) \div 2 ^ W8
    BY <2>1, <2>2, Twices, HalfLanes
  <2>4. f \in Vector /\ Lane(W16, f, 0) = q /\ Lane(W16, f, 1) = q
    BY <1>1, <2>1, DoubledLanes
  <2>5. Low(W8, q) = Low(W8, c) /\ q \div 2 ^ W8 = Low(W8, c)
    BY <2>1, <2>3
  <2> HIDE DEF f, q
  <2>6. y \in Vector /\ \A k \in LaneIndex(W16) : Lane(W16, y, k) = q
    BY <2>4, SpreadWords
  <2> HIDE DEF y
  <2>7. \A k \in LaneIndex(W8) : Lane(W8, y, k) = Low(W8, c)
    <3> DEFINE g == Low(W8, c)
    <3>1. \A k \in LaneIndex(W16) : Low(W8, Lane(W16, y, k)) = g /\ Lane(W16, y, k) \div 2 ^ W8 = g
      BY <2>5, <2>6
    <3> HIDE DEF g
    <3>2. \A k \in LaneIndex(W8) : Lane(W8, y, k) = g
      BY <2>6, <3>1, Twices, SplatHalves
    <3>3. QED BY <3>2 DEF g
  <2>8. z \in Vector /\ \A k \in LaneIndex(W8) : Lane(W8, z, k) = Low(W8, c)
    BY <1>1, SplatLanes
  <2> HIDE DEF z
  <2>9. \A k \in LaneIndex(W8) : Lane(W8, y, k) = Lane(W8, z, k)
    BY <2>7, <2>8
  <2>10. y = z
    BY <1>1, <2>6, <2>8, <2>9, SameLanes
  <2>11. QED BY <2>10 DEF y, z, f, e
<1>9. QED BY <1>5, <1>6, <1>7, <1>8 DEF a, b

(* An immediate in every lane.                                              *)
LEMMA MovImmediate ==
    ASSUME use_sse2, NEW m \in Machines, NEW type \in IntTypes, NEW d \in Regs16, NEW c \in Int
    PROVE  \E n : Does(m, emit_vmovi(type, d, c), n, d, Splat(Width(type), c), {})
<1> DEFINE move(w) == << VInstr("movimm", w, T0, T0, I(c), FALSE),
                         VInstr("toxmm", w, d, d, I(T0), FALSE) >>
           double(w) == Legacy("punpckl", w, d, X(d))
           spread == Legacy("pshufd", W32, d, X(d))
<1>1. \A w \in Widths : \E n : Does(m, move(w), n, d, << Low(w, c), 0 >>, {})
  BY MoveImmediate
<1>2. ASSUME NEW s, NEW n, NEW a, Does(m, s, n, d, a, {}), NEW w \in Widths
      PROVE  \E o : Does(m, s \o double(w), o, d, Doubled(w, a), {})
  <2>1. n \in Machines /\ n.x[d] = a
    BY <1>2, LeavesTyped DEF Does
  <2>2. PICK o : Sets(n, double(w), o, d, Doubled(w, n.x[d]))
    BY <2>1, DoubleStep
  <2> HIDE DEF double
  <2>3. Sets(n, double(w), o, d, Doubled(w, a))
    BY <2>1, <2>2
  <2>4. QED BY <1>2, <2>3, DoesAgain
<1>3. ASSUME NEW s, NEW n, NEW a, Does(m, s, n, d, a, {})
      PROVE  \E o : Does(m, s \o spread, o, d, Spread(a), {})
  <2>1. n \in Machines /\ n.x[d] = a
    BY <1>3, LeavesTyped DEF Does
  <2>2. PICK o : Sets(n, spread, o, d, Spread(n.x[d]))
    BY <2>1, SpreadStep
  <2> HIDE DEF spread
  <2>3. Sets(n, spread, o, d, Spread(a))
    BY <2>1, <2>2
  <2>4. QED BY <1>3, <2>3, DoesAgain
<1>4. /\ Width(type) = W8 => emit_vmovi(type, d, c) = move(W32) \o double(W8) \o double(W16) \o spread
      /\ Width(type) = W16 => emit_vmovi(type, d, c) = move(W32) \o double(W16) \o spread
      /\ Width(type) = W32 => emit_vmovi(type, d, c) = move(W32) \o spread
      /\ Width(type) = W64 => emit_vmovi(type, d, c) = move(W64) \o double(W64)
      /\ Width(type) \in Widths
  <2>1. W8 # W16 /\ W8 # W32 /\ W8 # W64 /\ W16 # W32 /\ W16 # W64 /\ W32 # W64
    BY WidthFacts
  <2>2. Width(type) \in Widths
    BY WidthsInRange
  <2>3. ASSUME Width(type) = W8
        PROVE  emit_vmovi(type, d, c) = move(W32) \o double(W8) \o double(W16) \o spread
    BY <2>1, <2>3 DEF emit_vmovi
  <2>4. ASSUME Width(type) = W16
        PROVE  emit_vmovi(type, d, c) = move(W32) \o double(W16) \o spread
    BY <2>1, <2>4 DEF emit_vmovi
  <2>5. ASSUME Width(type) = W32
        PROVE  emit_vmovi(type, d, c) = move(W32) \o spread
    BY <2>1, <2>5 DEF emit_vmovi
  <2>6. ASSUME Width(type) = W64
        PROVE  emit_vmovi(type, d, c) = move(W64) \o double(W64)
    BY <2>1, <2>6 DEF emit_vmovi
  <2>7. QED BY <2>2, <2>3, <2>4, <2>5, <2>6
<1> HIDE DEF move, double, spread
<1>5. W8 \in Widths /\ W16 \in Widths /\ W32 \in Widths /\ W64 \in Widths
  BY WidthFacts
<1>6. CASE Width(type) = W64
  BY <1>1, <1>2, <1>4, <1>5, <1>6, MadeSplat
<1>7. CASE Width(type) = W32
  BY <1>1, <1>3, <1>4, <1>5, <1>7, MadeSplat
<1>8. CASE Width(type) = W16
  <2>1. PICK n1 : Does(m, move(W32), n1, d, << Low(W32, c), 0 >>, {})
    BY <1>1, <1>5
  <2>2. PICK n2 : Does(m, move(W32) \o double(W16), n2, d, Doubled(W16, << Low(W32, c), 0 >>), {})
    BY <1>2, <1>5, <2>1
  <2>3. \E n3 : Does(m, move(W32) \o double(W16) \o spread, n3, d,
                     Spread(Doubled(W16, << Low(W32, c), 0 >>)), {})
    BY <1>3, <2>2
  <2>4. QED BY <1>4, <1>8, <2>3, MadeSplat
<1>9. CASE Width(type) = W8
  <2>1. PICK n1 : Does(m, move(W32), n1, d, << Low(W32, c), 0 >>, {})
    BY <1>1, <1>5
  <2>2. PICK n2 : Does(m, move(W32) \o double(W8), n2, d, Doubled(W8, << Low(W32, c), 0 >>), {})
    BY <1>2, <1>5, <2>1
  <2>3. PICK n3 : Does(m, move(W32) \o double(W8) \o double(W16), n3, d,
                       Doubled(W16, Doubled(W8, << Low(W32, c), 0 >>)), {})
    BY <1>2, <1>5, <2>2
  <2>4. \E n4 : Does(m, move(W32) \o double(W8) \o double(W16) \o spread, n4, d,
                     Spread(Doubled(W16, Doubled(W8, << Low(W32, c), 0 >>))), {})
    BY <1>3, <2>3
  <2>5. QED BY <1>4, <1>9, <2>4, MadeSplat
<1>10. QED BY <1>4, <1>6, <1>7, <1>8, <1>9 DEF Widths

-----------------------------------------------------------------------------
(* Code for an operand that is put in a temporary first.                    *)
LEMMA ImmediateFirst ==
    ASSUME use_sse2, NEW m \in Machines, NEW type \in IntTypes, NEW x, Free(x),
           NEW s \in Regs16 \ x, NEW c \in Int
    PROVE  /\ alloc_(x) \in Regs16 \ but_one(x) /\ but_one(x) \subseteq x
           /\ s \in Regs16 \ but_one(x) /\ but_one(x) \in SUBSET X_FREE
           /\ \E n : /\ n \in Machines /\ Leaves(m, immediate(type, c, x), n, x)
                     /\ n.x[alloc_(x)] = Splat(Width(type), c) /\ n.x[s] = m.x[s]
<1> DEFINE t == alloc_(x)
<1>1. t \in x /\ t \in Regs16 /\ x \ {t} \in SUBSET X_FREE
  BY Temporaries DEF Free
<1>2. but_one(x) = x \ {t} /\ immediate(type, c, x) = emit_vmovi(type, t, c)
  BY DEF but_one, immediate
<1> HIDE DEF t
<1>3. PICK n : Does(m, emit_vmovi(type, t, c), n, t, Splat(Width(type), c), {})
  BY <1>1, MovImmediate
<1>4. Leaves(m, emit_vmovi(type, t, c), n, x) /\ n.x[t] = Splat(Width(type), c)
  <2>1. Leaves(m, emit_vmovi(type, t, c), n, {} \cup {t}) /\ n.x[t] = Splat(Width(type), c)
    BY <1>3 DEF Does
  <2>2. {} \cup {t} \subseteq x
    BY <1>1
  <2>3. QED BY <2>1, <2>2, LeavesMore
<1>5. n \in Machines /\ n.x[s] = m.x[s]
  BY <1>4, LeavesTyped DEF Leaves
<1>6. QED BY <1>1, <1>2, <1>4, <1>5 DEF t

(* Operations with the two orders of their operands.                        *)
LEMMA RSub ==
    ASSUME use_sse2, NEW m \in Machines, NEW type \in IntTypes, NEW x, Free(x),
           NEW d \in Regs16 \ x, NEW s1 \in Regs16 \ x, NEW s2 \in Regs16 \ x
    PROVE  \E n : Does(m, emit_vrsub(type, d, s1, s2, x), n, d,
                       ExecVector("psub", Width(type), m.x[s2], m.x[s1]), x)
BY Sub DEF emit_vrsub

(* Less, of two sources,                                                    *)
LEMMA CmpLt ==
    ASSUME use_sse2, NEW m \in Machines, NEW type \in IntTypes, NEW x, Free(x),
           NEW d \in Regs16 \ x, NEW s1 \in Regs16 \ x, NEW s2 \in Regs16 \ x
    PROVE  \E n : Does(m, emit_vcmplt(type, d, s1, s2, x), n, d, Gt(Width(type), m.x[s2], m.x[s1]), x)
BY CmpGt DEF emit_vcmplt

(* and less or equal.                                                       *)
LEMMA CmpLe ==
    ASSUME use_sse2, NEW m \in Machines, NEW type \in IntTypes, NEW x, Free(x), x \ {alloc_(x)} # {},
           NEW d \in Regs16 \ x, NEW s1 \in Regs16 \ x, NEW s2 \in Regs16 \ x
    PROVE  \E n : Does(m, emit_vcmple(type, d, s1, s2, x), n, d, Not(Gt(Width(type), m.x[s1], m.x[s2])), x)
BY CmpGe DEF emit_vcmple

-----------------------------------------------------------------------------
(* Operations with an immediate.                                            *)
LEMMA ImmediateThen ==
    ASSUME NEW m, NEW n, NEW x, NEW d, NEW s, NEW t, NEW z, NEW o,
           Leaves(m, s, n, x), Does(n, t, o, d, z, but_one(x)), but_one(x) \subseteq x
    PROVE  Does(m, s \o t, o, d, z, x)
<1>1. x \subseteq x \cup {d} /\ but_one(x) \subseteq x \cup {d}
  OBVIOUS
<1>2. QED BY <1>1, DoesThen

(* Addition of an immediate,                                                *)
LEMMA AddImmediate ==
    ASSUME use_sse2, NEW m \in Machines, NEW type \in IntTypes, NEW x, Free(x),
           NEW d \in Regs16 \ x, NEW s \in Regs16 \ x, NEW c \in Int
    PROVE  \E n : Does(m, emit_vaddi(type, d, s, c, x), n, d,
                       ExecVector("padd", Width(type), m.x[s], Splat(Width(type), c)), x)
<1>1. alloc_(x) \in Regs16 /\ but_one(x) \subseteq x
  BY ImmediateFirst
<1>2. PICK n : /\ n \in Machines /\ Leaves(m, immediate(type, c, x), n, x)
               /\ n.x[alloc_(x)] = Splat(Width(type), c) /\ n.x[s] = m.x[s]
  BY ImmediateFirst
<1>3. PICK o : Does(n, emit_vadd(type, d, s, alloc_(x), but_one(x)), o, d,
                    ExecVector("padd", Width(type), n.x[s], n.x[alloc_(x)]), but_one(x))
  BY <1>1, <1>2, Add
<1>4. Does(m, immediate(type, c, x) \o emit_vadd(type, d, s, alloc_(x), but_one(x)), o, d,
           ExecVector("padd", Width(type), n.x[s], n.x[alloc_(x)]), x)
  BY <1>1, <1>2, <1>3, ImmediateThen
<1>5. QED BY <1>2, <1>4 DEF emit_vaddi

(* its subtraction,                                                         *)
LEMMA SubImmediate ==
    ASSUME use_sse2, NEW m \in Machines, NEW type \in IntTypes, NEW x, Free(x), but_one(x) # {},
           NEW d \in Regs16 \ x, NEW s \in Regs16 \ x, NEW c \in Int
    PROVE  \E n : Does(m, emit_vsubi(type, d, s, c, x), n, d,
                       ExecVector("psub", Width(type), m.x[s], Splat(Width(type), c)), x)
<1>1. /\ alloc_(x) \in Regs16 /\ but_one(x) \subseteq x /\ Free(but_one(x))
      /\ d \in Regs16 \ but_one(x) /\ s \in Regs16 \ but_one(x)
  BY ImmediateFirst DEF Free
<1>2. PICK n : /\ n \in Machines /\ Leaves(m, immediate(type, c, x), n, x)
               /\ n.x[alloc_(x)] = Splat(Width(type), c) /\ n.x[s] = m.x[s]
  BY ImmediateFirst
<1>3. PICK o : Does(n, emit_vsub(type, d, s, alloc_(x), but_one(x)), o, d,
                    ExecVector("psub", Width(type), n.x[s], n.x[alloc_(x)]), but_one(x))
  BY <1>1, <1>2, Sub
<1>4. Does(m, immediate(type, c, x) \o emit_vsub(type, d, s, alloc_(x), but_one(x)), o, d,
           ExecVector("psub", Width(type), n.x[s], n.x[alloc_(x)]), x)
  BY <1>1, <1>2, <1>3, ImmediateThen
<1>5. QED BY <1>2, <1>4 DEF emit_vsubi

(* subtraction from it,                                                     *)
LEMMA RSubImmediate ==
    ASSUME use_sse2, NEW m \in Machines, NEW type \in IntTypes, NEW x, Free(x),
           NEW d \in Regs16 \ x, NEW s \in Regs16 \ x, NEW c \in Int
    PROVE  \E n : Does(m, emit_vrsubi(type, d, s, c, x), n, d,
                       ExecVector("psub", Width(type), Splat(Width(type), c), m.x[s]), x)
<1> DEFINE w == Width(type)
           z == Splat(w, c)
<1>1. w \in Widths /\ m.x[s] \in Vector /\ z \in Vector
  BY WidthsInRange, Parts16, SplatLanes
<1>2. PICK n : Does(m, emit_vneg(type, d, s, x), n, d, Negated(w, m.x[s]), x)
  BY Neg
<1>3. n \in Machines /\ n.x[d] = Negated(w, m.x[s]) /\ n.x[d] \in Vector
  <2>1. n \in Machines /\ n.x[d] = Negated(w, m.x[s])
    BY <1>2, LeavesTyped DEF Does
  <2>2. QED BY <2>1, Parts16
<1>4. PICK o : Does(n, emit_vaddi(type, d, d, c, x), o, d, ExecVector("padd", w, n.x[d], z), x)
  BY <1>3, AddImmediate
<1> HIDE DEF w, z
<1>5. ExecVector("padd", w, n.x[d], z) = ExecVector("psub", w, z, m.x[s])
  <2>1. "padd" \in EitherOrder /\ PlainUse("padd", w)
    BY DEF EitherOrder, PlainUse
  <2>2. ExecVector("padd", w, n.x[d], z) = ExecVector("padd", w, z, n.x[d])
    BY <1>1, <1>3, <2>1, Commutes
  <2>3. ExecVector("padd", w, z, Negated(w, m.x[s])) = ExecVector("psub", w, z, m.x[s])
    BY <1>1, AddNegated
  <2>4. QED BY <1>3, <2>2, <2>3
<1>6. Leaves(m, emit_vneg(type, d, s, x), n, x \cup {d}) /\ x \cup {d} \subseteq x \cup {d} /\ x \subseteq x \cup {d}
  BY <1>2 DEF Does
<1>7. Does(n, emit_vaddi(type, d, d, c, x), o, d, ExecVector("psub", w, z, m.x[s]), x)
  BY <1>4, <1>5
<1>8. Does(m, emit_vneg(type, d, s, x) \o emit_vaddi(type, d, d, c, x), o, d,
           ExecVector("psub", w, z, m.x[s]), x)
  BY <1>6, <1>7, DoesThen
<1>9. QED BY <1>8 DEF emit_vrsubi, w, z

(* The bitwise ones.                                                        *)
LEMMA LogicImmediate ==
    ASSUME use_sse2, NEW m \in Machines, NEW op \in Logic, NEW name, NEW type \in IntTypes, NEW x, Free(x),
           NEW d \in Regs16 \ x, NEW s \in Regs16 \ x, NEW c \in Int
    PROVE  \E n : Does(m, immediate(type, c, x) \o WholeVector(op, name, type, d, s, alloc_(x)), n, d,
                       ExecVector(op, W64, m.x[s], Splat(Width(type), c)), x)
<1>1. alloc_(x) \in Regs16 /\ but_one(x) \subseteq x
  BY ImmediateFirst
<1>2. PICK n : /\ n \in Machines /\ Leaves(m, immediate(type, c, x), n, x)
               /\ n.x[alloc_(x)] = Splat(Width(type), c) /\ n.x[s] = m.x[s]
  BY ImmediateFirst
<1>3. PICK o : Does(n, WholeVector(op, name, type, d, s, alloc_(x)), o, d,
                    ExecVector(op, W64, n.x[s], n.x[alloc_(x)]), but_one(x))
  BY <1>1, <1>2, Whole
<1>4. Does(m, immediate(type, c, x) \o WholeVector(op, name, type, d, s, alloc_(x)), o, d,
           ExecVector(op, W64, n.x[s], n.x[alloc_(x)]), x)
  BY <1>1, <1>2, <1>3, ImmediateThen
<1>5. QED BY <1>2, <1>4

(* and bandn with it.                                                       *)
LEMMA BAndNImmediate ==
    ASSUME use_sse2, NEW m \in Machines, NEW type \in IntTypes, NEW x, Free(x), but_one(x) # {},
           but_one(but_one(x)) # {},
           NEW d \in Regs16 \ x, NEW s \in Regs16 \ x, NEW c \in Int
    PROVE  \E n : Does(m, emit_vbandni(type, d, s, c, x), n, d,
                       ExecVector("pand", W64, Not(m.x[s]), Splat(Width(type), c)), x)
<1> DEFINE y == but_one(x)
<1>1. /\ alloc_(x) \in Regs16 \ y /\ y \subseteq x /\ Free(y)
      /\ d \in Regs16 \ y /\ s \in Regs16 \ y
  BY ImmediateFirst DEF Free
<1>2. y \ {alloc_(y)} # {}
  BY DEF but_one
<1>3. PICK n : /\ n \in Machines /\ Leaves(m, immediate(type, c, x), n, x)
               /\ n.x[alloc_(x)] = Splat(Width(type), c) /\ n.x[s] = m.x[s]
  BY ImmediateFirst
<1> HIDE DEF y
<1>4. PICK o : Does(n, emit_vbandn(type, d, s, alloc_(x), y), o, d,
                    ExecVector("pand", W64, Not(n.x[s]), n.x[alloc_(x)]), y)
  BY <1>1, <1>2, <1>3, BAndN
<1>5. Does(m, immediate(type, c, x) \o emit_vbandn(type, d, s, alloc_(x), y), o, d,
           ExecVector("pand", W64, Not(n.x[s]), n.x[alloc_(x)]), x)
  BY <1>1, <1>3, <1>4, ImmediateThen DEF y
<1>6. QED BY <1>3, <1>5 DEF emit_vbandni, y

(* Comparisons with an immediate.                                           *)
LEMMA CompareImmediates ==
    ASSUME use_sse2, NEW m \in Machines, NEW type \in IntTypes, NEW x, Free(x), but_one(x) # {},
           but_one(but_one(x)) # {},
           NEW d \in Regs16 \ x, NEW s \in Regs16 \ x, NEW c \in Int
    PROVE  LET w == Width(type)
               a == m.x[s]
               b == Splat(w, c)
           IN  /\ \E n : Does(m, emit_vcmpeqi(type, d, s, c, x), n, d, Eq(w, a, b), x)
               /\ \E n : Does(m, emit_vcmpnei(type, d, s, c, x), n, d, Not(Eq(w, a, b)), x)
               /\ \E n : Does(m, emit_vcmpgti(type, d, s, c, x), n, d, Gt(w, a, b), x)
               /\ \E n : Does(m, emit_vcmpgei(type, d, s, c, x), n, d, Not(Gt(w, b, a)), x)
               /\ \E n : Does(m, emit_vcmplti(type, d, s, c, x), n, d, Gt(w, b, a), x)
               /\ \E n : Does(m, emit_vcmplei(type, d, s, c, x), n, d, Not(Gt(w, a, b)), x)
<1> DEFINE w == Width(type)
           a == m.x[s]
           b == Splat(w, c)
           y == but_one(x)
           t == alloc_(x)
<1>1. /\ t \in Regs16 \ y /\ y \subseteq x /\ Free(y)
      /\ d \in Regs16 \ y /\ s \in Regs16 \ y
  BY ImmediateFirst DEF Free
<1>2. y \ {alloc_(y)} # {}
  BY DEF but_one
<1>3. PICK n : /\ n \in Machines /\ Leaves(m, immediate(type, c, x), n, x)
               /\ n.x[t] = b /\ n.x[s] = a
  BY ImmediateFirst
<1> HIDE DEF a, b, t, y
<1>4. ASSUME NEW u, NEW z, \E o : Does(n, u, o, d, z, y)
      PROVE  \E o : Does(m, immediate(type, c, x) \o u, o, d, z, x)
  <2>1. PICK o : Does(n, u, o, d, z, y)
    BY <1>4
  <2>2. Does(m, immediate(type, c, x) \o u, o, d, z, x)
    BY <1>1, <1>3, <2>1, ImmediateThen DEF y
  <2>3. QED BY <2>2
<1>5. \E o : Does(m, emit_vcmpeqi(type, d, s, c, x), o, d, Eq(w, a, b), x)
  <2>1. \E o : Does(n, emit_vcmpeq(type, d, s, t, y), o, d, Eq(w, a, b), y)
    BY <1>1, <1>2, <1>3, CmpEq
  <2>2. \E o : Does(m, immediate(type, c, x) \o emit_vcmpeq(type, d, s, t, y), o, d, Eq(w, a, b), x)
    BY <1>4, <2>1
  <2>3. QED BY <2>2 DEF emit_vcmpeqi, t, y
<1>6. \E o : Does(m, emit_vcmpnei(type, d, s, c, x), o, d, Not(Eq(w, a, b)), x)
  <2>1. \E o : Does(n, emit_vcmpne(type, d, s, t, y), o, d, Not(Eq(w, a, b)), y)
    BY <1>1, <1>2, <1>3, CmpNe
  <2>2. \E o : Does(m, immediate(type, c, x) \o emit_vcmpne(type, d, s, t, y), o, d, Not(Eq(w, a, b)), x)
    BY <1>4, <2>1
  <2>3. QED BY <2>2 DEF emit_vcmpnei, t, y
<1>7. \E o : Does(m, emit_vcmpgti(type, d, s, c, x), o, d, Gt(w, a, b), x)
  <2>1. \E o : Does(n, emit_vcmpgt(type, d, s, t, y), o, d, Gt(w, a, b), y)
    BY <1>1, <1>2, <1>3, CmpGt
  <2>2. \E o : Does(m, immediate(type, c, x) \o emit_vcmpgt(type, d, s, t, y), o, d, Gt(w, a, b), x)
    BY <1>4, <2>1
  <2>3. QED BY <2>2 DEF emit_vcmpgti, t, y
<1>8. \E o : Does(m, emit_vcmpgei(type, d, s, c, x), o, d, Not(Gt(w, b, a)), x)
  <2>1. \E o : Does(n, emit_vcmpge(type, d, s, t, y), o, d, Not(Gt(w, b, a)), y)
    BY <1>1, <1>2, <1>3, CmpGe
  <2>2. \E o : Does(m, immediate(type, c, x) \o emit_vcmpge(type, d, s, t, y), o, d, Not(Gt(w, b, a)), x)
    BY <1>4, <2>1
  <2>3. QED BY <2>2 DEF emit_vcmpgei, t, y
<1>9. \E o : Does(m, emit_vcmplti(type, d, s, c, x), o, d, Gt(w, b, a), x)
  <2>1. \E o : Does(n, emit_vcmplt(type, d, s, t, y), o, d, Gt(w, b, a), y)
    BY <1>1, <1>2, <1>3, CmpLt
  <2>2. \E o : Does(m, immediate(type, c, x) \o emit_vcmplt(type, d, s, t, y), o, d, Gt(w, b, a), x)
    BY <1>4, <2>1
  <2>3. QED BY <2>2 DEF emit_vcmplti, t, y
<1>10. \E o : Does(m, emit_vcmplei(type, d, s, c, x), o, d, Not(Gt(w, a, b)), x)
  <2>1. \E o : Does(n, emit_vcmple(type, d, s, t, y), o, d, Not(Gt(w, a, b)), y)
    BY <1>1, <1>2, <1>3, CmpLe
  <2>2. \E o : Does(m, immediate(type, c, x) \o emit_vcmple(type, d, s, t, y), o, d, Not(Gt(w, a, b)), x)
    BY <1>4, <2>1
  <2>3. QED BY <2>2 DEF emit_vcmplei, t, y
<1>11. QED BY <1>5, <1>6, <1>7, <1>8, <1>9, <1>10 DEF a, b

-----------------------------------------------------------------------------
(* Shifts of bytes: the words that hold them, and what is made of those.    *)
LowBytes(a) == Unpack(W8, Zero, a, 0)
HighBytes(a) == Unpack(W8, Zero, a, PerWord(W8))
Repacked(a, b) == ExecVector("packuswb", W16, a, b)

(* Code that sets a register after code that leaves the others alone.       *)
LEMMA SetsThen ==
    ASSUME NEW m, NEW n, NEW o, NEW s, NEW t, NEW x, NEW d, NEW z,
           Leaves(m, s, n, x), Sets(n, t, o, d, z), d \in x
    PROVE  Leaves(m, s \o t, o, x) /\ o \in Machines /\ o.x[d] = z
<1>1. Leaves(n, t, o, x) /\ o.x[d] = z
  BY SetsLeaves
<1>2. Leaves(m, s \o t, o, x)
  BY <1>1, LeavesConcat
<1>3. QED BY <1>1, <1>2, LeavesTyped DEF Sets

(* Code for bytes: unpacked to words, both halves changed, and repacked.    *)
LEMMA BytesStep ==
    ASSUME use_sse2, NEW m \in Machines, NEW x, Free(x), x \ {alloc_(x)} # {},
           NEW d \in Regs16 \ x, NEW src \in Regs16 \ x,
           NEW zero \in {"avx", "sse2", "any"}, zero = "avx" => use_avx,
           NEW q \in Regs16 \ x, NEW F, NEW shift,
           \A t \in x : \A n \in Machines :
               n.x[q] = m.x[q] => \E o : Sets(n, shift[t], o, t, F[n.x[t]])
    PROVE  \E n : Does(m, Bytes(d, src, zero, shift, x), n, d,
                       Repacked(F[LowBytes(m.x[src])], F[HighBytes(m.x[src])]), x)
<1> DEFINE t0 == alloc_(x)
           y == x \ {t0}
           t2 == alloc_(y)
           S == x \cup {d}
           a == m.x[src]
           c1 == zeroed(zero, t0)
           c2 == c1 \o Legacy("punpckl", W8, t0, X(src))
           c3 == c2 \o shift[t0]
           c4 == c3 \o zeroed(zero, t2)
           c5 == c4 \o Legacy("punpckh", W8, t2, X(src))
           c6 == c5 \o shift[t2]
           c7 == c6 \o Legacy("movdqa", W64, d, X(t0))
           c8 == c7 \o Legacy("packuswb", W16, d, X(t2))
<1>1. /\ t0 \in x /\ t0 \in Regs16 /\ t2 \in x /\ t2 \in Regs16 /\ t0 # t2
      /\ t0 \in S /\ t2 \in S /\ d \in S /\ d \notin {t0, t2} /\ src \notin {t0, t2} /\ q \notin {t0, t2}
  BY Temporaries DEF Free
<1>2. Bytes(d, src, zero, shift, x) = c8
  BY DEF Bytes
<1>3. /\ "punpckl" \in VectorOps /\ "punpckh" \in VectorOps /\ "packuswb" \in VectorOps
      /\ PlainUse("punpckl", W8) /\ PlainUse("punpckh", W8) /\ PlainUse("packuswb", W16)
      /\ W8 \in Widths /\ W16 \in Widths
  BY WidthFacts DEF VectorOps, PlainUse
<1>4. /\ a \in Vector /\ Zero \in Vector
      /\ ExecVector("punpckl", W8, Zero, a) = LowBytes(a)
      /\ ExecVector("punpckh", W8, Zero, a) = HighBytes(a)
  <2>1. a \in Vector /\ Zero \in Vector
    BY Parts16, ConstantLanes
  <2> HIDE DEF a
  <2>2. QED BY <2>1, WordMoves DEF LowBytes, HighBytes
<1> HIDE DEF t0, y, t2, S
<1>5. PICK n1 : Sets(m, c1, n1, t0, Zero)
  BY <1>1, ZeroStep
<1>6. Leaves(m, c1, n1, S) /\ n1 \in Machines /\ n1.x[t0] = Zero /\ n1.x[src] = a /\ n1.x[q] = m.x[q]
  <2>1. Leaves(m, c1, n1, S) /\ n1.x[t0] = Zero
    BY <1>1, <1>5, SetsLeaves
  <2>2. QED BY <1>1, <1>5, <2>1, LeavesTyped DEF Sets
<1> HIDE DEF a, c1
<1>7. PICK n2 : Sets(n1, Legacy("punpckl", W8, t0, X(src)), n2, t0, LowBytes(a))
  BY <1>1, <1>3, <1>4, <1>6, LegacyStep
<1>8. Leaves(m, c2, n2, S) /\ n2 \in Machines /\ n2.x[t0] = LowBytes(a) /\ n2.x[src] = a /\ n2.x[q] = m.x[q]
  <2>1. Leaves(m, c2, n2, S) /\ n2 \in Machines /\ n2.x[t0] = LowBytes(a)
    BY <1>1, <1>6, <1>7, SetsThen
  <2>2. \A r0 \in Regs16 \ {t0} : n2.x[r0] = n1.x[r0]
    BY <1>7 DEF Sets
  <2>3. QED BY <1>1, <1>6, <2>1, <2>2
<1> HIDE DEF c2
<1>9. PICK n3 : Sets(n2, shift[t0], n3, t0, F[LowBytes(a)])
  BY <1>1, <1>8
<1>10. Leaves(m, c3, n3, S) /\ n3 \in Machines /\ n3.x[t0] = F[LowBytes(a)] /\ n3.x[src] = a /\ n3.x[q] = m.x[q]
  <2>1. Leaves(m, c3, n3, S) /\ n3 \in Machines /\ n3.x[t0] = F[LowBytes(a)]
    BY <1>1, <1>8, <1>9, SetsThen
  <2>2. \A r0 \in Regs16 \ {t0} : n3.x[r0] = n2.x[r0]
    BY <1>9 DEF Sets
  <2>3. QED BY <1>1, <1>8, <2>1, <2>2
<1> HIDE DEF c3
<1>11. PICK n4 : Sets(n3, zeroed(zero, t2), n4, t2, Zero)
  BY <1>1, <1>10, ZeroStep
<1>12. /\ Leaves(m, c4, n4, S) /\ n4 \in Machines /\ n4.x[t2] = Zero /\ n4.x[t0] = F[LowBytes(a)]
       /\ n4.x[src] = a /\ n4.x[q] = m.x[q]
  <2>1. Leaves(m, c4, n4, S) /\ n4 \in Machines /\ n4.x[t2] = Zero
    BY <1>1, <1>10, <1>11, SetsThen
  <2>2. \A r0 \in Regs16 \ {t2} : n4.x[r0] = n3.x[r0]
    BY <1>11 DEF Sets
  <2>3. QED BY <1>1, <1>10, <2>1, <2>2
<1> HIDE DEF c4
<1>13. PICK n5 : Sets(n4, Legacy("punpckh", W8, t2, X(src)), n5, t2, HighBytes(a))
  BY <1>1, <1>3, <1>4, <1>12, LegacyStep
<1>14. /\ Leaves(m, c5, n5, S) /\ n5 \in Machines /\ n5.x[t2] = HighBytes(a) /\ n5.x[t0] = F[LowBytes(a)]
       /\ n5.x[q] = m.x[q]
  <2>1. Leaves(m, c5, n5, S) /\ n5 \in Machines /\ n5.x[t2] = HighBytes(a)
    BY <1>1, <1>12, <1>13, SetsThen
  <2>2. \A r0 \in Regs16 \ {t2} : n5.x[r0] = n4.x[r0]
    BY <1>13 DEF Sets
  <2>3. QED BY <1>1, <1>12, <2>1, <2>2
<1> HIDE DEF c5
<1>15. PICK n6 : Sets(n5, shift[t2], n6, t2, F[HighBytes(a)])
  BY <1>1, <1>14
<1>16. Leaves(m, c6, n6, S) /\ n6 \in Machines /\ n6.x[t2] = F[HighBytes(a)] /\ n6.x[t0] = F[LowBytes(a)]
  <2>1. Leaves(m, c6, n6, S) /\ n6 \in Machines /\ n6.x[t2] = F[HighBytes(a)]
    BY <1>1, <1>14, <1>15, SetsThen
  <2>2. \A r0 \in Regs16 \ {t2} : n6.x[r0] = n5.x[r0]
    BY <1>15 DEF Sets
  <2>3. QED BY <1>1, <1>14, <2>1, <2>2
<1> HIDE DEF c6
<1>17. PICK n7 : Sets(n6, Legacy("movdqa", W64, d, X(t0)), n7, d, F[LowBytes(a)])
  BY <1>1, <1>16, Copy
<1>18. Leaves(m, c7, n7, S) /\ n7 \in Machines /\ n7.x[t2] = F[HighBytes(a)] /\ n7.x[d] = F[LowBytes(a)]
  <2>1. Leaves(m, c7, n7, S) /\ n7 \in Machines /\ n7.x[d] = F[LowBytes(a)]
    BY <1>1, <1>16, <1>17, SetsThen
  <2>2. \A r0 \in Regs16 \ {d} : n7.x[r0] = n6.x[r0]
    BY <1>17 DEF Sets
  <2>3. QED BY <1>1, <1>16, <2>1, <2>2
<1> HIDE DEF c7
<1>19. PICK n8 : Sets(n7, Legacy("packuswb", W16, d, X(t2)), n8, d, Repacked(F[LowBytes(a)], F[HighBytes(a)]))
  BY <1>1, <1>3, <1>18, LegacyStep DEF Repacked
<1>20. Leaves(m, c8, n8, S) /\ n8.x[d] = Repacked(F[LowBytes(a)], F[HighBytes(a)])
  <2>1. Leaves(m, c8, n8, S) /\ n8 \in Machines /\ n8.x[d] = Repacked(F[LowBytes(a)], F[HighBytes(a)])
    BY <1>1, <1>18, <1>19, SetsThen
  <2>2. \A r0 \in Regs16 \ {d} : n8.x[r0] = n7.x[r0]
    BY <1>19 DEF Sets
  <2>3. QED BY <1>1, <1>18, <2>1, <2>2
<1>21. QED BY <1>2, <1>20 DEF Does, S, a

-----------------------------------------------------------------------------
(* Quotients.                                                               *)
LEMMA Quotients ==
    ASSUME NEW a \in Nat \ {0}, NEW b \in Nat \ {0}, NEW x \in Int
    PROVE  /\ (x \div a) \div b = x \div (a * b)
           /\ (a * x) \div (a * b) = x \div b
           /\ (a * x) \div a = x
           /\ (a * x) % (a * b) = a * (x % b)
           /\ (x % (a * b)) \div a = (x \div a) % b
           /\ x \in 0 .. a - 1 => x \div a = 0
           /\ x \in -a .. -1 => x \div a = -1
<1> DEFINE c == a * b
<1>1. c \in Nat \ {0}
  OBVIOUS
<1>2. (x \div a) \div b = x \div c /\ (x % c) \div a = (x \div a) % b
  <2> DEFINE q == x \div a
             s == x % a
  <2>1. q \in Int /\ s \in 0 .. a - 1 /\ x = a * q + s
    BY ModRange
  <2> HIDE DEF q, s
  <2> DEFINE p == q \div b
             t == q % b
  <2>2. p \in Int /\ t \in 0 .. b - 1 /\ q = b * p + t
    BY <2>1, ModRange
  <2> HIDE DEF p, t
  <2> DEFINE u == a * t + s
  <2>3. u \in Int /\ u \in 0 .. c - 1
    <3>1. a * t <= a * (b - 1) /\ a * t >= 0 /\ a * t \in Int
      BY <2>2
    <3>2. a * (b - 1) = a * b - a
      OBVIOUS
    <3>3. QED BY <1>1, <2>1, <3>1, <3>2
  <2>4. x = c * p + u
    <3>1. a * (b * p + t) = (a * b) * p + a * t
      BY <2>2
    <3>2. QED BY <2>1, <2>2, <3>1
  <2>5. u = a * t + s /\ t \in Int
    BY <2>2
  <2> HIDE DEF u, c
  <2>6. x % c = u /\ x \div c = p
    BY <1>1, <2>2, <2>3, <2>4, ModUnique
  <2>7. u % a = s /\ u \div a = t
    BY <2>1, <2>3, <2>5, ModUnique
  <2>8. QED BY <2>6, <2>7 DEF q, p, t
<1>3. (a * x) \div c = x \div b /\ (a * x) % c = a * (x % b)
  <2> DEFINE q == x \div b
             s == x % b
             y == a * x
             u == a * s
  <2>1. q \in Int /\ s \in 0 .. b - 1 /\ x = b * q + s
    BY ModRange
  <2> HIDE DEF q, s
  <2>2. u \in Int /\ u \in 0 .. c - 1 /\ y \in Int
    <3>1. a * s <= a * (b - 1) /\ a * s >= 0 /\ a * s \in Int
      BY <2>1
    <3>2. a * (b - 1) = a * b - a
      OBVIOUS
    <3>3. QED BY <1>1, <3>1, <3>2
  <2>3. y = c * q + u
    <3>1. a * (b * q + s) = (a * b) * q + a * s
      BY <2>1
    <3>2. QED BY <2>1, <3>1
  <2> HIDE DEF u, c, y
  <2>4. y % c = u /\ y \div c = q
    BY <1>1, <2>1, <2>2, <2>3, ModUnique
  <2>5. QED BY <2>4 DEF q, s, y, u
<1>4. (a * x) \div a = x
  <2> DEFINE y == a * x
  <2>1. y \in Int /\ y = a * x + 0 /\ 0 \in 0 .. a - 1
    OBVIOUS
  <2> HIDE DEF y
  <2>2. y % a = 0 /\ y \div a = x
    BY <2>1, ModUnique
  <2>3. QED BY <2>2 DEF y
<1>5. ASSUME x \in 0 .. a - 1
      PROVE  x \div a = 0
  <2>1. x = a * 0 + x /\ 0 \in Int
    OBVIOUS
  <2>2. x % a = x /\ x \div a = 0
    BY <1>5, <2>1, ModUnique
  <2>3. QED BY <2>2
<1>6. ASSUME x \in -a .. -1
      PROVE  x \div a = -1
  <2> DEFINE q == -1
             s == x + a
  <2>1. x = a * q + s /\ s \in 0 .. a - 1 /\ q \in Int
    BY <1>6
  <2> HIDE DEF q, s
  <2>2. x % a = s /\ x \div a = q
    BY <2>1, ModUnique
  <2>3. QED BY <2>2 DEF q
<1>7. QED BY <1>2, <1>3, <1>4, <1>5, <1>6

(* Powers of two beyond a width are multiples of those below.               *)
LEMMA PowerParts ==
    ASSUME NEW m \in 0 .. W64, NEW n \in 0 .. m
    PROVE  /\ 2 ^ m \in Nat \ {0} /\ 2 ^ n \in Nat \ {0} /\ 2 ^ (m - n) \in Nat \ {0}
           /\ 2 ^ m = 2 ^ n * 2 ^ (m - n)
<1> DEFINE k == m - n
<1>1. k \in 0 .. W64 /\ n \in 0 .. W64 /\ n + k = m /\ n + k <= W64
  BY Power
<1> HIDE DEF k
<1>2. 2 ^ (n + k) = 2 ^ n * 2 ^ k
  BY <1>1, PowerAssumption
<1>3. 2 ^ m \in Nat \ {0} /\ 2 ^ n \in Nat \ {0} /\ 2 ^ k \in Nat \ {0}
  BY <1>1, Power
<1>4. QED BY <1>1, <1>2, <1>3 DEF k

(* Two bytes make a word of 16 bits.                                        *)
LEMMA ByteFacts ==
    /\ W8 \in 1 .. W64 /\ W16 \in 1 .. W64 /\ W8 \in 0 .. W64 /\ W16 \in 0 .. W64 /\ W16 = 2 * W8
    /\ W8 \in 0 .. W16 - 1 /\ W8 - 1 \in 0 .. W64 /\ W16 - 1 \in 0 .. W64 /\ W8 \in Int
    /\ 2 ^ W8 \in Nat \ {0} /\ 2 ^ (W8 - 1) \in Nat \ {0} /\ 2 ^ W8 = 2 * 2 ^ (W8 - 1)
    /\ 2 ^ W16 = 2 ^ W8 * 2 ^ W8 /\ 2 ^ (W16 - 1) = 2 ^ W8 * 2 ^ (W8 - 1)
<1>1. /\ W8 \in 1 .. W64 /\ W16 \in 1 .. W64 /\ W8 \in 0 .. W64 /\ W16 \in 0 .. W64
      /\ W8 \in Nat \ {0} /\ W16 = 2 * W8 /\ W64 \in Nat
  BY WidthFacts, Power
<1>2. W8 \in 0 .. W16 - 1 /\ W8 - 1 \in 0 .. W64 /\ W16 - 1 \in 0 .. W64
  BY <1>1
<1>3. 2 ^ W8 \in Nat \ {0} /\ 2 ^ (W8 - 1) \in Nat \ {0} /\ 2 ^ W8 = 2 * 2 ^ (W8 - 1)
  BY <1>1, <1>2, Power
<1>4. 2 ^ W16 = 2 ^ W8 * 2 ^ W8 /\ 2 ^ (W16 - 1) = 2 ^ W8 * 2 ^ (W8 - 1)
  <2>1. W8 \in 0 .. W16 /\ W16 - W8 = W8 /\ W8 \in 0 .. W16 - 1 /\ (W16 - 1) - W8 = W8 - 1
    BY <1>1, <1>2
  <2>2. 2 ^ W16 = 2 ^ W8 * 2 ^ (W16 - W8)
    BY <1>1, <2>1, PowerParts
  <2> DEFINE m == W16 - 1
  <2>3. m \in 0 .. W64 /\ W8 \in 0 .. m /\ m - W8 = W8 - 1
    BY <1>2, <2>1
  <2> HIDE DEF m
  <2>4. 2 ^ m = 2 ^ W8 * 2 ^ (m - W8)
    BY <2>3, PowerParts
  <2>5. QED BY <2>1, <2>2, <2>3, <2>4 DEF m
<1>5. QED BY <1>1, <1>2, <1>3, <1>4

(* What a vector shift makes depends on the first word of its count.        *)
Shifted(op, w, a, c) == ExecVector(op, w, a, << c, 0 >>)

(* A shift reads nothing but the first word of its count.                   *)
LEMMA CountOnly ==
    ASSUME NEW op \in ShiftVec, NEW w, NEW a, NEW b
    PROVE  ExecVector(op, w, a, b) = Shifted(op, w, a, b[1])
<1> DEFINE e == << b[1], 0 >>
<1>1. e[1] = b[1]
  OBVIOUS
<1> HIDE DEF e
<1>2. /\ op \notin LaneWiseOps
      /\ op \notin {"movdqa", "punpckl", "punpckh", "packuswb", "pshufd", "movhlps"}
  BY DEF ShiftVec, LaneWiseOps
<1>3. \A y : ExecVector(op, w, a, y)
             = Pack(w, [k \in LaneIndex(w) |-> ShiftLane(op, w, Lane(w, a, k), y[1])])
  BY <1>2 DEF ExecVector
<1>4. ExecVector(op, w, a, e) = ExecVector(op, w, a, b)
  BY <1>1, <1>3
<1>5. QED BY <1>4 DEF Shifted, e

(* Its lanes.                                                               *)
LEMMA ShiftedLanes ==
    ASSUME NEW op \in ShiftVec, NEW w \in Widths, NEW a \in Vector, NEW c \in Int
    PROVE  /\ Shifted(op, w, a, c) \in Vector
           /\ \A k \in LaneIndex(w) : Lane(w, Shifted(op, w, a, c), k)
                                      = ShiftLane(op, w, Lane(w, a, k), c)
<1> DEFINE e == << c, 0 >>
<1>1. e[1] = c
  OBVIOUS
<1> HIDE DEF e
<1>2. /\ ExecVector(op, w, a, e) \in Vector
      /\ \A k \in LaneIndex(w) : Lane(w, ExecVector(op, w, a, e), k)
                                 = ShiftLane(op, w, Lane(w, a, k), e[1])
  BY <1>1, ShiftLanes
<1>3. QED BY <1>1, <1>2 DEF Shifted, e

(* The words that bytes are unpacked into hold them in their high halves.   *)
LEMMA ByteWords ==
    ASSUME NEW a \in Vector, NEW first \in {0, PerWord(W8)}, NEW j \in LaneIndex(W16)
    PROVE  /\ first + j \in LaneIndex(W8)
           /\ Lane(W16, Unpack(W8, Zero, a, first), j) = 2 ^ W8 * Lane(W8, a, first + j)
<1> DEFINE z == Unpack(W8, Zero, a, first)
           B == 2 ^ W8
<1>1. W8 \in Widths /\ W16 \in Widths /\ Twice(W8, W16) /\ Zero \in Vector /\ B \in Nat \ {0}
  BY WidthFacts, Twices, ConstantLanes
<1>2. z \in Vector /\ \A k \in LaneIndex(W8) :
          Lane(W8, z, k) = Lane(W8, IF k % 2 = 0 THEN Zero ELSE a, first + k \div 2)
  BY <1>1, UnpackLanes
<1> HIDE DEF z
<1>3. /\ 2 * j \in LaneIndex(W8) /\ 2 * j + 1 \in LaneIndex(W8)
      /\ Lane(W8, z, 2 * j) = Low(W8, Lane(W16, z, j))
      /\ Lane(W8, z, 2 * j + 1) = Lane(W16, z, j) \div 2 ^ W8
      /\ Lane(W16, z, j) = Lane(W8, z, 2 * j) + 2 ^ W8 * Lane(W8, z, 2 * j + 1)
  BY <1>1, <1>2, HalfLanes
<1>4. LaneIndex(W16) = 0 .. 7 /\ LaneIndex(W8) = 0 .. 15 /\ PerWord(W8) = 8
  BY PerWords DEF LaneIndex
<1>5. /\ (2 * j) % 2 = 0 /\ (2 * j) \div 2 = j /\ (2 * j + 1) % 2 = 1 /\ (2 * j + 1) \div 2 = j
      /\ j \in Int /\ first + j \in 0 .. 15
  BY <1>4
<1>6. Lane(W8, z, 2 * j) = Lane(W8, Zero, first + j) /\ Lane(W8, z, 2 * j + 1) = Lane(W8, a, first + j)
  BY <1>2, <1>3, <1>5
<1>7. Lane(W8, Zero, first + j) = 0 /\ Lane(W8, a, first + j) \in Int
  BY <1>1, <1>4, <1>5, ConstantLanes, LaneRange
<1>8. QED BY <1>1, <1>3, <1>4, <1>5, <1>6, <1>7 DEF z

(* Bytes are packed as they are.                                            *)
LEMMA Saturated ==
    ASSUME NEW y \in Values(W8)
    PROVE  Saturate(y) = y
<1> DEFINE B == 2 ^ W8
           H == 2 ^ (W8 - 1)
<1>1. /\ W16 \in 0 .. W64 /\ B \in Nat \ {0} /\ H \in Nat \ {0} /\ B = 2 * H
      /\ 2 ^ W16 = B * B /\ 2 ^ (W16 - 1) = B * H
  BY ByteFacts
<1>2. y \in 0 .. B - 1
  BY DEF Values
<1> HIDE DEF B, H
<1>3. B <= B * H /\ B <= B * B
  BY <1>1
<1>4. y \in 0 .. 2 ^ W16 - 1 /\ ~(y >= 2 ^ (W16 - 1))
  BY <1>1, <1>2, <1>3
<1>5. Low(W16, y) = y
  BY <1>1, <1>4, LowId
<1>6. ToSigned(W16, y) = y
  BY <1>4, <1>5 DEF ToSigned
<1>7. ~(y < 0) /\ ~(y >= B)
  BY <1>1, <1>2
<1>8. QED BY <1>6, <1>7 DEF Saturate, B

(* A word that holds a byte in its high half, shifted and cut to that half, *)
(* holds the byte shifted.                                                  *)
LEMMA WordCut ==
    ASSUME NEW op \in ShiftVec, NEW e \in Values(W8), NEW c \in Int
    PROVE  ShiftLane("psrl", W16, ShiftLane(op, W16, 2 ^ W8 * e, c), W8) = ShiftLane(op, W8, e, c)
<1> DEFINE B == 2 ^ W8
           H == 2 ^ (W8 - 1)
           P == 2 ^ c
           y == ShiftLane(op, W16, B * e, c)
<1>1. /\ W8 \in 1 .. W64 /\ W8 \in 0 .. W64 /\ W16 \in 0 .. W64 /\ W16 = 2 * W8
      /\ W8 \in 0 .. W16 - 1 /\ W8 - 1 \in 0 .. W64 /\ W16 - 1 \in 0 .. W64 /\ W8 \in Int
      /\ B \in Nat \ {0} /\ H \in Nat \ {0} /\ B = 2 * H
      /\ 2 ^ W16 = B * B /\ 2 ^ (W16 - 1) = B * H /\ W64 \in Nat
  BY ByteFacts, Power
<1>2. e \in 0 .. B - 1 /\ e \in Int /\ B * e \in Int
  BY <1>1 DEF Values
<1>3. ShiftLane("psrl", W16, y, W8) = y \div B
  BY <1>1 DEF ShiftLane
<1>. SUFFICES y \div B = ShiftLane(op, W8, e, c)
  BY <1>3
<1>4. ASSUME c \in 0 .. W16 - 1
      PROVE  P \in Nat \ {0} /\ (c \notin 0 .. W8 - 1 => \E i \in Nat \ {0} : P = B * i)
  <2>1. c \in 0 .. W64
    BY <1>1, <1>4
  <2>2. CASE c \in 0 .. W8 - 1
    BY <2>1, <2>2, Power
  <2>3. CASE c \notin 0 .. W8 - 1
    <3>1. W8 \in 0 .. c
      BY <1>1, <1>4, <2>3
    <3>2. 2 ^ (c - W8) \in Nat \ {0} /\ 2 ^ c = 2 ^ W8 * 2 ^ (c - W8)
      BY <2>1, <3>1, PowerParts
    <3>3. QED BY <2>1, <3>2, Power
  <2>4. QED BY <2>2, <2>3
<1>5. ~(c \in 0 .. W16 - 1) => ~(c \in 0 .. W8 - 1)
  BY <1>1
<1>6. 0 \div B = 0
  <2>1. 0 \in 0 .. B - 1 /\ 0 \in Int
    BY <1>1
  <2>2. QED BY <1>1, <2>1, Quotients
<1> HIDE DEF B, P
<1>7. CASE op = "psll"
  <2>1. y = IF c \in 0 .. W16 - 1 THEN Low(W16, (B * e) * P) ELSE 0
    BY <1>7 DEF ShiftLane, P
  <2>2. ShiftLane(op, W8, e, c) = IF c \in 0 .. W8 - 1 THEN Low(W8, e * P) ELSE 0
    BY <1>7 DEF ShiftLane, P
  <2> HIDE DEF y
  <2>3. CASE c \notin 0 .. W16 - 1
    BY <1>3, <1>5, <1>6, <2>1, <2>2, <2>3
  <2>4. CASE c \in 0 .. W16 - 1
    <3> DEFINE x == e * P
    <3>1. x \in Int /\ (B * e) * P = B * x
      BY <1>1, <1>2, <1>4, <2>4
    <3>2. y = (B * x) % (B * B)
      BY <1>1, <2>1, <2>4, <3>1 DEF Low
    <3> DEFINE z == x % B
    <3>3. (B * x) % (B * B) = B * z
      <4>1. x \in Int /\ B \in Nat \ {0}
        BY <1>1, <3>1
      <4> HIDE DEF x
      <4>2. QED BY <4>1, Quotients
    <3>4. z \in Int /\ z \in 0 .. B - 1
      <4>1. x \in Int /\ B \in Nat \ {0}
        BY <1>1, <3>1
      <4> HIDE DEF x
      <4>2. QED BY <4>1, ModRange
    <3>5. (B * z) \div B = z
      <4> HIDE DEF z
      <4>1. QED BY <1>1, <3>4, Quotients
    <3>6. y \div B = Low(W8, x)
      BY <3>2, <3>3, <3>5 DEF Low, B
    <3>7. CASE c \in 0 .. W8 - 1
      BY <1>3, <2>2, <3>6, <3>7
    <3>8. CASE c \notin 0 .. W8 - 1
      <4>1. PICK i \in Nat \ {0} : P = B * i
        BY <1>4, <2>4, <3>8
      <4> DEFINE q == e * i
      <4>2. q \in Int /\ x = B * q + 0 /\ 0 \in 0 .. B - 1
        BY <1>1, <1>2, <4>1
      <4> HIDE DEF x, q
      <4>3. x % B = 0
        BY <1>1, <3>1, <4>2, ModUnique
      <4>4. QED BY <1>3, <2>2, <3>6, <3>8, <4>3 DEF Low, B
    <3>9. QED BY <3>7, <3>8
  <2>5. QED BY <2>3, <2>4
<1>8. CASE op = "psrl"
  <2>1. y = IF c \in 0 .. W16 - 1 THEN (B * e) \div P ELSE 0
    BY <1>8 DEF ShiftLane, P
  <2>2. ShiftLane(op, W8, e, c) = IF c \in 0 .. W8 - 1 THEN e \div P ELSE 0
    BY <1>8 DEF ShiftLane, P
  <2> HIDE DEF y
  <2>3. CASE c \notin 0 .. W16 - 1
    BY <1>3, <1>5, <1>6, <2>1, <2>2, <2>3
  <2>4. CASE c \in 0 .. W16 - 1
    <3> DEFINE x == B * e
    <3>1. P \in Nat \ {0} /\ x \in Int
      BY <1>2, <1>4, <2>4
    <3>2. (x \div P) \div B = x \div (P * B)
      <4>1. x \in Int /\ B \in Nat \ {0} /\ P \in Nat \ {0}
        BY <1>1, <3>1
      <4> HIDE DEF x
      <4>2. QED BY <4>1, Quotients
    <3>3. P * B = B * P
      BY <1>1, <3>1
    <3>4. (B * e) \div (B * P) = e \div P
      BY <1>1, <1>2, <3>1, Quotients
    <3>5. y \div B = e \div P
      BY <2>1, <2>4, <3>2, <3>3, <3>4
    <3>6. CASE c \in 0 .. W8 - 1
      BY <1>3, <2>2, <3>5, <3>6
    <3>7. CASE c \notin 0 .. W8 - 1
      <4>1. PICK i \in Nat \ {0} : P = B * i
        BY <1>4, <2>4, <3>7
      <4>2. e \in 0 .. P - 1
        <5>1. B * i >= B
          BY <1>1
        <5>2. QED BY <1>1, <1>2, <4>1, <5>1
      <4>3. e \div P = 0
        BY <1>1, <1>2, <3>1, <4>2, Quotients
      <4>4. QED BY <1>3, <2>2, <3>5, <3>7, <4>3
    <3>8. QED BY <3>6, <3>7
  <2>5. QED BY <2>3, <2>4
<1>9. CASE op = "psra"
  <2> DEFINE n == IF c \in 0 .. W16 - 1 THEN c ELSE W16 - 1
             l == IF c \in 0 .. W8 - 1 THEN c ELSE W8 - 1
             s == ToSigned(W8, e)
             Q == 2 ^ n
             R == 2 ^ l
  <2>1. ToSigned(W16, B * e) = B * s /\ s \in -H .. H - 1 /\ s \in Int
    <3>1. Low(W8, e) = e
      BY <1>1, <1>2, LowId DEF B
    <3>2. s = IF e >= H THEN e - B ELSE e
      BY <3>1 DEF ToSigned, B
    <3>3. B * e \in 0 .. B * B - 1
      <4>1. B * e <= B * (B - 1) /\ B * e >= 0
        BY <1>1, <1>2
      <4>2. B * (B - 1) = B * B - B
        BY <1>1
      <4>3. B * B \in Int
        BY <1>1
      <4>4. QED BY <1>1, <1>2, <4>1, <4>2, <4>3
    <3>4. Low(W16, B * e) = B * e
      <4> DEFINE x == B * e
      <4>1. x \in 0 .. 2 ^ W16 - 1
        BY <1>1, <3>3
      <4> HIDE DEF x
      <4>2. Low(W16, x) = x
        BY <1>1, <4>1, LowId
      <4>3. QED BY <4>2 DEF x
    <3>5. ToSigned(W16, B * e) = IF B * e >= B * H THEN B * e - B * B ELSE B * e
      BY <1>1, <3>4 DEF ToSigned
    <3>6. B * e >= B * H <=> e >= H
      <4>1. ASSUME e >= H PROVE B * e >= B * H
        BY <1>1, <1>2, <4>1
      <4>2. ASSUME ~(e >= H) PROVE ~(B * e >= B * H)
        <5>1. H - e \in Nat \ {0}
          BY <1>1, <1>2, <4>2
        <5>2. B * (H - e) >= 1 /\ B * (H - e) = B * H - B * e /\ B * H \in Int /\ B * e \in Int
          BY <1>1, <1>2, <5>1
        <5>3. QED BY <5>2
      <4>3. QED BY <4>1, <4>2
    <3>7. B * (e - B) = B * e - B * B
      BY <1>1, <1>2
    <3>8. ToSigned(W16, B * e) = B * s
      BY <3>2, <3>5, <3>6, <3>7
    <3>9. s \in -H .. H - 1
      BY <1>1, <1>2, <3>2
    <3>10. QED BY <1>1, <3>8, <3>9
  <2>2. y = Low(W16, (B * s) \div Q)
    BY <1>9, <2>1 DEF ShiftLane
  <2>3. ShiftLane(op, W8, e, c) = Low(W8, s \div R)
    BY <1>9 DEF ShiftLane
  <2>4. n \in 0 .. W64 /\ l \in 0 .. W64 /\ (n = l \/ (l = W8 - 1 /\ W8 - 1 \in 0 .. n))
    BY <1>1
  <2>5. Q \in Nat \ {0} /\ R \in Nat \ {0}
    <3> HIDE DEF n, l
    <3>1. QED BY <2>4, Power
  <2>6. s \div Q = s \div R
    <3>1. CASE n = l
      BY <3>1
    <3>2. CASE l = W8 - 1 /\ W8 - 1 \in 0 .. n
      <4> HIDE DEF n, l
      <4>1. R = H
        BY <3>2
      <4> DEFINE k == W8 - 1
      <4>2. k \in 0 .. n
        BY <3>2
      <4> HIDE DEF k
      <4>3. 2 ^ (n - k) \in Nat \ {0} /\ 2 ^ n = 2 ^ k * 2 ^ (n - k)
        BY <2>4, <4>2, PowerParts
      <4>4. PICK i \in Nat \ {0} : Q = H * i
        BY <4>3 DEF k
      <4>5. Q >= H
        BY <1>1, <4>4
      <4> HIDE DEF Q, R, H
      <4>6. CASE s >= 0
        <5>1. s \in 0 .. H - 1 /\ s \in 0 .. Q - 1
          BY <1>1, <2>1, <2>5, <4>5, <4>6
        <5> HIDE DEF s
        <5>2. s \div H = 0 /\ s \div Q = 0
          BY <1>1, <2>1, <2>5, <5>1, Quotients
        <5>3. QED BY <4>1, <5>2
      <4>7. CASE s < 0
        <5>1. s \in -H .. -1 /\ s \in -Q .. -1
          BY <1>1, <2>1, <2>5, <4>5, <4>7
        <5> HIDE DEF s
        <5>2. s \div H = -1 /\ s \div Q = -1
          BY <1>1, <2>1, <2>5, <5>1, Quotients
        <5>3. QED BY <4>1, <5>2
      <4>8. QED BY <2>1, <4>6, <4>7
    <3>3. QED BY <2>4, <3>1, <3>2
  <2> HIDE DEF y, Q, R, s, n, l
  <2> DEFINE x == B * s
             z == x \div Q
  <2>7. x \in Int /\ z \in Int
    <3>1. x \in Int
      BY <1>1, <2>1
    <3> HIDE DEF x
    <3>2. QED BY <2>5, <3>1, ModRange
  <2>8. z \div B = s \div Q
    <3>1. (x \div Q) \div B = x \div (Q * B)
      <4>1. x \in Int /\ B \in Nat \ {0} /\ Q \in Nat \ {0}
        BY <1>1, <2>5, <2>7
      <4> HIDE DEF x
      <4>2. QED BY <4>1, Quotients
    <3>2. Q * B = B * Q
      BY <1>1, <2>5
    <3>3. (B * s) \div (B * Q) = s \div Q
      BY <1>1, <2>1, <2>5, Quotients
    <3>4. QED BY <3>1, <3>2, <3>3
  <2>9. (z % (B * B)) \div B = (z \div B) % B
    <3> HIDE DEF z
    <3>1. QED BY <1>1, <2>7, Quotients
  <2>10. y \div B = Low(W8, s \div R)
    BY <1>1, <2>2, <2>6, <2>8, <2>9 DEF Low, B
  <2>11. QED BY <1>3, <2>3, <2>10
<1>10. QED BY <1>7, <1>8, <1>9 DEF ShiftVec, y, B

(* The shift to the right by more than a byte is the two in one.            *)
LEMMA WordCutAtOnce ==
    ASSUME NEW e \in Values(W8), NEW c \in Nat
    PROVE  ShiftLane("psrl", W16, 2 ^ W8 * e, W8 + c) = ShiftLane("psrl", W8, e, c)
<1> DEFINE B == 2 ^ W8
           P == 2 ^ c
           n == W8 + c
<1>1. /\ W8 \in 0 .. W64 /\ W16 \in 0 .. W64 /\ W16 = 2 * W8 /\ W8 \in Int /\ W8 \in 1 .. W64
      /\ B \in Nat \ {0}
  BY ByteFacts
<1>2. e \in Int
  BY <1>1 DEF Values
<1>3. n \in 0 .. W16 - 1 <=> c \in 0 .. W8 - 1
  BY <1>1
<1>4. ShiftLane("psrl", W16, B * e, n) = IF n \in 0 .. W16 - 1 THEN (B * e) \div 2 ^ n ELSE 0
  BY DEF ShiftLane
<1>5. ShiftLane("psrl", W8, e, c) = IF c \in 0 .. W8 - 1 THEN e \div P ELSE 0
  BY DEF ShiftLane
<1>6. CASE c \notin 0 .. W8 - 1
  BY <1>3, <1>4, <1>5, <1>6
<1>7. CASE c \in 0 .. W8 - 1
  <2>1. n \in 0 .. W64 /\ W8 \in 0 .. n /\ n - W8 = c
    BY <1>1, <1>3, <1>7, Power
  <2> HIDE DEF n
  <2>2. 2 ^ (n - W8) \in Nat \ {0} /\ 2 ^ n = 2 ^ W8 * 2 ^ (n - W8)
    BY <2>1, PowerParts
  <2>3. P \in Nat \ {0} /\ 2 ^ n = B * P
    BY <2>1, <2>2
  <2> HIDE DEF B, P
  <2>4. (B * e) \div (B * P) = e \div P
    BY <1>1, <1>2, <2>3, Quotients
  <2>5. QED BY <1>3, <1>4, <1>5, <1>7, <2>3, <2>4 DEF B, n
<1>8. QED BY <1>6, <1>7

(* Words that hold the bytes of a vector are packed to that vector.         *)
LEMMA RepackedLanes ==
    ASSUME NEW p \in Vector, NEW q \in Vector, NEW z \in Vector,
           \A j \in LaneIndex(W16) : /\ Lane(W16, p, j) = Lane(W8, z, 0 + j)
                                     /\ Lane(W16, q, j) = Lane(W8, z, PerWord(W8) + j)
    PROVE  Repacked(p, q) = z
<1>1. W8 \in Widths /\ W16 \in Widths
  BY WidthFacts
<1>2. LaneIndex(W16) = 0 .. 7 /\ LaneIndex(W8) = 0 .. 15 /\ PerWord(W8) = 8
  BY PerWords DEF LaneIndex
<1> DEFINE y == Repacked(p, q)
<1>3. y \in Vector /\ \A k \in LaneIndex(W8) :
          Lane(W8, y, k) = IF k < PerWord(W8) THEN Saturate(Lane(W16, p, k))
                                              ELSE Saturate(Lane(W16, q, k - PerWord(W8)))
  BY PackuswbLanes DEF Repacked
<1> HIDE DEF y
<1>4. ASSUME NEW k \in LaneIndex(W8)
      PROVE  Lane(W8, y, k) = Lane(W8, z, k)
  <2>1. Saturate(Lane(W8, z, k)) = Lane(W8, z, k)
    BY <1>1, LaneRange, Saturated
  <2>2. CASE k < PerWord(W8)
    <3>1. k \in LaneIndex(W16) /\ 0 + k = k
      BY <1>2, <2>2
    <3>2. QED BY <1>3, <2>1, <2>2, <3>1
  <2>3. CASE ~(k < PerWord(W8))
    <3> DEFINE j == k - PerWord(W8)
    <3>1. j \in LaneIndex(W16) /\ PerWord(W8) + j = k
      BY <1>2, <2>3
    <3>2. Lane(W8, y, k) = Saturate(Lane(W16, q, j))
      BY <1>3, <2>3
    <3> HIDE DEF j
    <3>3. QED BY <2>1, <3>1, <3>2
  <2>4. QED BY <2>2, <2>3
<1>5. y = z
  BY <1>1, <1>3, <1>4, SameLanes
<1>6. QED BY <1>5 DEF y

(* The shift of words and the cut, of all of them.                          *)
Words(op, c) == [v1 \in Vector |-> Shifted("psrl", W16, Shifted(op, W16, v1, c), W8)]
WordsAtOnce(c) == [v1 \in Vector |-> Shifted("psrl", W16, v1, W8 + c)]

(* The bytes unpacked to words are vectors.                                 *)
LEMMA UnpackedTyped ==
    ASSUME NEW a \in Vector
    PROVE  LowBytes(a) \in Vector /\ HighBytes(a) \in Vector
BY WidthFacts, ConstantLanes, UnpackLanes DEF LowBytes, HighBytes

(* Bytes shifted as words, in two steps,                                    *)
LEMMA BytesShifted ==
    ASSUME NEW op \in ShiftVec, NEW a \in Vector, NEW c \in Int
    PROVE  Repacked(Words(op, c)[LowBytes(a)], Words(op, c)[HighBytes(a)]) = Shifted(op, W8, a, c)
<1> DEFINE z == Shifted(op, W8, a, c)
<1>1. W8 \in Widths /\ W16 \in Widths /\ W8 \in Int /\ "psrl" \in ShiftVec
  BY WidthFacts DEF ShiftVec
<1>2. z \in Vector /\ \A k \in LaneIndex(W8) : Lane(W8, z, k) = ShiftLane(op, W8, Lane(W8, a, k), c)
  BY <1>1, ShiftedLanes
<1> HIDE DEF z
<1>3. ASSUME NEW first \in {0, PerWord(W8)}
      PROVE  LET u == Unpack(W8, Zero, a, first)
             IN  /\ u \in Vector /\ Words(op, c)[u] \in Vector
                 /\ \A j \in LaneIndex(W16) : Lane(W16, Words(op, c)[u], j) = Lane(W8, z, first + j)
  <2> DEFINE u == Unpack(W8, Zero, a, first)
             p == Shifted(op, W16, u, c)
             q == Shifted("psrl", W16, p, W8)
  <2>1. u \in Vector
    BY <1>1, ConstantLanes, UnpackLanes
  <2>2. \A j \in LaneIndex(W16) : /\ first + j \in LaneIndex(W8)
                                  /\ Lane(W16, u, j) = 2 ^ W8 * Lane(W8, a, first + j)
    BY ByteWords
  <2> HIDE DEF u
  <2>3. p \in Vector /\ \A j \in LaneIndex(W16) : Lane(W16, p, j) = ShiftLane(op, W16, Lane(W16, u, j), c)
    BY <1>1, <2>1, ShiftedLanes
  <2> HIDE DEF p
  <2>4. q \in Vector /\ \A j \in LaneIndex(W16) : Lane(W16, q, j) = ShiftLane("psrl", W16, Lane(W16, p, j), W8)
    BY <1>1, <2>3, ShiftedLanes
  <2>5. Words(op, c)[u] = q
    BY <2>1 DEF Words, p
  <2> HIDE DEF q
  <2>6. ASSUME NEW j \in LaneIndex(W16)
        PROVE  Lane(W16, q, j) = Lane(W8, z, first + j)
    <3> DEFINE e == Lane(W8, a, first + j)
    <3>1. e \in Values(W8) /\ Lane(W8, z, first + j) = ShiftLane(op, W8, e, c)
      BY <1>1, <1>2, <2>2, LaneRange
    <3>2. Lane(W16, q, j) = ShiftLane("psrl", W16, ShiftLane(op, W16, 2 ^ W8 * e, c), W8)
      BY <2>2, <2>3, <2>4
    <3> HIDE DEF e
    <3>3. QED BY <3>1, <3>2, WordCut
  <2>7. QED BY <2>1, <2>4, <2>5, <2>6 DEF u
<1> DEFINE p == Words(op, c)[LowBytes(a)]
           q == Words(op, c)[HighBytes(a)]
<1>4. p \in Vector /\ q \in Vector
  BY <1>3 DEF LowBytes, HighBytes
<1>5. \A j \in LaneIndex(W16) : Lane(W16, p, j) = Lane(W8, z, 0 + j)
  BY <1>3 DEF LowBytes
<1>6. \A j \in LaneIndex(W16) : Lane(W16, q, j) = Lane(W8, z, PerWord(W8) + j)
  BY <1>3 DEF HighBytes
<1> HIDE DEF p, q
<1>7. Repacked(p, q) = z
  BY <1>2, <1>4, <1>5, <1>6, RepackedLanes
<1>8. QED BY <1>7 DEF p, q, z

(* or to the right at once by 8 more.                                       *)
LEMMA BytesShiftedAtOnce ==
    ASSUME NEW a \in Vector, NEW c \in Nat
    PROVE  Repacked(WordsAtOnce(c)[LowBytes(a)], WordsAtOnce(c)[HighBytes(a)]) = Shifted("psrl", W8, a, c)
<1> DEFINE z == Shifted("psrl", W8, a, c)
<1>1. W8 \in Widths /\ W16 \in Widths /\ W8 \in Int /\ "psrl" \in ShiftVec /\ c \in Int /\ W8 + c \in Int
  BY WidthFacts DEF ShiftVec
<1>2. z \in Vector /\ \A k \in LaneIndex(W8) : Lane(W8, z, k) = ShiftLane("psrl", W8, Lane(W8, a, k), c)
  BY <1>1, ShiftedLanes
<1> HIDE DEF z
<1>3. ASSUME NEW first \in {0, PerWord(W8)}
      PROVE  LET u == Unpack(W8, Zero, a, first)
             IN  /\ u \in Vector /\ WordsAtOnce(c)[u] \in Vector
                 /\ \A j \in LaneIndex(W16) : Lane(W16, WordsAtOnce(c)[u], j) = Lane(W8, z, first + j)
  <2> DEFINE u == Unpack(W8, Zero, a, first)
             q == Shifted("psrl", W16, u, W8 + c)
  <2>1. u \in Vector
    BY <1>1, ConstantLanes, UnpackLanes
  <2>2. \A j \in LaneIndex(W16) : /\ first + j \in LaneIndex(W8)
                                  /\ Lane(W16, u, j) = 2 ^ W8 * Lane(W8, a, first + j)
    BY ByteWords
  <2> HIDE DEF u
  <2>4. q \in Vector /\ \A j \in LaneIndex(W16) : Lane(W16, q, j) = ShiftLane("psrl", W16, Lane(W16, u, j), W8 + c)
    BY <1>1, <2>1, ShiftedLanes
  <2>5. WordsAtOnce(c)[u] = q
    BY <2>1 DEF WordsAtOnce
  <2> HIDE DEF q
  <2>6. ASSUME NEW j \in LaneIndex(W16)
        PROVE  Lane(W16, q, j) = Lane(W8, z, first + j)
    <3> DEFINE e == Lane(W8, a, first + j)
    <3>1. e \in Values(W8) /\ Lane(W8, z, first + j) = ShiftLane("psrl", W8, e, c)
      BY <1>1, <1>2, <2>2, LaneRange
    <3>2. Lane(W16, q, j) = ShiftLane("psrl", W16, 2 ^ W8 * e, W8 + c)
      BY <2>2, <2>4
    <3> HIDE DEF e
    <3>3. QED BY <3>1, <3>2, WordCutAtOnce
  <2>7. QED BY <2>1, <2>4, <2>5, <2>6 DEF u
<1> DEFINE p == WordsAtOnce(c)[LowBytes(a)]
           q == WordsAtOnce(c)[HighBytes(a)]
<1>4. p \in Vector /\ q \in Vector
  BY <1>3 DEF LowBytes, HighBytes
<1>5. \A j \in LaneIndex(W16) : Lane(W16, p, j) = Lane(W8, z, 0 + j)
  BY <1>3 DEF LowBytes
<1>6. \A j \in LaneIndex(W16) : Lane(W16, q, j) = Lane(W8, z, PerWord(W8) + j)
  BY <1>3 DEF HighBytes
<1> HIDE DEF p, q
<1>7. Repacked(p, q) = z
  BY <1>2, <1>4, <1>5, <1>6, RepackedLanes
<1>8. QED BY <1>7 DEF p, q, z

(* The code of it.                                                          *)
LEMMA WordsStep ==
    ASSUME use_sse2, NEW m \in Machines, NEW op \in ShiftVec, NEW t \in Temps \cap Regs16,
           NEW b, Sourced(op, b), NEW c \in Int, Source(m, b)[1] = c
    PROVE  /\ \E n : Sets(m, LegacyWords(op, b)[t], n, t, Words(op, c)[m.x[t]])
           /\ use_avx => \E n : Sets(m, AvxWords(op, b)[t], n, t, Words(op, c)[m.x[t]])
<1> DEFINE a == m.x[t]
           y == Shifted(op, W16, a, c)
           z == Shifted("psrl", W16, y, W8)
<1>1. W16 \in Widths /\ "psrl" \in ShiftVec /\ W8 \in Int /\ a \in Vector /\ t \in Regs16
  BY WidthFacts, Parts16 DEF ShiftVec
<1>2. Words(op, c)[a] = z
  BY <1>1 DEF Words
<1>3. /\ ExecVector(op, W16, a, Source(m, b)) = y
      /\ Sourced("psrl", I(W8))
      /\ \A n : Source(n, I(W8)) = << W8, 0 >>
  BY <1>1, CountOnly, Operand
<1> HIDE DEF a, y, z
<1>4. \E n : Sets(m, LegacyWords(op, b)[t], n, t, z)
  <2>1. PICK n : Sets(m, Legacy(op, W16, t, b), n, t, y)
    BY <1>1, <1>3, LegacyShift DEF a
  <2>2. n \in Machines /\ n.x[t] = y
    BY <2>1 DEF Sets, After
  <2>3. PICK o : Sets(n, Legacy("psrl", W16, t, I(W8)), o, t, ExecVector("psrl", W16, n.x[t], Source(n, I(W8))))
    BY <1>1, <1>3, <2>2, LegacyShift
  <2>4. ExecVector("psrl", W16, n.x[t], Source(n, I(W8))) = z
    BY <1>3, <2>2 DEF z, Shifted
  <2>5. Sets(m, Legacy(op, W16, t, b) \o Legacy("psrl", W16, t, I(W8)), o, t, z)
    BY <1>1, <2>1, <2>3, <2>4, SetsAgain
  <2>6. LegacyWords(op, b)[t] = Legacy(op, W16, t, b) \o Legacy("psrl", W16, t, I(W8))
    BY DEF LegacyWords
  <2>7. QED BY <2>5, <2>6
<1>5. ASSUME use_avx
      PROVE  \E n : Sets(m, AvxWords(op, b)[t], n, t, z)
  <2>1. PICK n : Sets(m, Avx(op, W16, t, t, b), n, t, y)
    BY <1>1, <1>3, <1>5, AvxShift DEF a
  <2>2. n \in Machines /\ n.x[t] = y
    BY <2>1 DEF Sets, After
  <2>3. PICK o : Sets(n, Avx("psrl", W16, t, t, I(W8)), o, t, ExecVector("psrl", W16, n.x[t], Source(n, I(W8))))
    BY <1>1, <1>3, <1>5, <2>2, AvxShift
  <2>4. ExecVector("psrl", W16, n.x[t], Source(n, I(W8))) = z
    BY <1>3, <2>2 DEF z, Shifted
  <2>5. Sets(m, Avx(op, W16, t, t, b) \o Avx("psrl", W16, t, t, I(W8)), o, t, z)
    BY <1>1, <2>1, <2>3, <2>4, SetsAgain
  <2>6. AvxWords(op, b)[t] = Avx(op, W16, t, t, b) \o Avx("psrl", W16, t, t, I(W8))
    BY DEF AvxWords
  <2>7. QED BY <2>5, <2>6
<1>6. QED BY <1>2, <1>4, <1>5 DEF a

(* The shift instructions in both forms.                                    *)
LEMMA ShiftStep ==
    ASSUME use_sse2, NEW m \in Machines, NEW op \in ShiftVec, NEW w \in Widths,
           NEW d \in Regs16, NEW a \in Regs16, NEW b, Sourced(op, b)
    PROVE  /\ \E n : Sets(m, Legacy(op, w, d, b), n, d, Shifted(op, w, m.x[d], Source(m, b)[1]))
           /\ use_avx => \E n : Sets(m, Avx(op, w, d, a, b), n, d, Shifted(op, w, m.x[a], Source(m, b)[1]))
<1>1. \A y : ExecVector(op, w, y, Source(m, b)) = Shifted(op, w, y, Source(m, b)[1])
  BY CountOnly
<1>2. \E n : Sets(m, Legacy(op, w, d, b), n, d, Shifted(op, w, m.x[d], Source(m, b)[1]))
  BY <1>1, LegacyShift
<1>3. ASSUME use_avx
      PROVE  \E n : Sets(m, Avx(op, w, d, a, b), n, d, Shifted(op, w, m.x[a], Source(m, b)[1]))
  BY <1>1, <1>3, AvxShift
<1>4. QED BY <1>2, <1>3

(* Bytes shifted by a count that the code in between leaves alone.          *)
LEMMA BytesShiftStep ==
    ASSUME use_sse2, NEW m \in Machines, NEW x, Free(x), x \ {alloc_(x)} # {},
           NEW d \in Regs16 \ x, NEW src \in Regs16 \ x,
           NEW zero \in {"avx", "sse2", "any"}, zero = "avx" => use_avx,
           NEW op \in ShiftVec, NEW b, Sourced(op, b), NEW c \in Int,
           NEW q \in Regs16 \ x, \A n \in Machines : n.x[q] = m.x[q] => Source(n, b)[1] = c,
           NEW shift, shift = LegacyWords(op, b) \/ (use_avx /\ shift = AvxWords(op, b))
    PROVE  \E n : Does(m, Bytes(d, src, zero, shift, x), n, d, Shifted(op, W8, m.x[src], c), x)
<1> DEFINE F == Words(op, c)
<1>1. ASSUME NEW t \in x, NEW n \in Machines, n.x[q] = m.x[q]
      PROVE  \E o : Sets(n, shift[t], o, t, F[n.x[t]])
  <2>1. t \in Temps \cap Regs16 /\ Source(n, b)[1] = c
    BY <1>1, Temporaries DEF Free, Temps
  <2>2. /\ \E o : Sets(n, LegacyWords(op, b)[t], o, t, Words(op, c)[n.x[t]])
        /\ use_avx => \E o : Sets(n, AvxWords(op, b)[t], o, t, Words(op, c)[n.x[t]])
    BY <2>1, WordsStep
  <2>3. QED BY <2>2
<1>2. Repacked(F[LowBytes(m.x[src])], F[HighBytes(m.x[src])]) = Shifted(op, W8, m.x[src], c)
  BY Parts16, BytesShifted
<1> HIDE DEF F
<1>3. \A t \in x : \A n \in Machines : n.x[q] = m.x[q] => \E o : Sets(n, shift[t], o, t, F[n.x[t]])
  BY <1>1
<1>4. \E n : Does(m, Bytes(d, src, zero, shift, x), n, d,
                  Repacked(F[LowBytes(m.x[src])], F[HighBytes(m.x[src])]), x)
  BY <1>3, BytesStep
<1>5. QED BY <1>2, <1>4

(* A move, and then code that works on the copy.                            *)
LEMMA MovedThen ==
    ASSUME NEW m, NEW n, NEW o, NEW s, NEW t, NEW d, NEW a, NEW z, NEW x,
           Sets(m, s, n, d, a), Does(n, t, o, d, z, x)
    PROVE  Does(m, s \o t, o, d, z, x)
<1>1. d \in x \cup {d} /\ x \cup {d} \subseteq x \cup {d} /\ x \subseteq x \cup {d}
  OBVIOUS
<1>2. Leaves(m, s, n, x \cup {d})
  BY <1>1, SetsLeaves
<1>3. QED BY <1>1, <1>2, DoesThen

(* Shifts to the left by an immediate.                                      *)
LEMMA ShiftLeftImmediate ==
    ASSUME use_sse2, NEW m \in Machines, NEW type \in IntTypes, NEW x, Free(x), x \ {alloc_(x)} # {},
           NEW d \in Regs16 \ x, NEW s \in Regs16 \ x, NEW c \in Int
    PROVE  \E n : Does(m, emit_vslli(type, d, s, c, x), n, d, Shifted("psll", Width(type), m.x[s], c), x)
<1> DEFINE w == Width(type)
           z == Shifted("psll", w, m.x[s], c)
           b == I(c)
<1>1. /\ w \in Widths /\ "psll" \in ShiftVec /\ Sourced("psll", b)
      /\ \A n : Source(n, b)[1] = c
  <2>1. "psll" \in ShiftVec
    BY DEF ShiftVec
  <2>2. \A n : Source(n, b) = << c, 0 >>
    BY Operand
  <2>3. QED BY <2>1, <2>2, WidthsInRange, Operand
<1> HIDE DEF b, w
<1>2. CASE use_avx
  <2>1. CASE w = W8
    <3>1. emit_vslli(type, d, s, c, x) = Bytes(d, s, "avx", AvxWords("psll", b), x)
      BY <1>2, <2>1 DEF emit_vslli, emit_vslli_avx, Choose, w, b
    <3> DEFINE shift == AvxWords("psll", b)
    <3>2. shift = LegacyWords("psll", b) \/ (use_avx /\ shift = AvxWords("psll", b))
      BY <1>2
    <3> HIDE DEF shift
    <3>3. "avx" \in {"avx", "sse2", "any"} /\ \A n \in Machines : n.x[d] = m.x[d] => Source(n, b)[1] = c
      BY <1>1
    <3>4. \E n : Does(m, Bytes(d, s, "avx", shift, x), n, d, Shifted("psll", W8, m.x[s], c), x)
      BY <1>1, <1>2, <3>2, <3>3, BytesShiftStep
    <3>5. QED BY <2>1, <3>1, <3>4 DEF shift, w
  <2>2. CASE w # W8
    <3>1. emit_vslli(type, d, s, c, x) = Avx("psll", w, d, s, b)
      BY <1>2, <2>2 DEF emit_vslli, emit_vslli_avx, Choose, w, b
    <3>2. \E n : Sets(m, Avx("psll", w, d, s, b), n, d, Shifted("psll", w, m.x[s], Source(m, b)[1]))
      BY <1>1, <1>2, ShiftStep
    <3>3. \E n : Sets(m, Avx("psll", w, d, s, b), n, d, z)
      BY <1>1, <3>2
    <3> HIDE DEF z
    <3>4. QED BY <3>1, <3>3, SetsDoes DEF z, w
  <2>3. QED BY <2>1, <2>2
<1>3. CASE ~use_avx
  <2>1. PICK n : Sets(m, emit_vmov(d, s), n, d, m.x[s])
    BY Move
  <2>2. n \in Machines /\ n.x[d] = m.x[s]
    BY <2>1 DEF Sets, After
  <2>3. CASE w = W8
    <3> DEFINE shift == LegacyWords("psll", b)
    <3>1. emit_vslli(type, d, s, c, x) = emit_vmov(d, s) \o Bytes(d, d, "sse2", shift, x)
      BY <1>3, <2>3 DEF emit_vslli, emit_vslli_sse2, Choose, w, b
    <3>2. shift = LegacyWords("psll", b) \/ (use_avx /\ shift = AvxWords("psll", b))
      OBVIOUS
    <3> HIDE DEF shift
    <3>3. /\ "sse2" \in {"avx", "sse2", "any"} /\ ("sse2" = "avx" => use_avx)
          /\ \A o \in Machines : o.x[d] = n.x[d] => Source(o, b)[1] = c
      BY <1>1
    <3>4. \E o : Does(n, Bytes(d, d, "sse2", shift, x), o, d, Shifted("psll", W8, n.x[d], c), x)
      BY <1>1, <2>2, <3>2, <3>3, BytesShiftStep
    <3>5. \E o : Does(m, emit_vmov(d, s) \o Bytes(d, d, "sse2", shift, x), o, d,
                      Shifted("psll", W8, n.x[d], c), x)
      BY <2>1, <3>4, MovedThen
    <3>6. QED BY <2>2, <2>3, <3>1, <3>5 DEF w
  <2>4. CASE w # W8
    <3>1. emit_vslli(type, d, s, c, x) = emit_vmov(d, s) \o Legacy("psll", w, d, b)
      BY <1>3, <2>4 DEF emit_vslli, emit_vslli_sse2, Choose, w, b
    <3>2. PICK o : Sets(n, Legacy("psll", w, d, b), o, d, Shifted("psll", w, n.x[d], Source(n, b)[1]))
      BY <1>1, <2>2, ShiftStep
    <3>3. Shifted("psll", w, n.x[d], Source(n, b)[1]) = z
      BY <1>1, <2>2
    <3> HIDE DEF z
    <3>4. Sets(m, emit_vmov(d, s) \o Legacy("psll", w, d, b), o, d, z)
      BY <2>1, <3>2, <3>3, SetsAgain
    <3>5. QED BY <3>1, <3>4, SetsDoes DEF z, w
  <2>5. QED BY <2>3, <2>4
<1>4. QED BY <1>2, <1>3

(* Shifts to the right by an immediate: the bytes at once, which takes a    *)
(* count that is not negative.                                              *)
LEMMA ShiftRightImmediate ==
    ASSUME use_sse2, NEW m \in Machines, NEW type \in IntTypes, NEW x, Free(x), x \ {alloc_(x)} # {},
           NEW d \in Regs16 \ x, NEW s \in Regs16 \ x, NEW c \in Int
    PROVE  \E n, z : /\ Does(m, emit_vsrli(type, d, s, c, x), n, d, z, x)
                     /\ c \in Nat => z = Shifted("psrl", Width(type), m.x[s], c)
<1> DEFINE w == Width(type)
<1>1. w \in Widths /\ "psrl" \in ShiftVec /\ W8 \in Int /\ W8 + c \in Int /\ W16 \in Widths
  BY WidthsInRange, WidthFacts DEF ShiftVec
<1>2. PICK n : Sets(m, emit_vmov(d, s), n, d, m.x[s])
  BY Move
<1>3. n \in Machines /\ n.x[d] = m.x[s]
  BY <1>2 DEF Sets, After
<1> HIDE DEF w
<1>4. CASE w = W8
  <2> DEFINE b == I(W8 + c)
             shift == [t \in Temps |-> Legacy("psrl", W16, t, I(W8 + c))]
             F == WordsAtOnce(c)
             u == Repacked(F[LowBytes(n.x[d])], F[HighBytes(n.x[d])])
  <2>1. emit_vsrli(type, d, s, c, x) = emit_vmov(d, s) \o Bytes(d, d, "any", shift, x)
    BY <1>4 DEF emit_vsrli, w
  <2>2. Sourced("psrl", b) /\ \A o : Source(o, b)[1] = W8 + c
    <3>1. \A o : Source(o, b) = << W8 + c, 0 >>
      BY Operand
    <3>2. QED BY <1>1, <3>1, Operand
  <2>3. ASSUME NEW t \in x, NEW o \in Machines
        PROVE  \E p : Sets(o, shift[t], p, t, F[o.x[t]])
    <3>1. t \in Temps /\ t \in Regs16 /\ o.x[t] \in Vector
      BY Temporaries, Parts16 DEF Free, Temps
    <3>2. shift[t] = Legacy("psrl", W16, t, b) /\ F[o.x[t]] = Shifted("psrl", W16, o.x[t], W8 + c)
      BY <3>1 DEF WordsAtOnce
    <3> HIDE DEF b, shift, F
    <3>3. \E p : Sets(o, Legacy("psrl", W16, t, b), p, t, Shifted("psrl", W16, o.x[t], Source(o, b)[1]))
      BY <1>1, <2>2, <3>1, ShiftStep
    <3>4. QED BY <2>2, <3>2, <3>3
  <2>4. c \in Nat => u = Shifted("psrl", W8, n.x[d], c)
    <3>1. n.x[d] \in Vector
      BY <1>3, Parts16
    <3>2. QED BY <3>1, BytesShiftedAtOnce
  <2> HIDE DEF b, shift, F
  <2>5. /\ "any" \in {"avx", "sse2", "any"} /\ ("any" = "avx" => use_avx)
        /\ \A t \in x : \A o \in Machines : o.x[d] = n.x[d] => \E p : Sets(o, shift[t], p, t, F[o.x[t]])
    BY <2>3
  <2>6. PICK o : Does(n, Bytes(d, d, "any", shift, x), o, d, u, x)
    BY <1>3, <2>5, BytesStep
  <2> HIDE DEF u
  <2>7. Does(m, emit_vmov(d, s) \o Bytes(d, d, "any", shift, x), o, d, u, x)
    BY <1>2, <2>6, MovedThen
  <2>8. QED BY <1>3, <1>4, <2>1, <2>4, <2>7 DEF w
<1>5. CASE w # W8
  <2> DEFINE b == I(c)
             z == Shifted("psrl", w, m.x[s], c)
  <2>1. emit_vsrli(type, d, s, c, x) = emit_vmov(d, s) \o Legacy("psrl", w, d, b)
    BY <1>5 DEF emit_vsrli, w
  <2>2. Sourced("psrl", b) /\ \A o : Source(o, b)[1] = c
    <3>1. \A o : Source(o, b) = << c, 0 >>
      BY Operand
    <3>2. QED BY <1>1, <3>1, Operand
  <2> HIDE DEF b
  <2>3. PICK o : Sets(n, Legacy("psrl", w, d, b), o, d, Shifted("psrl", w, n.x[d], Source(n, b)[1]))
    BY <1>1, <1>3, <2>2, ShiftStep
  <2>4. Shifted("psrl", w, n.x[d], Source(n, b)[1]) = z
    BY <1>3, <2>2
  <2> HIDE DEF z
  <2>5. Sets(m, emit_vmov(d, s) \o Legacy("psrl", w, d, b), o, d, z)
    BY <1>2, <2>3, <2>4, SetsAgain
  <2>6. Does(m, emit_vsrli(type, d, s, c, x), o, d, z, x)
    BY <2>1, <2>5, SetsDoes
  <2>7. QED BY <2>6 DEF z, w
<1>6. QED BY <1>4, <1>5

-----------------------------------------------------------------------------
(* Code that changes vector registers of x and general purpose ones of G.   *)
Only(m, s, n, x, G) ==
    /\ After(m, s, n)
    /\ \A y \in Regs16 \ x : n.x[y] = m.x[y]
    /\ \A y \in Regs16 \ G : n.g[y] = m.g[y]

(* Code that changes only some vector and some scalar registers,            *)
LEMMA SetsOnly ==
    ASSUME NEW m, NEW n, NEW s, NEW d, NEW z, NEW x, NEW G, Sets(m, s, n, d, z), d \in x
    PROVE  Only(m, s, n, x, G) /\ n \in Machines
BY DEF Sets, Only, After

(* be it by a vector or by a scalar instruction,                            *)
LEMMA LoadsOnly ==
    ASSUME NEW m, NEW n, NEW s, NEW d, NEW z, NEW x, NEW G, Loads(m, s, n, d, z), d \in G
    PROVE  Only(m, s, n, x, G) /\ n \in Machines
BY DEF Loads, Only, After

(* or by one piece of code after the other,                                 *)
LEMMA OnlyConcat ==
    ASSUME NEW m, NEW n, NEW o, NEW s, NEW t, NEW x, NEW G, Only(m, s, n, x, G), Only(n, t, o, x, G)
    PROVE  Only(m, s \o t, o, x, G)
<1>1. After(m, s \o t, o)
  BY AfterConcat DEF Only
<1>2. QED BY <1>1 DEF Only

(* a vector instruction                                                     *)
LEMMA SetsNext ==
    ASSUME NEW m, NEW n, NEW o, NEW s, NEW t, NEW x, NEW G, NEW d, NEW z,
           Only(m, s, n, x, G), Sets(n, t, o, d, z), d \in x
    PROVE  Only(m, s \o t, o, x, G) /\ o \in Machines
BY SetsOnly, OnlyConcat

(* or a scalar one after it.                                                *)
LEMMA LoadsNext ==
    ASSUME NEW m, NEW n, NEW o, NEW s, NEW t, NEW x, NEW G, NEW d, NEW z,
           Only(m, s, n, x, G), Loads(n, t, o, d, z), d \in G
    PROVE  Only(m, s \o t, o, x, G) /\ o \in Machines
BY LoadsOnly, OnlyConcat

(* The lanes of 64 bits are the two words.                                  *)
LEMMA LaneWord ==
    ASSUME NEW a \in Vector
    PROVE  /\ LaneIndex(W64) = {0, 1}
           /\ Lane(W64, a, 0) = a[1] /\ Lane(W64, a, 1) = a[2]
<1>1. W64 \in Widths /\ PerWord(W64) = 1 /\ W64 \in 0 .. W64
  BY WidthFacts, PerWords
<1>2. LaneIndex(W64) = {0, 1}
  BY <1>1 DEF LaneIndex
<1>3. a[1] \in Word /\ a[2] \in Word /\ a[1] \in Int /\ a[2] \in Int
  BY VectorParts
<1>4. Place(W64)[0] = 1
  BY <1>1, PlaceScale DEF Scale
<1>5. \A y \in Word : y \in Int => Digit(y, 1, 2 ^ W64) = y
  <2>1. SUFFICES ASSUME NEW y \in Word, y \in Int
                 PROVE  Digit(y, 1, 2 ^ W64) = y
    OBVIOUS
  <2>2. y \div 1 = y
    <3>1. y = 1 * y + 0 /\ 0 \in 0 .. 1 - 1 /\ 1 \in Nat \ {0}
      BY <2>1
    <3>2. QED BY <2>1, <3>1, ModUnique
  <2>3. Low(W64, y) = y
    BY <1>1, LowId DEF Word
  <2>4. QED BY <2>2, <2>3 DEF Digit, Low
<1>6. Lane(W64, a, 0) = a[1]
  <2>1. 0 \in {0, 1} /\ 0 \in 0 .. PerWord(W64) - 1 /\ 0 * PerWord(W64) + 0 = 0 /\ 0 + 1 = 1
    BY <1>1
  <2>2. Lane(W64, a, 0 * PerWord(W64) + 0) = Digit(a[0 + 1], Place(W64)[0], 2 ^ W64)
    BY <1>1, <2>1, LaneOf
  <2>3. QED BY <1>3, <1>4, <1>5, <2>1, <2>2
<1>7. Lane(W64, a, 1) = a[2]
  <2>1. 1 \in {0, 1} /\ 0 \in 0 .. PerWord(W64) - 1 /\ 1 * PerWord(W64) + 0 = 1 /\ 1 + 1 = 2
    BY <1>1
  <2>2. Lane(W64, a, 1 * PerWord(W64) + 0) = Digit(a[1 + 1], Place(W64)[0], 2 ^ W64)
    BY <1>1, <2>1, LaneOf
  <2>3. QED BY <1>3, <1>4, <1>5, <2>1, <2>2
<1>8. QED BY <1>2, <1>6, <1>7

(* Two words joined to a vector.                                            *)
LEMMA Joined ==
    ASSUME NEW p \in Word, NEW q \in Word
    PROVE  << p, 0 >> \in Vector /\ << q, 0 >> \in Vector
           /\ ExecVector("punpckl", W64, << p, 0 >>, << q, 0 >>) = << p, q >>
<1> DEFINE a == << p, 0 >>
           b == << q, 0 >>
           c == << p, q >>
<1>1. a \in Vector /\ b \in Vector /\ c \in Vector /\ W64 \in Widths
  BY WidthFacts, ConstantLanes DEF Vector, Zero
<1>2. a[1] = p /\ b[1] = q /\ c[1] = p /\ c[2] = q
  OBVIOUS
<1> HIDE DEF a, b, c
<1>3. ExecVector("punpckl", W64, a, b) = Unpack(W64, a, b, 0)
  BY <1>1, WordMoves
<1> DEFINE z == Unpack(W64, a, b, 0)
<1>4. z \in Vector /\ \A k \in LaneIndex(W64) :
          Lane(W64, z, k) = Lane(W64, IF k % 2 = 0 THEN a ELSE b, 0 + k \div 2)
  BY <1>1, UnpackLanes
<1> HIDE DEF z
<1>5. LaneIndex(W64) = {0, 1}
  BY <1>1, LaneWord
<1>6. Lane(W64, z, 0) = Lane(W64, a, 0) /\ Lane(W64, z, 1) = Lane(W64, b, 0)
  <2>1. 0 % 2 = 0 /\ 0 + 0 \div 2 = 0 /\ 1 % 2 # 0 /\ 0 + 1 \div 2 = 0
    OBVIOUS
  <2>2. QED BY <1>4, <1>5, <2>1
<1>7. Lane(W64, a, 0) = p /\ Lane(W64, b, 0) = q /\ Lane(W64, c, 0) = p /\ Lane(W64, c, 1) = q
  BY <1>1, <1>2, LaneWord
<1>8. z = c
  BY <1>1, <1>4, <1>5, <1>6, <1>7, SameLanes
<1>9. QED BY <1>1, <1>3, <1>8 DEF a, b, c, z

(* Both halves of a vector go through a general purpose register, in which  *)
(* they are shifted.                                                        *)
HalvedBoth(a, k) == << Halved(a[1], k), Halved(a[2], k) >>

(* The code of one half; and the whole: out, shifted, back, for each half.  *)
Halves1(n, code1, k) ==
    \A o \in Machines : (\A y \in Regs16 \ {T0} : o.g[y] = n.g[y])
        => \E p : Loads(o, code1, p, T0, Halved(o.g[T0], k))
Halfway(c, d, t, code1) ==
    c \o << VInstr("fromxmm", W64, T0, T0, X(d), FALSE) >> \o code1
      \o << VInstr("toxmm", W64, d, d, I(T0), FALSE) >>
      \o Legacy("movhlps", W64, t, X(t))
      \o << VInstr("fromxmm", W64, T0, T0, X(t), FALSE) >> \o code1
      \o << VInstr("toxmm", W64, t, t, I(T0), FALSE) >>
      \o Legacy("punpckl", W64, d, X(t))

(* 64-bit lanes shifted one by one in a scalar register.                    *)
LEMMA HalvesStep ==
    ASSUME use_sse2, NEW m, NEW n, NEW c, NEW x, NEW G, Only(m, c, n, x, G), n \in Machines,
           NEW d \in Regs16, d \in x, NEW t \in Regs16, t \in x, d # t, T0 \in G,
           NEW a \in Vector, n.x[d] = a, n.x[t] = a, NEW code1, NEW k \in Int,
           Halves1(n, code1, k)
    PROVE  \E p : /\ Only(m, Halfway(c, d, t, code1), p, x, G)
                  /\ p.x[d] = HalvedBoth(a, k)
                  /\ \A y \in Regs16 \ {T0} : p.g[y] = n.g[y]
<1> DEFINE h1 == Halved(a[1], k)
           h2 == Halved(a[2], k)
           z1 == << h1, 0 >>
           z2 == << h2, 0 >>
           i1 == << VInstr("fromxmm", W64, T0, T0, X(d), FALSE) >>
           i2 == << VInstr("toxmm", W64, d, d, I(T0), FALSE) >>
           i3 == Legacy("movhlps", W64, t, X(t))
           i4 == << VInstr("fromxmm", W64, T0, T0, X(t), FALSE) >>
           i5 == << VInstr("toxmm", W64, t, t, I(T0), FALSE) >>
           i6 == Legacy("punpckl", W64, d, X(t))
           Same(o) == \A y \in Regs16 \ {T0} : o.g[y] = n.g[y]
<1>1. /\ T0 \in Regs16 /\ W64 \in Widths /\ W64 \in 0 .. W64
      /\ "movhlps" \in VectorOps /\ "punpckl" \in VectorOps
      /\ PlainUse("movhlps", W64) /\ PlainUse("punpckl", W64)
      /\ a[1] \in Word /\ a[2] \in Word
  BY Temporaries, Parts16, WidthFacts, VectorParts DEF VectorOps, PlainUse
<1>2. h1 \in Word /\ h2 \in Word /\ Low(W64, h1) = h1 /\ Low(W64, h2) = h2
  <2>1. h1 \in Word /\ h2 \in Word
    BY <1>1, HalvedTyped
  <2> HIDE DEF h1, h2
  <2>2. QED BY <1>1, <2>1, LowId DEF Word
<1>3. ExecVector("punpckl", W64, z1, z2) = << h1, h2 >>
  <2> HIDE DEF h1, h2
  <2>1. QED BY <1>2, Joined
<1> HIDE DEF h1, h2
<1>4. PICK n1 : Loads(n, i1, n1, T0, a[1])
  BY <1>1, FromXmmStep
<1>5. /\ Only(m, c \o i1, n1, x, G) /\ n1 \in Machines /\ Same(n1)
      /\ n1.g[T0] = a[1] /\ n1.x[t] = a
  <2>1. Only(m, c \o i1, n1, x, G) /\ n1 \in Machines
    BY <1>4, LoadsNext
  <2>2. QED BY <1>4, <2>1 DEF Loads
<1>6. PICK n2 : Loads(n1, code1, n2, T0, h1)
  BY <1>5 DEF h1, Halves1
<1>7. /\ Only(m, c \o i1 \o code1, n2, x, G) /\ n2 \in Machines /\ Same(n2)
      /\ n2.g[T0] = h1 /\ n2.x[t] = a
  <2>1. Only(m, c \o i1 \o code1, n2, x, G) /\ n2 \in Machines
    BY <1>5, <1>6, LoadsNext
  <2>2. n2.x = n1.x /\ n2.g[T0] = h1 /\ \A y \in Regs16 \ {T0} : n2.g[y] = n1.g[y]
    BY <1>6 DEF Loads
  <2>3. QED BY <1>5, <2>1, <2>2
<1>8. PICK n3 : Sets(n2, i2, n3, d, << Low(W64, n2.g[T0]), 0 >>)
  BY <1>1, <1>7, ToXmmStep
<1>9. /\ Only(m, c \o i1 \o code1 \o i2, n3, x, G) /\ n3 \in Machines /\ Same(n3)
      /\ n3.x[d] = z1 /\ n3.x[t] = a
  <2>1. Only(m, c \o i1 \o code1 \o i2, n3, x, G) /\ n3 \in Machines
    BY <1>7, <1>8, SetsNext
  <2>2. n3.g = n2.g /\ n3.x[d] = << Low(W64, n2.g[T0]), 0 >> /\ \A y \in Regs16 \ {d} : n3.x[y] = n2.x[y]
    BY <1>8 DEF Sets
  <2>3. QED BY <1>2, <1>7, <2>1, <2>2
<1>10. PICK n4 : Sets(n3, i3, n4, t, ExecVector("movhlps", W64, n3.x[t], n3.x[t]))
  BY <1>1, <1>9, LegacyStep
<1>11. /\ Only(m, c \o i1 \o code1 \o i2 \o i3, n4, x, G) /\ n4 \in Machines /\ Same(n4)
       /\ n4.x[d] = z1 /\ n4.x[t] = << a[2], a[2] >>
  <2>1. Only(m, c \o i1 \o code1 \o i2 \o i3, n4, x, G) /\ n4 \in Machines
    BY <1>9, <1>10, SetsNext
  <2>2. /\ n4.g = n3.g /\ n4.x[t] = ExecVector("movhlps", W64, n3.x[t], n3.x[t])
        /\ \A y \in Regs16 \ {t} : n4.x[y] = n3.x[y]
    BY <1>10 DEF Sets
  <2>3. ExecVector("movhlps", W64, a, a) = << a[2], a[2] >>
    BY WordMoves
  <2>4. QED BY <1>9, <2>1, <2>2, <2>3
<1>12. PICK n5 : Loads(n4, i4, n5, T0, n4.x[t][1])
  BY <1>1, <1>11, FromXmmStep
<1>13. /\ Only(m, c \o i1 \o code1 \o i2 \o i3 \o i4, n5, x, G) /\ n5 \in Machines /\ Same(n5)
       /\ n5.x[d] = z1 /\ n5.g[T0] = a[2]
  <2>1. Only(m, c \o i1 \o code1 \o i2 \o i3 \o i4, n5, x, G) /\ n5 \in Machines
    BY <1>11, <1>12, LoadsNext
  <2>2. n5.x = n4.x /\ n5.g[T0] = n4.x[t][1] /\ \A y \in Regs16 \ {T0} : n5.g[y] = n4.g[y]
    BY <1>12 DEF Loads
  <2>3. QED BY <1>11, <2>1, <2>2
<1>14. PICK n6 : Loads(n5, code1, n6, T0, h2)
  BY <1>13 DEF h2, Halves1
<1>15. /\ Only(m, c \o i1 \o code1 \o i2 \o i3 \o i4 \o code1, n6, x, G) /\ n6 \in Machines /\ Same(n6)
       /\ n6.x[d] = z1 /\ n6.g[T0] = h2
  <2>1. Only(m, c \o i1 \o code1 \o i2 \o i3 \o i4 \o code1, n6, x, G) /\ n6 \in Machines
    BY <1>13, <1>14, LoadsNext
  <2>2. n6.x = n5.x /\ n6.g[T0] = h2 /\ \A y \in Regs16 \ {T0} : n6.g[y] = n5.g[y]
    BY <1>14 DEF Loads
  <2>3. QED BY <1>13, <2>1, <2>2
<1>16. PICK n7 : Sets(n6, i5, n7, t, << Low(W64, n6.g[T0]), 0 >>)
  BY <1>1, <1>15, ToXmmStep
<1>17. /\ Only(m, c \o i1 \o code1 \o i2 \o i3 \o i4 \o code1 \o i5, n7, x, G) /\ n7 \in Machines /\ Same(n7)
       /\ n7.x[d] = z1 /\ n7.x[t] = z2
  <2>1. Only(m, c \o i1 \o code1 \o i2 \o i3 \o i4 \o code1 \o i5, n7, x, G) /\ n7 \in Machines
    BY <1>15, <1>16, SetsNext
  <2>2. n7.g = n6.g /\ n7.x[t] = << Low(W64, n6.g[T0]), 0 >> /\ \A y \in Regs16 \ {t} : n7.x[y] = n6.x[y]
    BY <1>16 DEF Sets
  <2>3. QED BY <1>2, <1>15, <2>1, <2>2
<1>18. PICK n8 : Sets(n7, i6, n8, d, ExecVector("punpckl", W64, n7.x[d], n7.x[t]))
  BY <1>1, <1>17, LegacyStep
<1>19. /\ Only(m, c \o i1 \o code1 \o i2 \o i3 \o i4 \o code1 \o i5 \o i6, n8, x, G) /\ Same(n8)
       /\ n8.x[d] = << h1, h2 >>
  <2>1. Only(m, c \o i1 \o code1 \o i2 \o i3 \o i4 \o code1 \o i5 \o i6, n8, x, G)
    BY <1>17, <1>18, SetsNext
  <2>2. n8.g = n7.g /\ n8.x[d] = ExecVector("punpckl", W64, n7.x[d], n7.x[t])
    BY <1>18 DEF Sets
  <2>3. QED BY <1>3, <1>17, <2>1, <2>2
<1>20. QED BY <1>19 DEF HalvedBoth, h1, h2, Halfway

-----------------------------------------------------------------------------
(* Arithmetic shifts to the right by an immediate.                          *)
LEMMA ArithmeticImmediate ==
    ASSUME use_sse2, NEW m \in Machines, NEW type \in IntTypes, NEW x, Free(x), x \ {alloc_(x)} # {},
           NEW d \in Regs16 \ x, NEW s \in Regs16 \ x, NEW c \in Int
    PROVE  \E n : Does(m, emit_vsrai(type, d, s, c, x), n, d,
                       IF Width(type) = W64 THEN HalvedBoth(m.x[s], c)
                                            ELSE Shifted("psra", Width(type), m.x[s], c), x)
<1> DEFINE w == Width(type)
           b == I(c)
<1>1. /\ w \in Widths /\ "psra" \in ShiftVec /\ Sourced("psra", b)
      /\ \A n : Source(n, b)[1] = c
  <2>1. "psra" \in ShiftVec
    BY DEF ShiftVec
  <2>2. \A n : Source(n, b) = << c, 0 >>
    BY Operand
  <2>3. QED BY <2>1, <2>2, WidthsInRange, Operand
<1>2. W8 # W16 /\ W8 # W32 /\ W8 # W64 /\ W16 # W32 /\ W16 # W64 /\ W32 # W64
  BY WidthAssumption
<1>3. PICK n : Sets(m, emit_vmov(d, s), n, d, m.x[s])
  BY Move
<1>4. n \in Machines /\ n.x[d] = m.x[s] /\ m.x[s] \in Vector
  BY <1>3, Parts16 DEF Sets, After
<1>5. CASE w = W8
  <2> DEFINE shift == LegacyWords("psra", I(c))
  <2>1. emit_vsrai(type, d, s, c, x) = emit_vmov(d, s) \o Bytes(d, d, "any", shift, x)
    BY <1>2, <1>5 DEF emit_vsrai
  <2>2. shift = LegacyWords("psra", b) \/ (use_avx /\ shift = AvxWords("psra", b))
    OBVIOUS
  <2> HIDE DEF shift, b, w
  <2>3. /\ "any" \in {"avx", "sse2", "any"} /\ ("any" = "avx" => use_avx)
        /\ \A o \in Machines : o.x[d] = n.x[d] => Source(o, b)[1] = c
    BY <1>1
  <2>4. \E o : Does(n, Bytes(d, d, "any", shift, x), o, d, Shifted("psra", W8, n.x[d], c), x)
    BY <1>1, <1>4, <2>2, <2>3, BytesShiftStep
  <2>5. \E o : Does(m, emit_vmov(d, s) \o Bytes(d, d, "any", shift, x), o, d,
                    Shifted("psra", W8, n.x[d], c), x)
    BY <1>3, <2>4, MovedThen
  <2>6. QED BY <1>2, <1>4, <1>5, <2>1, <2>5 DEF w
<1>6. CASE w \in {W16, W32}
  <2>1. emit_vsrai(type, d, s, c, x) = emit_vmov(d, s) \o Legacy("psra", w, d, b)
    BY <1>2, <1>6 DEF emit_vsrai
  <2> DEFINE z == Shifted("psra", w, m.x[s], c)
  <2> HIDE DEF b, w
  <2>2. PICK o : Sets(n, Legacy("psra", w, d, b), o, d, Shifted("psra", w, n.x[d], Source(n, b)[1]))
    BY <1>1, <1>4, ShiftStep
  <2>3. Shifted("psra", w, n.x[d], Source(n, b)[1]) = z /\ w # W64
    BY <1>1, <1>2, <1>4, <1>6
  <2> HIDE DEF z
  <2>4. Sets(m, emit_vmov(d, s) \o Legacy("psra", w, d, b), o, d, z)
    BY <1>3, <2>2, <2>3, SetsAgain
  <2>5. Does(m, emit_vsrai(type, d, s, c, x), o, d, z, x)
    BY <2>1, <2>4, SetsDoes
  <2>6. QED BY <2>3, <2>5 DEF z, w
<1>7. CASE w = W64
  <2> DEFINE t == alloc_(x)
             G == {13, 14}
             S == x \cup {d}
             code1 == << VInstr("sar", W64, T0, T0, I(c), FALSE) >>
             l == Legacy("movdqa", W64, t, X(d))
             h == Halves(d, T0, t, [before |-> << >>, code |-> code1])
  <2>1. emit_vsrai(type, d, s, c, x) = emit_vmov(d, s) \o h
    BY <1>2, <1>7 DEF emit_vsrai
  <2>2. t \in x /\ t \in Regs16 /\ d # t /\ T0 \in G /\ d \in S /\ t \in S /\ T0 \in Regs16
    BY Temporaries, Parts16 DEF Free
  <2> HIDE DEF t, G, S
  <2>3. PICK o : Sets(n, l, o, t, n.x[d])
    BY <1>4, <2>2, Copy
  <2>4. Only(n, l, o, S, G) /\ o \in Machines
    BY <2>2, <2>3, SetsOnly
  <2>5. o.x[d] = m.x[s] /\ o.x[t] = m.x[s]
    BY <1>4, <2>2, <2>3 DEF Sets
  <2>6. Only(n, l \o << >>, o, S, G)
    <3>1. Sets(o, << >>, o, t, o.x[t])
      BY <2>2, <2>4, SetsNothing
    <3>2. QED BY <2>2, <2>4, <3>1, SetsNext
  <2>7. ASSUME NEW q \in Machines
        PROVE  \E p : Loads(q, code1, p, T0, Halved(q.g[T0], c))
    <3>1. I(c) \in Operands /\ I(c).kind = "imm" /\ I(c).n = c
      BY DEF I, Operands
    <3>2. QED BY <2>2, <3>1, SarStep
  <2> DEFINE c0 == l \o << >>
  <2> DEFINE e == m.x[s]
  <2> HIDE DEF code1
  <2>8. Halves1(o, code1, c)
    BY <2>7 DEF Halves1
  <2>9. /\ Only(n, c0, o, S, G) /\ o \in Machines /\ d \in Regs16 /\ d \in S /\ t \in Regs16 /\ t \in S
        /\ d # t /\ T0 \in G /\ e \in Vector /\ o.x[d] = e /\ o.x[t] = e
    BY <1>4, <2>2, <2>4, <2>5, <2>6
  <2>10. h = Halfway(c0, d, t, code1)
    BY DEF Halves, Halfway
  <2> HIDE DEF c0, e, l, h
  <2>11. \E p : /\ Only(n, Halfway(c0, d, t, code1), p, S, G)
                /\ p.x[d] = HalvedBoth(e, c)
                /\ \A y \in Regs16 \ {T0} : p.g[y] = o.g[y]
    BY <2>8, <2>9, HalvesStep
  <2>12. \E p : Does(n, h, p, d, HalvedBoth(m.x[s], c), x)
    BY <2>10, <2>11 DEF Only, Does, Leaves, S, G, e
  <2>13. \E p : Does(m, emit_vmov(d, s) \o h, p, d, HalvedBoth(m.x[s], c), x)
    BY <1>3, <2>12, MovedThen
  <2>14. QED BY <1>7, <2>1, <2>13
<1>8. QED BY <1>1, <1>5, <1>6, <1>7 DEF Widths

(* The count of a shift by a register.                                      *)
LEMMA CountStep ==
    ASSUME use_sse2, NEW m \in Machines, NEW zero \in {"avx", "sse2", "any"}, zero = "avx" => use_avx,
           NEW t \in Regs16, NEW y \in Regs16
    PROVE  \E n : Sets(m, count(zero, t, y), n, t, << m.g[y], 0 >>)
<1>1. PICK n : Sets(m, zeroed(zero, t), n, t, Zero)
  BY ZeroStep
<1>2. n \in Machines /\ n.g = m.g
  BY <1>1 DEF Sets, After
<1>3. PICK o : Sets(n, << VInstr("toxmm", W64, t, t, I(y), FALSE) >>, o, t, << Low(W64, n.g[y]), 0 >>)
  BY <1>2, WidthFacts, ToXmmStep
<1>4. Low(W64, n.g[y]) = m.g[y]
  <2>1. m.g[y] \in 0 .. 2 ^ W64 - 1
    BY Parts16 DEF Word
  <2>2. QED BY <1>2, <2>1, WidthFacts, LowId
<1>5. Sets(m, zeroed(zero, t) \o << VInstr("toxmm", W64, t, t, I(y), FALSE) >>, o, t, << m.g[y], 0 >>)
  BY <1>1, <1>3, <1>4, SetsAgain
<1>6. QED BY <1>5 DEF count

(* Room for the count and two registers of bytes.                           *)
Three(x) == Free(x) /\ x \ {alloc_(x)} # {} /\ but_one(but_one(x)) # {}

(* Three temporaries are enough for a count and a shift of bytes.           *)
LEMMA CountRegister ==
    ASSUME NEW x, Three(x)
    PROVE  /\ alloc_(x) \in x /\ alloc_(x) \in Regs16
           /\ Free(but_one(x)) /\ but_one(x) \ {alloc_(but_one(x))} # {}
           /\ alloc_(x) \notin but_one(x) /\ but_one(x) \subseteq x
BY Temporaries DEF Three, Free, but_one

(* The code for older forms, of which the left and the right shifts differ  *)
(* in how they zero registers.                                              *)
ByRegister(zero, op, type, d, s, y, x) ==
    count(zero, alloc_(x), y) \o emit_vmov(d, s)
    \o IF Width(type) = W8
       THEN Bytes(d, d, zero, LegacyWords(op, X(alloc_(x))), x \ {alloc_(x)})
       ELSE Legacy(op, Width(type), d, X(alloc_(x)))

(* A shift by a register: the count is moved to a temporary first.          *)
LEMMA ByRegisterStep ==
    ASSUME use_sse2, NEW m \in Machines, NEW type \in IntTypes, NEW x, Three(x),
           NEW d \in Regs16 \ x, NEW s \in Regs16 \ x, NEW y \in Regs16,
           NEW zero \in {"sse2", "any"}, NEW op \in ShiftVec
    PROVE  \E n : Does(m, ByRegister(zero, op, type, d, s, y, x), n, d,
                       Shifted(op, Width(type), m.x[s], m.g[y]), x)
<1> DEFINE w == Width(type)
           t == alloc_(x)
           x1 == but_one(x)
           c == m.g[y]
           b == X(t)
           z == Shifted(op, w, m.x[s], c)
           S == x \cup {d}
           c1 == count(zero, t, y)
           c2 == c1 \o emit_vmov(d, s)
<1>1. /\ w \in Widths /\ zero \in {"avx", "sse2", "any"} /\ (zero = "avx" => use_avx)
      /\ t \in x /\ t \in Regs16 /\ t # d /\ t # s /\ Free(x1) /\ x1 \ {alloc_(x1)} # {}
      /\ t \notin x1 /\ x1 \subseteq x /\ d \notin x1 /\ t \in S /\ d \in S
      /\ c \in Int
  BY WidthsInRange, CountRegister, Parts16
<1>2. Sourced(op, b) /\ \A n : Source(n, b) = n.x[t]
  BY <1>1, Operand
<1>3. x1 = x \ {t}
  BY DEF but_one
<1> HIDE DEF w, t, x1, b, S
<1>4. PICK n : Sets(m, c1, n, t, << c, 0 >>)
  BY <1>1, CountStep
<1>5. n \in Machines /\ n.x[t] = << c, 0 >> /\ n.x[s] = m.x[s] /\ Leaves(m, c1, n, S)
  BY <1>1, <1>4, SetsLeaves DEF Sets, After
<1> HIDE DEF c1
<1>6. PICK o : Sets(n, emit_vmov(d, s), o, d, n.x[s])
  BY <1>5, Move
<1>7. o \in Machines /\ o.x[t] = << c, 0 >> /\ o.x[d] = m.x[s] /\ Leaves(m, c2, o, S)
  <2>1. Leaves(m, c2, o, S) /\ o \in Machines /\ o.x[d] = n.x[s]
    BY <1>1, <1>5, <1>6, SetsThen
  <2>2. QED BY <1>1, <1>5, <1>6, <2>1 DEF Sets
<1>8. << c, 0 >>[1] = c
  OBVIOUS
<1> HIDE DEF c, c2
<1>9. S \subseteq x \cup {d} /\ x1 \subseteq x \cup {d}
  BY <1>1 DEF S
<1>10. CASE w = W8
  <2> DEFINE shift == LegacyWords(op, b)
  <2>1. ByRegister(zero, op, type, d, s, y, x) = c2 \o Bytes(d, d, zero, shift, x1)
    BY <1>3, <1>10 DEF ByRegister, w, t, b, c1, c2
  <2>2. shift = LegacyWords(op, b) \/ (use_avx /\ shift = AvxWords(op, b))
    OBVIOUS
  <2>3. t \in Regs16 \ x1 /\ d \in Regs16 \ x1 /\ \A p \in Machines : p.x[t] = o.x[t] => Source(p, b)[1] = c
    BY <1>1, <1>2, <1>7, <1>8
  <2> HIDE DEF shift
  <2>4. PICK p : Does(o, Bytes(d, d, zero, shift, x1), p, d, Shifted(op, W8, o.x[d], c), x1)
    BY <1>1, <1>2, <1>7, <2>2, <2>3, BytesShiftStep
  <2>5. Does(m, c2 \o Bytes(d, d, zero, shift, x1), p, d, Shifted(op, W8, o.x[d], c), x)
    BY <1>7, <1>9, <2>4, DoesThen
  <2>6. QED BY <1>7, <1>10, <2>1, <2>5 DEF w, c
<1>11. CASE w # W8
  <2>1. ByRegister(zero, op, type, d, s, y, x) = c2 \o Legacy(op, w, d, b)
    BY <1>11 DEF ByRegister, w, t, b, c1, c2
  <2>2. PICK p : Sets(o, Legacy(op, w, d, b), p, d, Shifted(op, w, o.x[d], Source(o, b)[1]))
    BY <1>1, <1>2, <1>7, ShiftStep
  <2>3. Shifted(op, w, o.x[d], Source(o, b)[1]) = z
    BY <1>2, <1>7, <1>8
  <2> HIDE DEF z
  <2>4. Does(o, Legacy(op, w, d, b), p, d, z, x1)
    BY <2>2, <2>3, SetsDoes
  <2>5. Does(m, c2 \o Legacy(op, w, d, b), p, d, z, x)
    BY <1>7, <1>9, <2>4, DoesThen
  <2>6. QED BY <2>1, <2>5 DEF z, w, c
<1>12. QED BY <1>10, <1>11

(* vsll,                                                                    *)
LEMMA ShiftLeft ==
    ASSUME use_sse2, NEW m \in Machines, NEW type \in IntTypes, NEW x, Three(x),
           NEW d \in Regs16 \ x, NEW s \in Regs16 \ x, NEW y \in Regs16
    PROVE  \E n : Does(m, emit_vsll(type, d, s, y, x), n, d,
                       Shifted("psll", Width(type), m.x[s], m.g[y]), x)
<1>1. CASE ~use_avx
  <2>1. emit_vsll(type, d, s, y, x) = ByRegister("sse2", "psll", type, d, s, y, x)
    BY <1>1 DEF emit_vsll, emit_vsll_sse2, Choose, ByRegister
  <2>2. "psll" \in ShiftVec
    BY DEF ShiftVec
  <2>3. QED BY <2>1, <2>2, ByRegisterStep
<1>2. CASE use_avx
  <2> DEFINE op == "psll"
             w == Width(type)
             t == alloc_(x)
             x1 == but_one(x)
             c == m.g[y]
             b == X(t)
             z == Shifted(op, w, m.x[s], c)
             S == x \cup {d}
             c1 == count("avx", t, y)
  <2>1. /\ w \in Widths /\ op \in ShiftVec
        /\ t \in x /\ t \in Regs16 /\ t # d /\ t # s /\ Free(x1) /\ x1 \ {alloc_(x1)} # {}
        /\ t \notin x1 /\ x1 \subseteq x /\ d \notin x1 /\ s \notin x1 /\ t \in S /\ d \in S
        /\ c \in Int
    BY WidthsInRange, CountRegister, Parts16 DEF ShiftVec
  <2>2. Sourced(op, b) /\ \A n : Source(n, b) = n.x[t]
    BY <2>1, Operand
  <2>3. x1 = x \ {t}
    BY DEF but_one
  <2> HIDE DEF w, t, x1, b, S
  <2>4. PICK n : Sets(m, c1, n, t, << c, 0 >>)
    BY <1>2, <2>1, CountStep
  <2>5. n \in Machines /\ n.x[t] = << c, 0 >> /\ n.x[s] = m.x[s] /\ Leaves(m, c1, n, S)
    BY <2>1, <2>4, SetsLeaves DEF Sets, After
  <2> HIDE DEF c1
  <2>6. << c, 0 >>[1] = c
    OBVIOUS
  <2> HIDE DEF c
  <2>7. S \subseteq x \cup {d} /\ x1 \subseteq x \cup {d}
    BY <2>1 DEF S
  <2>8. CASE w = W8
    <3> DEFINE shift == AvxWords(op, b)
    <3>1. emit_vsll(type, d, s, y, x) = c1 \o Bytes(d, s, "any", shift, x1)
      BY <1>2, <2>3, <2>8 DEF emit_vsll, emit_vsll_avx, Choose, w, t, b, c1
    <3>2. shift = LegacyWords(op, b) \/ (use_avx /\ shift = AvxWords(op, b))
      BY <1>2
    <3>3. /\ t \in Regs16 \ x1 /\ d \in Regs16 \ x1 /\ s \in Regs16 \ x1
          /\ \A p \in Machines : p.x[t] = n.x[t] => Source(p, b)[1] = c
          /\ "any" \in {"avx", "sse2", "any"} /\ ("any" = "avx" => use_avx)
      BY <2>1, <2>2, <2>5, <2>6
    <3> HIDE DEF shift, op
    <3>4. PICK p : Does(n, Bytes(d, s, "any", shift, x1), p, d, Shifted(op, W8, n.x[s], c), x1)
      BY <2>1, <2>2, <2>5, <3>2, <3>3, BytesShiftStep
    <3>5. Does(m, c1 \o Bytes(d, s, "any", shift, x1), p, d, Shifted(op, W8, n.x[s], c), x)
      BY <2>5, <2>7, <3>4, DoesThen
    <3>6. QED BY <2>5, <2>8, <3>1, <3>5 DEF w, c, op
  <2>9. CASE w # W8
    <3>1. emit_vsll(type, d, s, y, x) = c1 \o Avx(op, w, d, s, b)
      BY <1>2, <2>9 DEF emit_vsll, emit_vsll_avx, Choose, w, t, b, c1
    <3> HIDE DEF op
    <3>2. PICK p : Sets(n, Avx(op, w, d, s, b), p, d, Shifted(op, w, n.x[s], Source(n, b)[1]))
      BY <1>2, <2>1, <2>2, <2>5, ShiftStep
    <3>3. Shifted(op, w, n.x[s], Source(n, b)[1]) = z
      BY <2>2, <2>5, <2>6
    <3> HIDE DEF z
    <3>4. Does(n, Avx(op, w, d, s, b), p, d, z, x1)
      BY <3>2, <3>3, SetsDoes
    <3>5. Does(m, c1 \o Avx(op, w, d, s, b), p, d, z, x)
      BY <2>5, <2>7, <3>4, DoesThen
    <3>6. QED BY <3>1, <3>5 DEF z, w, c, op
  <2>10. QED BY <2>8, <2>9
<1>3. QED BY <1>1, <1>2

(* and the shifts to the right of lanes that are not of 64 bits.            *)
LEMMA ShiftRightStep ==
    ASSUME use_sse2, NEW m \in Machines, NEW type \in IntTypes, NEW x, Three(x),
           NEW d \in Regs16 \ x, NEW s \in Regs16 \ x, NEW y \in Regs16, NEW op \in ShiftVec
    PROVE  \E n : Does(m, ShiftRight(op, type, d, s, y, x), n, d,
                       Shifted(op, Width(type), m.x[s], m.g[y]), x)
<1>1. ShiftRight(op, type, d, s, y, x) = ByRegister("any", op, type, d, s, y, x)
  BY DEF ShiftRight, ByRegister
<1>2. QED BY <1>1, ByRegisterStep

(* Halves of 64 bits are shifted by the low bits of a register, and rcx, in *)
(* which they are, gets back what it held.                                  *)
LEMMA ArithmeticHalves ==
    ASSUME use_sse2, NEW m \in Machines, NEW type \in IntTypes, Width(type) = W64, NEW x, Free(x),
           NEW d \in Regs16 \ x, NEW s \in Regs16 \ x, NEW y \in Regs16 \ {13, 14}
    PROVE  \E n : Does(m, emit_vsra(type, d, s, y, x), n, d,
                       HalvedBoth(m.x[s], Low(WCL, m.g[y])), x)
<1> DEFINE t == alloc_(x)
           G == {13, 14, rcx}
           S == x \cup {d}
           enter == << VInstr("mov", W64, T1, T1, I(rcx), FALSE) >>
           leave == << VInstr("mov", W64, rcx, rcx, I(T1), FALSE) >>
           before == << VInstr("movcl", W8, rcx, rcx, I(y), FALSE) >>
           code1 == << VInstr("sar", W64, T0, T0, X(rcx), FALSE) >>
           mv == emit_vmov(d, s)
           l == Legacy("movdqa", W64, t, X(d))
           c0 == l \o before
           h == Halves(d, T0, t, sra_by_cl(y))
           k == Low(WCL, m.g[y])
           a == m.x[s]
<1>1. emit_vsra(type, d, s, y, x) = enter \o mv \o h \o leave
  BY DEF emit_vsra, sra_by_cl, by_cl
<1>2. h = Halfway(c0, d, t, code1)
  BY DEF Halves, Halfway, sra_by_cl, by_cl
<1>3. /\ t \in x /\ t \in Regs16 /\ d # t /\ d \in S /\ t \in S
      /\ T0 = 14 /\ T1 = 13 /\ T0 \in Regs16 /\ T1 \in Regs16 /\ rcx \in Regs16
      /\ T0 \in G /\ T1 \in G /\ rcx \in G /\ rcx = 1
  BY Temporaries, Parts16 DEF Free, rcx
<1>4. a \in Vector /\ m.g[y] \in Int /\ k \in Int
  <2>1. a \in Vector /\ m.g[y] \in Int
    BY Parts16
  <2>2. QED BY <2>1, CountRange, LowRange
<1> HIDE DEF t, G, S, l, h, k, a, mv
<1>5. PICK n0 : Loads(m, enter, n0, T1, m.g[rcx])
  BY <1>3, MovStep
<1>6. Only(m, enter, n0, S, G) /\ n0 \in Machines
  BY <1>3, <1>5, LoadsOnly
<1>7. n0.x = m.x /\ n0.g[T1] = m.g[rcx] /\ n0.g[y] = m.g[y]
  BY <1>3, <1>5 DEF Loads
<1> HIDE DEF enter
<1>8. PICK n1 : Sets(n0, mv, n1, d, n0.x[s])
  BY <1>6, Move DEF mv
<1>9. Only(m, enter \o mv, n1, S, G) /\ n1 \in Machines
  BY <1>3, <1>6, <1>8, SetsNext
<1>10. n1.g = n0.g /\ n1.x[d] = a
  BY <1>7, <1>8 DEF Sets, a
<1>11. PICK n2 : Sets(n1, l, n2, t, n1.x[d])
  BY <1>3, <1>9, Copy DEF l
<1>12. Only(n1, l, n2, S, G) /\ n2 \in Machines
  BY <1>3, <1>11, SetsOnly
<1>13. n2.g = n0.g /\ n2.x[d] = a /\ n2.x[t] = a
  BY <1>3, <1>10, <1>11 DEF Sets
<1>14. PICK n3, c : Loads(n2, before, n3, rcx, c) /\ Low(WCL, c) = Low(WCL, n2.g[y])
  BY <1>12, MovClStep
<1> HIDE DEF before
<1>15. Only(n1, c0, n3, S, G) /\ n3 \in Machines
  BY <1>3, <1>12, <1>14, LoadsNext
<1>16. /\ n3.x[d] = a /\ n3.x[t] = a /\ n3.g[T1] = m.g[rcx] /\ Low(WCL, n3.g[rcx]) = k
  BY <1>3, <1>7, <1>13, <1>14 DEF Loads, k
<1>17. ASSUME NEW q \in Machines, \A y1 \in Regs16 \ {T0} : q.g[y1] = n3.g[y1]
       PROVE  \E p : Loads(q, code1, p, T0, Halved(q.g[T0], k))
  <2>1. X(rcx) \in Operands /\ X(rcx).kind # "imm"
    BY <1>3 DEF X, Operands
  <2>2. q.g[rcx] = n3.g[rcx]
    BY <1>3, <1>17
  <2>3. \E p : Loads(q, code1, p, T0, Halved(q.g[T0], IF X(rcx).kind = "imm" THEN X(rcx).n ELSE Low(WCL, q.g[rcx])))
    BY <1>3, <2>1, SarStep
  <2>4. QED BY <1>16, <2>1, <2>2, <2>3
<1> HIDE DEF code1, c0
<1>18. Halves1(n3, code1, k)
  BY <1>17 DEF Halves1
<1>19. /\ Only(n1, c0, n3, S, G) /\ n3 \in Machines /\ d \in Regs16 /\ d \in S /\ t \in Regs16 /\ t \in S
       /\ d # t /\ T0 \in G /\ a \in Vector /\ n3.x[d] = a /\ n3.x[t] = a
  BY <1>3, <1>4, <1>15, <1>16
<1>20. \E p : /\ Only(n1, Halfway(c0, d, t, code1), p, S, G)
              /\ p.x[d] = HalvedBoth(a, k)
              /\ \A y1 \in Regs16 \ {T0} : p.g[y1] = n3.g[y1]
  BY <1>4, <1>18, <1>19, HalvesStep
<1>21. PICK p : /\ Only(n1, h, p, S, G) /\ p.x[d] = HalvedBoth(a, k) /\ p.g[T1] = m.g[rcx]
  BY <1>2, <1>3, <1>16, <1>20
<1>22. Only(m, enter \o mv \o h, p, S, G) /\ p \in Machines
  <2>1. Only(m, enter \o mv \o h, p, S, G)
    BY <1>9, <1>21, OnlyConcat
  <2>2. QED BY <1>21, <2>1 DEF Only, After
<1>23. PICK q : Loads(p, leave, q, rcx, p.g[T1])
  BY <1>3, <1>22, MovStep
<1> HIDE DEF leave
<1>24. Only(m, enter \o mv \o h \o leave, q, S, G) /\ q \in Machines
  BY <1>3, <1>22, <1>23, LoadsNext
<1>25. q.x[d] = HalvedBoth(a, k) /\ q.g[rcx] = m.g[rcx]
  BY <1>21, <1>23 DEF Loads
<1>26. Does(m, enter \o mv \o h \o leave, q, d, HalvedBoth(a, k), x)
  BY <1>24, <1>25 DEF Does, Leaves, Only, S, G
<1>27. QED BY <1>1, <1>26 DEF a, k

(* Shifts to the right by a register.                                       *)
LEMMA ShiftRightBoth ==
    ASSUME use_sse2, NEW m \in Machines, NEW type \in IntTypes, NEW x, Three(x),
           NEW d \in Regs16 \ x, NEW s \in Regs16 \ x, NEW y \in Regs16 \ {13, 14}
    PROVE  /\ \E n : Does(m, emit_vsrl(type, d, s, y, x), n, d,
                          Shifted("psrl", Width(type), m.x[s], m.g[y]), x)
           /\ \E n : Does(m, emit_vsra(type, d, s, y, x), n, d,
                          IF Width(type) = W64 THEN HalvedBoth(m.x[s], Low(WCL, m.g[y]))
                          ELSE Shifted("psra", Width(type), m.x[s], m.g[y]), x)
<1>1. "psrl" \in ShiftVec /\ "psra" \in ShiftVec /\ Free(x)
  BY DEF ShiftVec, Three
<1>2. \E n : Does(m, emit_vsrl(type, d, s, y, x), n, d,
                  Shifted("psrl", Width(type), m.x[s], m.g[y]), x)
  BY <1>1, ShiftRightStep DEF emit_vsrl
<1>3. CASE Width(type) = W64
  BY <1>1, <1>2, <1>3, ArithmeticHalves
<1>4. CASE Width(type) # W64
  <2>1. emit_vsra(type, d, s, y, x) = ShiftRight("psra", type, d, s, y, x)
    BY <1>4 DEF emit_vsra
  <2>2. \E n : Does(m, emit_vsra(type, d, s, y, x), n, d,
                    Shifted("psra", Width(type), m.x[s], m.g[y]), x)
    BY <1>1, <2>1, ShiftRightStep
  <2>3. QED BY <1>2, <1>4, <2>2
<1>5. QED BY <1>3, <1>4

-----------------------------------------------------------------------------
(* Products of bytes: those of the even bytes, those of the odd ones, and   *)
(* both.                                                                    *)
Even(a, b) ==
    Shifted("psrl", W16, Shifted("psll", W16, ExecVector("pmull", W16, a, b), W8), W8)
Odd(a, b) ==
    Shifted("psll", W16, ExecVector("pmull", W16, Shifted("psrl", W16, a, W8),
                                    Shifted("psrl", W16, b, W8)), W8)
ByteProduct(a, b) == ExecVector("por", W64, Odd(a, b), Even(a, b))

(* The instructions they are made of.                                       *)
LEMMA WordsOpStep ==
    ASSUME use_sse2, NEW avx \in BOOLEAN, avx => use_avx, NEW m \in Machines,
           NEW t \in Regs16, NEW s \in Regs16
    PROVE  /\ \E n : Sets(m, WordsOp(avx, "pmull", t, X(s)), n, t, ExecVector("pmull", W16, m.x[t], m.x[s]))
           /\ \E n : Sets(m, WordsOp(avx, "por", t, X(s)), n, t, ExecVector("por", W64, m.x[t], m.x[s]))
           /\ \E n : Sets(m, WordsOp(avx, "psrl", t, I(W8)), n, t, Shifted("psrl", W16, m.x[t], W8))
           /\ \E n : Sets(m, WordsOp(avx, "psll", t, I(W8)), n, t, Shifted("psll", W16, m.x[t], W8))
<1>1. /\ "pmull" \in VectorOps /\ "por" \in VectorOps /\ PlainUse("pmull", W16) /\ PlainUse("por", W64)
      /\ W16 \in Widths /\ W64 \in Widths /\ "psrl" \in ShiftVec /\ "psll" \in ShiftVec /\ W8 \in Int
  BY WidthFacts DEF VectorOps, LaneWiseOps, ShiftVec, PlainUse
<1>2. \E n : Sets(m, WordsOp(avx, "pmull", t, X(s)), n, t, ExecVector("pmull", W16, m.x[t], m.x[s]))
  <2>1. CASE avx
    <3>1. WordsOp(avx, "pmull", t, X(s)) = Avx("pmull", W16, t, t, X(s))
      BY <2>1 DEF WordsOp
    <3>2. QED BY <1>1, <2>1, <3>1, AvxStep
  <2>2. CASE ~avx
    <3>1. WordsOp(avx, "pmull", t, X(s)) = Legacy("pmull", W16, t, X(s))
      BY <2>2 DEF WordsOp
    <3>2. QED BY <1>1, <3>1, LegacyStep
  <2>3. QED BY <2>1, <2>2
<1>3. \E n : Sets(m, WordsOp(avx, "por", t, X(s)), n, t, ExecVector("por", W64, m.x[t], m.x[s]))
  <2>1. CASE avx
    <3>1. WordsOp(avx, "por", t, X(s)) = Avx("por", W64, t, t, X(s))
      BY <2>1 DEF WordsOp
    <3>2. QED BY <1>1, <2>1, <3>1, AvxStep
  <2>2. CASE ~avx
    <3>1. WordsOp(avx, "por", t, X(s)) = Legacy("por", W64, t, X(s))
      BY <2>2 DEF WordsOp
    <3>2. QED BY <1>1, <3>1, LegacyStep
  <2>3. QED BY <2>1, <2>2
<1>4. ASSUME NEW op \in {"psrl", "psll"}
      PROVE  \E n : Sets(m, WordsOp(avx, op, t, I(W8)), n, t, Shifted(op, W16, m.x[t], W8))
  <2> DEFINE b == I(W8)
  <2>1. op \in ShiftVec /\ op # "por"
    BY <1>1
  <2>2. Sourced(op, b) /\ Source(m, b)[1] = W8
    <3>1. Source(m, b) = << W8, 0 >>
      BY Operand
    <3>2. QED BY <1>1, <2>1, <3>1, Operand
  <2> HIDE DEF b
  <2>3. CASE avx
    <3>1. WordsOp(avx, op, t, b) = Avx(op, W16, t, t, b)
      BY <2>1, <2>3 DEF WordsOp
    <3>2. \E n : Sets(m, Avx(op, W16, t, t, b), n, t, Shifted(op, W16, m.x[t], Source(m, b)[1]))
      BY <1>1, <2>1, <2>2, <2>3, ShiftStep
    <3>3. QED BY <2>2, <3>1, <3>2 DEF b
  <2>4. CASE ~avx
    <3>1. WordsOp(avx, op, t, b) = Legacy(op, W16, t, b)
      BY <2>1, <2>4 DEF WordsOp
    <3>2. \E n : Sets(m, Legacy(op, W16, t, b), n, t, Shifted(op, W16, m.x[t], Source(m, b)[1]))
      BY <1>1, <2>1, <2>2, ShiftStep
    <3>3. QED BY <2>2, <3>1, <3>2 DEF b
  <2>5. QED BY <2>3, <2>4
<1>5. QED BY <1>2, <1>3, <1>4

(* The code of it, for bytes of two registers outside the temporaries.      *)
LEMMA MulBytesStep ==
    ASSUME use_sse2, NEW avx \in BOOLEAN, avx => use_avx, NEW m \in Machines,
           NEW x, x \subseteq Regs16, NEW t0 \in x, NEW t2 \in x, t0 # t2,
           NEW d \in Regs16 \ x, NEW s \in Regs16 \ x
    PROVE  \E n : Does(m, mul_bytes(d, s, avx, t0, t2), n, d, ByteProduct(m.x[d], m.x[s]), x)
<1> DEFINE a == m.x[d]
           b == m.x[s]
           S == x \cup {d}
           c1 == Legacy("movdqa", W64, t2, X(d))
           c2 == c1 \o Legacy("movdqa", W64, t0, X(s))
           c3 == c2 \o WordsOp(avx, "pmull", t2, X(t0))
           c4 == c3 \o WordsOp(avx, "psll", t2, I(W8))
           c5 == c4 \o WordsOp(avx, "psrl", t2, I(W8))
           c6 == c5 \o WordsOp(avx, "psrl", d, I(W8))
           c7 == c6 \o WordsOp(avx, "psrl", t0, I(W8))
           c8 == c7 \o WordsOp(avx, "pmull", d, X(t0))
           c9 == c8 \o WordsOp(avx, "psll", d, I(W8))
           c10 == c9 \o WordsOp(avx, "por", d, X(t2))
           q3 == ExecVector("pmull", W16, a, b)
           q4 == Shifted("psll", W16, q3, W8)
           ad == Shifted("psrl", W16, a, W8)
           bd == Shifted("psrl", W16, b, W8)
           q8 == ExecVector("pmull", W16, ad, bd)
<1>1. /\ t0 \in Regs16 /\ t2 \in Regs16 /\ t0 # d /\ t2 # d /\ s # t0 /\ s # t2
      /\ t0 \in S /\ t2 \in S /\ d \in S
  OBVIOUS
<1>2. mul_bytes(d, s, avx, t0, t2) = c10
  BY DEF mul_bytes
<1> HIDE DEF S, a, b
<1>3. PICK n1 : Sets(m, c1, n1, t2, a)
  BY <1>1, Copy DEF a
<1>4. Leaves(m, c1, n1, S) /\ n1 \in Machines /\ n1.x[t2] = a /\ n1.x[d] = a /\ n1.x[s] = b
  BY <1>1, <1>3, SetsLeaves DEF Sets, After, a, b
<1> HIDE DEF c1
<1>5. PICK n2 : Sets(n1, Legacy("movdqa", W64, t0, X(s)), n2, t0, n1.x[s])
  BY <1>1, <1>4, Copy
<1>6. Leaves(m, c2, n2, S) /\ n2 \in Machines /\ n2.x[t0] = b /\ n2.x[t2] = a /\ n2.x[d] = a
  <2>1. Leaves(m, c2, n2, S) /\ n2 \in Machines /\ n2.x[t0] = n1.x[s]
    BY <1>1, <1>4, <1>5, SetsThen
  <2>2. QED BY <1>1, <1>4, <1>5, <2>1 DEF Sets
<1> HIDE DEF c2
<1>7. PICK n3 : Sets(n2, WordsOp(avx, "pmull", t2, X(t0)), n3, t2, ExecVector("pmull", W16, n2.x[t2], n2.x[t0]))
  BY <1>1, <1>6, WordsOpStep
<1>8. Leaves(m, c3, n3, S) /\ n3 \in Machines /\ n3.x[t2] = q3 /\ n3.x[t0] = b /\ n3.x[d] = a
  <2>1. /\ Leaves(m, c3, n3, S) /\ n3 \in Machines
        /\ n3.x[t2] = ExecVector("pmull", W16, n2.x[t2], n2.x[t0])
    BY <1>1, <1>6, <1>7, SetsThen
  <2>2. QED BY <1>1, <1>6, <1>7, <2>1 DEF Sets
<1> HIDE DEF c3, q3
<1>9. PICK n4 : Sets(n3, WordsOp(avx, "psll", t2, I(W8)), n4, t2, Shifted("psll", W16, n3.x[t2], W8))
  BY <1>1, <1>8, WordsOpStep
<1>10. Leaves(m, c4, n4, S) /\ n4 \in Machines /\ n4.x[t2] = q4 /\ n4.x[t0] = b /\ n4.x[d] = a
  <2>1. /\ Leaves(m, c4, n4, S) /\ n4 \in Machines /\ n4.x[t2] = Shifted("psll", W16, n3.x[t2], W8)
    BY <1>1, <1>8, <1>9, SetsThen
  <2>2. QED BY <1>1, <1>8, <1>9, <2>1 DEF Sets
<1> HIDE DEF c4, q4
<1>11. PICK n5 : Sets(n4, WordsOp(avx, "psrl", t2, I(W8)), n5, t2, Shifted("psrl", W16, n4.x[t2], W8))
  BY <1>1, <1>10, WordsOpStep
<1>12. Leaves(m, c5, n5, S) /\ n5 \in Machines /\ n5.x[t2] = Even(a, b) /\ n5.x[t0] = b /\ n5.x[d] = a
  <2>1. /\ Leaves(m, c5, n5, S) /\ n5 \in Machines /\ n5.x[t2] = Shifted("psrl", W16, n4.x[t2], W8)
    BY <1>1, <1>10, <1>11, SetsThen
  <2>2. Shifted("psrl", W16, q4, W8) = Even(a, b)
    BY DEF Even, q4, q3
  <2>3. QED BY <1>1, <1>10, <1>11, <2>1, <2>2 DEF Sets
<1> HIDE DEF c5
<1>13. PICK n6 : Sets(n5, WordsOp(avx, "psrl", d, I(W8)), n6, d, Shifted("psrl", W16, n5.x[d], W8))
  BY <1>1, <1>12, WordsOpStep
<1>14. Leaves(m, c6, n6, S) /\ n6 \in Machines /\ n6.x[t2] = Even(a, b) /\ n6.x[t0] = b /\ n6.x[d] = ad
  <2>1. /\ Leaves(m, c6, n6, S) /\ n6 \in Machines /\ n6.x[d] = Shifted("psrl", W16, n5.x[d], W8)
    BY <1>1, <1>12, <1>13, SetsThen
  <2>2. QED BY <1>1, <1>12, <1>13, <2>1 DEF Sets
<1> HIDE DEF c6, ad
<1>15. PICK n7 : Sets(n6, WordsOp(avx, "psrl", t0, I(W8)), n7, t0, Shifted("psrl", W16, n6.x[t0], W8))
  BY <1>1, <1>14, WordsOpStep
<1>16. Leaves(m, c7, n7, S) /\ n7 \in Machines /\ n7.x[t2] = Even(a, b) /\ n7.x[t0] = bd /\ n7.x[d] = ad
  <2>1. /\ Leaves(m, c7, n7, S) /\ n7 \in Machines /\ n7.x[t0] = Shifted("psrl", W16, n6.x[t0], W8)
    BY <1>1, <1>14, <1>15, SetsThen
  <2>2. QED BY <1>1, <1>14, <1>15, <2>1 DEF Sets
<1> HIDE DEF c7, bd
<1>17. PICK n8 : Sets(n7, WordsOp(avx, "pmull", d, X(t0)), n8, d, ExecVector("pmull", W16, n7.x[d], n7.x[t0]))
  BY <1>1, <1>16, WordsOpStep
<1>18. Leaves(m, c8, n8, S) /\ n8 \in Machines /\ n8.x[t2] = Even(a, b) /\ n8.x[d] = q8
  <2>1. /\ Leaves(m, c8, n8, S) /\ n8 \in Machines /\ n8.x[d] = ExecVector("pmull", W16, n7.x[d], n7.x[t0])
    BY <1>1, <1>16, <1>17, SetsThen
  <2>2. QED BY <1>1, <1>16, <1>17, <2>1 DEF Sets
<1> HIDE DEF c8, q8
<1>19. PICK n9 : Sets(n8, WordsOp(avx, "psll", d, I(W8)), n9, d, Shifted("psll", W16, n8.x[d], W8))
  BY <1>1, <1>18, WordsOpStep
<1>20. Leaves(m, c9, n9, S) /\ n9 \in Machines /\ n9.x[t2] = Even(a, b) /\ n9.x[d] = Odd(a, b)
  <2>1. /\ Leaves(m, c9, n9, S) /\ n9 \in Machines /\ n9.x[d] = Shifted("psll", W16, n8.x[d], W8)
    BY <1>1, <1>18, <1>19, SetsThen
  <2>2. Shifted("psll", W16, q8, W8) = Odd(a, b)
    BY DEF Odd, q8, ad, bd
  <2>3. QED BY <1>1, <1>18, <1>19, <2>1, <2>2 DEF Sets
<1> HIDE DEF c9
<1>21. PICK n10 : Sets(n9, WordsOp(avx, "por", d, X(t2)), n10, d, ExecVector("por", W64, n9.x[d], n9.x[t2]))
  BY <1>1, <1>20, WordsOpStep
<1>22. Leaves(m, c10, n10, S) /\ n10.x[d] = ByteProduct(a, b)
  <2>1. /\ Leaves(m, c10, n10, S) /\ n10.x[d] = ExecVector("por", W64, n9.x[d], n9.x[t2])
    BY <1>1, <1>20, <1>21, SetsThen
  <2>2. QED BY <1>20, <2>1 DEF ByteProduct
<1>23. QED BY <1>2, <1>22 DEF Does, S, a, b

(* Products of 64 bits by three of 32 bits.                                 *)
LEMMA HalvesOfWord ==
    ASSUME NEW y \in Word
    PROVE  /\ 2 ^ W32 \in Nat \ {0} /\ 2 ^ W64 = 2 ^ W32 * 2 ^ W32 /\ W32 \in 0 .. W64 /\ W32 \in 0 .. W64 - 1
           /\ y \in Int /\ y \div 2 ^ W32 \in Int /\ Low(W32, y) \in Int
           /\ y = 2 ^ W32 * (y \div 2 ^ W32) + Low(W32, y)
           /\ Low(W32, y \div 2 ^ W32) = y \div 2 ^ W32
<1> DEFINE H == 2 ^ W32
<1>1. /\ W32 \in 0 .. W64 /\ W32 \in Nat \ {0} /\ W64 = W32 + W32 /\ W64 \in 0 .. W64 /\ H \in Nat \ {0}
  BY WidthFacts
<1>2. 2 ^ W64 = H * H
  <2>1. 2 ^ (W32 + W32) = 2 ^ W32 * 2 ^ W32
    BY <1>1, PowerAssumption
  <2>2. QED BY <1>1, <2>1
<1> HIDE DEF H
<1>3. y \in 0 .. H * H - 1 /\ y \in Int
  BY <1>1, <1>2 DEF Word
<1> DEFINE q == y \div H
           e == y % H
<1>4. q \in Int /\ e \in 0 .. H - 1 /\ y = H * q + e
  BY <1>1, <1>3, ModRange
<1> HIDE DEF q, e
<1>5. q \in 0 .. H - 1
  <2>1. q >= 0
    <3>1. SUFFICES ASSUME q <= -1
                   PROVE  FALSE
      BY <1>4
    <3>2. H * q <= H * (-1)
      BY <1>1, <1>4, <3>1
    <3>3. QED BY <1>1, <1>3, <1>4, <3>2
  <2>2. q <= H - 1
    <3>1. SUFFICES ASSUME q >= H
                   PROVE  FALSE
      BY <1>1, <1>4
    <3>2. H * q >= H * H
      BY <1>1, <1>4, <3>1
    <3>3. QED BY <1>1, <1>3, <1>4, <3>2
  <2>3. QED BY <1>1, <1>4, <2>1, <2>2
<1>6. Low(W32, q) = q
  BY <1>1, <1>5, LowId DEF H
<1>7. Low(W32, y) = e
  BY DEF Low, H, e
<1>8. W32 \in 0 .. W64 - 1 /\ e \in Int
  BY <1>1, <1>4
<1>9. QED BY <1>1, <1>2, <1>3, <1>4, <1>6, <1>7, <1>8 DEF H, q

(* Sums cut at every step, and at the end.                                  *)
LEMMA LowSums ==
    ASSUME NEW p \in Int, NEW q \in Int, NEW s \in Int
    PROVE  Low(W64, Low(W64, p + Low(W64, q)) + Low(W64, s)) = Low(W64, (p + q) + s)
<1> DEFINE lq == Low(W64, q)
           ls == Low(W64, s)
           u == p + lq
           lu == Low(W64, u)
           v1 == p + q
<1>1. W64 \in 0 .. W64
  BY WidthFacts
<1>2. lq \in Int /\ ls \in Int /\ Low(W64, lq) = Low(W64, q) /\ Low(W64, ls) = Low(W64, s)
  BY <1>1, LowRange, LowOfLow
<1> HIDE DEF lq, ls
<1>3. u \in Int /\ v1 \in Int /\ Low(W64, u) = Low(W64, v1)
  <2>1. PICK o : o = p
    OBVIOUS
  <2>2. o \in Int /\ Low(W64, o) = Low(W64, p)
    BY <2>1
  <2>3. Low(W64, o + lq) = Low(W64, p + q)
    BY <1>1, <1>2, <2>2, LowArithmetic
  <2>4. QED BY <1>2, <2>1, <2>3
<1> HIDE DEF u, v1
<1>4. lu \in Int /\ Low(W64, lu) = Low(W64, v1)
  BY <1>1, <1>3, LowRange, LowOfLow
<1> HIDE DEF lu
<1>5. Low(W64, lu + ls) = Low(W64, v1 + s)
  BY <1>1, <1>2, <1>3, <1>4, LowArithmetic
<1>6. QED BY <1>5 DEF u, lu, ls, lq, v1

(* A cross product of the halves of 64-bit lanes, in its place.             *)
Cross(a, b) ==
    Shifted("psll", W64, ExecVector("pmuludq", W64, Shifted("psrl", W64, a, W32), b), W32)

(* The product of the high half of one lane and the low half of the other.  *)
LEMMA CrossLanes ==
    ASSUME NEW a \in Vector, NEW b \in Vector
    PROVE  /\ Cross(a, b) \in Vector
           /\ \A k \in LaneIndex(W64) :
                  Lane(W64, Cross(a, b), k)
                  = Low(W64, ((Lane(W64, a, k) \div 2 ^ W32) * Low(W32, Lane(W64, b, k))) * 2 ^ W32)
<1> DEFINE s == Shifted("psrl", W64, a, W32)
           p == ExecVector("pmuludq", W64, s, b)
           z == Shifted("psll", W64, p, W32)
<1>1. /\ W64 \in Widths /\ "psrl" \in ShiftVec /\ "psll" \in ShiftVec /\ W32 \in Int
      /\ "pmuludq" \in LaneWiseOps /\ PlainUse("pmuludq", W64) /\ W32 \in 0 .. W64 - 1
  BY WidthFacts DEF ShiftVec, LaneWiseOps, PlainUse
<1>2. s \in Vector /\ \A k \in LaneIndex(W64) : Lane(W64, s, k) = ShiftLane("psrl", W64, Lane(W64, a, k), W32)
  BY <1>1, ShiftedLanes
<1> HIDE DEF s
<1>3. p \in Vector /\ \A k \in LaneIndex(W64) :
          Lane(W64, p, k) = LaneWise("pmuludq", W64, Lane(W64, s, k), Lane(W64, b, k))
  BY <1>1, <1>2, LaneWiseLanes
<1> HIDE DEF p
<1>4. z \in Vector /\ \A k \in LaneIndex(W64) : Lane(W64, z, k) = ShiftLane("psll", W64, Lane(W64, p, k), W32)
  BY <1>1, <1>3, ShiftedLanes
<1> HIDE DEF z
<1>5. ASSUME NEW k \in LaneIndex(W64)
      PROVE  Lane(W64, z, k)
             = Low(W64, ((Lane(W64, a, k) \div 2 ^ W32) * Low(W32, Lane(W64, b, k))) * 2 ^ W32)
  <2> DEFINE e == Lane(W64, a, k)
             f == Lane(W64, b, k)
  <2>1. e \in Word
    BY <1>1, LaneRange DEF Values, Word
  <2>2. ShiftLane("psrl", W64, e, W32) = e \div 2 ^ W32
    BY <1>1 DEF ShiftLane
  <2>3. LaneWise("pmuludq", W64, e \div 2 ^ W32, f) = Low(W32, e \div 2 ^ W32) * Low(W32, f)
    BY DEF LaneWise
  <2>4. Low(W32, e \div 2 ^ W32) = e \div 2 ^ W32
    BY <2>1, HalvesOfWord
  <2> DEFINE g == (e \div 2 ^ W32) * Low(W32, f)
  <2>5. ShiftLane("psll", W64, g, W32) = Low(W64, g * 2 ^ W32)
    BY <1>1 DEF ShiftLane
  <2>6. QED BY <1>2, <1>3, <1>4, <2>2, <2>3, <2>4, <2>5
<1>6. QED BY <1>4, <1>5 DEF Cross, z, p, s

(* The sum of the three products is the product of the 64-bit lanes.        *)
LEMMA QuadProduct ==
    ASSUME NEW a \in Vector, NEW b \in Vector
    PROVE  ExecVector("padd", W64, ExecVector("padd", W64, ExecVector("pmuludq", W64, a, b), Cross(a, b)),
                      Cross(b, a))
           = ExecVector("pmull", W64, a, b)
<1> DEFINE p == ExecVector("pmuludq", W64, a, b)
           c == Cross(a, b)
           d == Cross(b, a)
           s == ExecVector("padd", W64, p, c)
           z == ExecVector("padd", W64, s, d)
           y == ExecVector("pmull", W64, a, b)
<1>1. /\ W64 \in Widths /\ "pmuludq" \in LaneWiseOps /\ "padd" \in LaneWiseOps /\ "pmull" \in LaneWiseOps
      /\ PlainUse("pmuludq", W64) /\ PlainUse("padd", W64) /\ PlainUse("pmull", W64)
  BY WidthFacts DEF LaneWiseOps, PlainUse
<1>2. p \in Vector /\ \A k \in LaneIndex(W64) :
          Lane(W64, p, k) = LaneWise("pmuludq", W64, Lane(W64, a, k), Lane(W64, b, k))
  BY <1>1, LaneWiseLanes
<1>3. y \in Vector /\ \A k \in LaneIndex(W64) :
          Lane(W64, y, k) = LaneWise("pmull", W64, Lane(W64, a, k), Lane(W64, b, k))
  BY <1>1, LaneWiseLanes
<1>4. c \in Vector /\ \A k \in LaneIndex(W64) :
          Lane(W64, c, k) = Low(W64, ((Lane(W64, a, k) \div 2 ^ W32) * Low(W32, Lane(W64, b, k))) * 2 ^ W32)
  BY CrossLanes
<1>5. d \in Vector /\ \A k \in LaneIndex(W64) :
          Lane(W64, d, k) = Low(W64, ((Lane(W64, b, k) \div 2 ^ W32) * Low(W32, Lane(W64, a, k))) * 2 ^ W32)
  BY CrossLanes
<1> HIDE DEF p, c, d, y
<1>6. s \in Vector /\ \A k \in LaneIndex(W64) :
          Lane(W64, s, k) = LaneWise("padd", W64, Lane(W64, p, k), Lane(W64, c, k))
  BY <1>1, <1>2, <1>4, LaneWiseLanes
<1> HIDE DEF s
<1>7. z \in Vector /\ \A k \in LaneIndex(W64) :
          Lane(W64, z, k) = LaneWise("padd", W64, Lane(W64, s, k), Lane(W64, d, k))
  BY <1>1, <1>5, <1>6, LaneWiseLanes
<1> HIDE DEF z
<1>8. ASSUME NEW k \in LaneIndex(W64)
      PROVE  Lane(W64, z, k) = Lane(W64, y, k)
  <2> DEFINE e == Lane(W64, a, k)
             f == Lane(W64, b, k)
             H == 2 ^ W32
             e1 == e \div H
             f1 == f \div H
             e0 == Low(W32, e)
             f0 == Low(W32, f)
  <2>1. e \in Word /\ f \in Word
    BY <1>1, LaneRange DEF Values, Word
  <2>2. H \in Int /\ 2 ^ W64 = H * H /\ e1 \in Int /\ e0 \in Int /\ e = H * e1 + e0
    BY <2>1, HalvesOfWord
  <2>3. f1 \in Int /\ f0 \in Int /\ f = H * f1 + f0
    BY <2>1, HalvesOfWord
  <2>4. Lane(W64, z, k) = Low(W64, Low(W64, e0 * f0 + Low(W64, (e1 * f0) * H)) + Low(W64, (f1 * e0) * H))
    <3>1. Lane(W64, p, k) = e0 * f0
      BY <1>2 DEF LaneWise
    <3>2. Lane(W64, s, k) = Low(W64, e0 * f0 + Low(W64, (e1 * f0) * H))
      BY <1>4, <1>6, <3>1 DEF LaneWise
    <3>3. QED BY <1>5, <1>7, <3>2 DEF LaneWise
  <2>5. Lane(W64, y, k) = Low(W64, e * f)
    BY <1>3 DEF LaneWise
  <2> HIDE DEF e, f, H, e0, e1, f0, f1
  <2> DEFINE p1 == e0 * f0
             q1 == (e1 * f0) * H
             s1 == (f1 * e0) * H
  <2>6. p1 \in Int /\ q1 \in Int /\ s1 \in Int
    BY <2>2, <2>3
  <2>7. e \in Int /\ f \in Int
    BY <2>2, <2>3
  <2>8. Low(W64, e * f) = Low(W64, Low(W64, p1 + Low(W64, q1)) + Low(W64, s1))
    <3> DEFINE u1 == e1 * f1
               z1 == e * f
               y1 == (p1 + q1) + s1
    <3>1. z1 = (H * e1) * (H * f1) + (H * e1) * f0 + e0 * (H * f1) + e0 * f0
      BY <2>2, <2>3
    <3>2. (H * e1) * (H * f1) = (H * H) * u1 /\ (H * e1) * f0 = q1 /\ e0 * (H * f1) = s1
      BY <2>2, <2>3
    <3>3. z1 \in Int /\ y1 \in Int /\ u1 \in Int /\ W64 \in 0 .. W64 /\ (H * H) * u1 \in Int
      BY <2>2, <2>3, <2>6, <2>7, WidthFacts
    <3>4. z1 = y1 + (H * H) * u1
      <4>1. z1 = (H * H) * u1 + q1 + s1 + p1
        BY <3>1, <3>2
      <4> HIDE DEF z1, u1, p1, q1, s1
      <4>2. QED BY <2>6, <3>3, <4>1
    <3> HIDE DEF z1, u1, y1
    <3>5. z1 = y1 + 2 ^ W64 * u1
      BY <2>2, <3>4
    <3>6. Low(W64, z1) = Low(W64, y1)
      BY <3>3, <3>5, LowSame
    <3>7. Low(W64, Low(W64, p1 + Low(W64, q1)) + Low(W64, s1)) = Low(W64, (p1 + q1) + s1)
      <4> HIDE DEF p1, q1, s1
      <4>1. QED BY <2>6, LowSums
    <3>8. QED BY <3>6, <3>7 DEF z1, y1
  <2>9. QED BY <2>4, <2>5, <2>8
<1>9. z = y
  BY <1>1, <1>3, <1>7, <1>8, SameLanes
<1>10. QED BY <1>9 DEF z, s, p, c, d, y

(* The instructions of products of 64 bits.                                 *)
QuadOps == {"padd", "pmuludq"}

(* The instructions that the 64-bit product is made of,                     *)
LEMMA QuadStep ==
    ASSUME use_sse2, NEW m \in Machines, NEW op \in QuadOps,
           NEW d \in Regs16, NEW a \in Regs16, NEW s \in Regs16
    PROVE  /\ \E n : Sets(m, Legacy(op, W64, d, X(s)), n, d, ExecVector(op, W64, m.x[d], m.x[s]))
           /\ use_avx => \E n : Sets(m, Avx(op, W64, d, a, X(s)), n, d, ExecVector(op, W64, m.x[a], m.x[s]))
<1>1. op \in VectorOps /\ PlainUse(op, W64) /\ W64 \in Widths
  BY WidthFacts DEF QuadOps, VectorOps, LaneWiseOps, PlainUse
<1>2. \E n : Sets(m, Legacy(op, W64, d, X(s)), n, d, ExecVector(op, W64, m.x[d], m.x[s]))
  BY <1>1, LegacyStep
<1>3. ASSUME use_avx
      PROVE  \E n : Sets(m, Avx(op, W64, d, a, X(s)), n, d, ExecVector(op, W64, m.x[a], m.x[s]))
  BY <1>1, <1>3, AvxStep
<1>4. QED BY <1>2, <1>3

(* and its shifts.                                                          *)
LEMMA QuadShift ==
    ASSUME use_sse2, NEW m \in Machines, NEW op \in {"psll", "psrl"}, NEW d \in Regs16, NEW a \in Regs16
    PROVE  /\ \E n : Sets(m, Legacy(op, W64, d, I(W32)), n, d, Shifted(op, W64, m.x[d], W32))
           /\ use_avx => \E n : Sets(m, Avx(op, W64, d, a, I(W32)), n, d, Shifted(op, W64, m.x[a], W32))
<1> DEFINE b == I(W32)
<1>1. op \in ShiftVec /\ W64 \in Widths /\ W32 \in Int
  BY WidthFacts DEF ShiftVec
<1>2. Sourced(op, b) /\ Source(m, b)[1] = W32
  <2>1. Source(m, b) = << W32, 0 >>
    BY Operand
  <2>2. QED BY <1>1, <2>1, Operand
<1> HIDE DEF b
<1>3. \E n : Sets(m, Legacy(op, W64, d, b), n, d, Shifted(op, W64, m.x[d], Source(m, b)[1]))
  BY <1>1, <1>2, ShiftStep
<1>4. ASSUME use_avx
      PROVE  \E n : Sets(m, Avx(op, W64, d, a, b), n, d, Shifted(op, W64, m.x[a], Source(m, b)[1]))
  BY <1>1, <1>2, <1>4, ShiftStep
<1>5. QED BY <1>2, <1>3, <1>4 DEF b

(* One of the cross products, added to a sum.                               *)
CrossSse2(t0, t2, a, b) ==
    Legacy("movdqa", W64, t2, X(a)) \o Legacy("psrl", W64, t2, I(W32))
    \o Legacy("pmuludq", W64, t2, X(b)) \o Legacy("psll", W64, t2, I(W32))
    \o Legacy("padd", W64, t0, X(t2))
CrossAvx(t0, t2, a, b, sum) ==
    Avx("psrl", W64, t2, a, I(W32)) \o Avx("pmuludq", W64, t2, t2, X(b))
    \o Avx("psll", W64, t2, t2, I(W32)) \o Avx("padd", W64, sum, t0, X(t2))

(* A cross product added to a sum, without AVX.                             *)
LEMMA CrossSse2Step ==
    ASSUME use_sse2, NEW m \in Machines, NEW x, x \subseteq Regs16, NEW t0 \in x, NEW t2 \in x, t0 # t2,
           NEW a \in Regs16 \ x, NEW b \in Regs16 \ x
    PROVE  \E n : /\ Leaves(m, CrossSse2(t0, t2, a, b), n, x)
                  /\ n.x[t0] = ExecVector("padd", W64, m.x[t0], Cross(m.x[a], m.x[b]))
<1> DEFINE c1 == Legacy("movdqa", W64, t2, X(a))
           c2 == c1 \o Legacy("psrl", W64, t2, I(W32))
           c3 == c2 \o Legacy("pmuludq", W64, t2, X(b))
           c4 == c3 \o Legacy("psll", W64, t2, I(W32))
           c5 == c4 \o Legacy("padd", W64, t0, X(t2))
           va == m.x[a]
           vb == m.x[b]
           v0 == m.x[t0]
           q2 == Shifted("psrl", W64, va, W32)
           q3 == ExecVector("pmuludq", W64, q2, vb)
<1>1. /\ t0 \in Regs16 /\ t2 \in Regs16 /\ a # t0 /\ a # t2 /\ b # t0 /\ b # t2
      /\ "padd" \in QuadOps /\ "pmuludq" \in QuadOps
  BY DEF QuadOps
<1> HIDE DEF va, vb, v0
<1>2. PICK n1 : Sets(m, c1, n1, t2, va)
  BY <1>1, Copy DEF va
<1>3. Leaves(m, c1, n1, x) /\ n1 \in Machines /\ n1.x[t2] = va /\ n1.x[b] = vb /\ n1.x[t0] = v0
  BY <1>1, <1>2, SetsLeaves DEF Sets, After, vb, v0
<1> HIDE DEF c1
<1>4. PICK n2 : Sets(n1, Legacy("psrl", W64, t2, I(W32)), n2, t2, Shifted("psrl", W64, n1.x[t2], W32))
  BY <1>1, <1>3, QuadShift
<1>5. Leaves(m, c2, n2, x) /\ n2 \in Machines /\ n2.x[t2] = q2 /\ n2.x[b] = vb /\ n2.x[t0] = v0
  <2>1. Leaves(m, c2, n2, x) /\ n2 \in Machines /\ n2.x[t2] = Shifted("psrl", W64, n1.x[t2], W32)
    BY <1>3, <1>4, SetsThen
  <2>2. QED BY <1>1, <1>3, <1>4, <2>1 DEF Sets
<1> HIDE DEF c2, q2
<1>6. PICK n3 : Sets(n2, Legacy("pmuludq", W64, t2, X(b)), n3, t2, ExecVector("pmuludq", W64, n2.x[t2], n2.x[b]))
  BY <1>1, <1>5, QuadStep
<1>7. Leaves(m, c3, n3, x) /\ n3 \in Machines /\ n3.x[t2] = q3 /\ n3.x[t0] = v0
  <2>1. Leaves(m, c3, n3, x) /\ n3 \in Machines /\ n3.x[t2] = ExecVector("pmuludq", W64, n2.x[t2], n2.x[b])
    BY <1>5, <1>6, SetsThen
  <2>2. QED BY <1>1, <1>5, <1>6, <2>1 DEF Sets
<1> HIDE DEF c3, q3
<1>8. PICK n4 : Sets(n3, Legacy("psll", W64, t2, I(W32)), n4, t2, Shifted("psll", W64, n3.x[t2], W32))
  BY <1>1, <1>7, QuadShift
<1>9. Leaves(m, c4, n4, x) /\ n4 \in Machines /\ n4.x[t2] = Cross(va, vb) /\ n4.x[t0] = v0
  <2>1. Leaves(m, c4, n4, x) /\ n4 \in Machines /\ n4.x[t2] = Shifted("psll", W64, n3.x[t2], W32)
    BY <1>7, <1>8, SetsThen
  <2>2. Shifted("psll", W64, q3, W32) = Cross(va, vb)
    BY DEF Cross, q3, q2
  <2>3. QED BY <1>1, <1>7, <1>8, <2>1, <2>2 DEF Sets
<1> HIDE DEF c4
<1>10. PICK n5 : Sets(n4, Legacy("padd", W64, t0, X(t2)), n5, t0, ExecVector("padd", W64, n4.x[t0], n4.x[t2]))
  BY <1>1, <1>9, QuadStep
<1>11. Leaves(m, c5, n5, x) /\ n5.x[t0] = ExecVector("padd", W64, n4.x[t0], n4.x[t2])
  BY <1>9, <1>10, SetsThen
<1>12. c5 = CrossSse2(t0, t2, a, b)
  BY DEF CrossSse2, c1, c2, c3, c4
<1>13. QED BY <1>9, <1>11, <1>12 DEF va, vb, v0

(* The last sum may be made where a source was.                             *)
LEMMA CrossAvxStep ==
    ASSUME use_sse2, use_avx, NEW m \in Machines, NEW x, x \subseteq Regs16,
           NEW t0 \in x, NEW t2 \in x, t0 # t2,
           NEW a \in Regs16 \ x, NEW b \in Regs16 \ x, NEW d \in Regs16 \ {t2}
    PROVE  \E n : Does(m, CrossAvx(t0, t2, a, b, d), n, d,
                       ExecVector("padd", W64, m.x[t0], Cross(m.x[a], m.x[b])), x)
<1> DEFINE c2 == Avx("psrl", W64, t2, a, I(W32))
           c3 == c2 \o Avx("pmuludq", W64, t2, t2, X(b))
           c4 == c3 \o Avx("psll", W64, t2, t2, I(W32))
           c5 == Avx("padd", W64, d, t0, X(t2))
           va == m.x[a]
           vb == m.x[b]
           v0 == m.x[t0]
           q2 == Shifted("psrl", W64, va, W32)
           q3 == ExecVector("pmuludq", W64, q2, vb)
           z == ExecVector("padd", W64, v0, Cross(va, vb))
<1>1. /\ t0 \in Regs16 /\ t2 \in Regs16 /\ a # t0 /\ a # t2 /\ b # t0 /\ b # t2
      /\ "padd" \in QuadOps /\ "pmuludq" \in QuadOps
  BY DEF QuadOps
<1>4. PICK n2 : Sets(m, c2, n2, t2, Shifted("psrl", W64, m.x[a], W32))
  BY <1>1, QuadShift
<1>5. Leaves(m, c2, n2, x) /\ n2 \in Machines /\ n2.x[t2] = q2 /\ n2.x[b] = vb /\ n2.x[t0] = v0
  BY <1>1, <1>4, SetsLeaves DEF Sets, After
<1> HIDE DEF c2, q2, va, vb, v0
<1>6. PICK n3 : Sets(n2, Avx("pmuludq", W64, t2, t2, X(b)), n3, t2, ExecVector("pmuludq", W64, n2.x[t2], n2.x[b]))
  BY <1>1, <1>5, QuadStep
<1>7. Leaves(m, c3, n3, x) /\ n3 \in Machines /\ n3.x[t2] = q3 /\ n3.x[t0] = v0
  <2>1. Leaves(m, c3, n3, x) /\ n3 \in Machines /\ n3.x[t2] = ExecVector("pmuludq", W64, n2.x[t2], n2.x[b])
    BY <1>5, <1>6, SetsThen
  <2>2. QED BY <1>1, <1>5, <1>6, <2>1 DEF Sets
<1> HIDE DEF c3, q3
<1>8. PICK n4 : Sets(n3, Avx("psll", W64, t2, t2, I(W32)), n4, t2, Shifted("psll", W64, n3.x[t2], W32))
  BY <1>1, <1>7, QuadShift
<1>9. Leaves(m, c4, n4, x) /\ n4 \in Machines /\ n4.x[t2] = Cross(va, vb) /\ n4.x[t0] = v0
  <2>1. Leaves(m, c4, n4, x) /\ n4 \in Machines /\ n4.x[t2] = Shifted("psll", W64, n3.x[t2], W32)
    BY <1>7, <1>8, SetsThen
  <2>2. Shifted("psll", W64, q3, W32) = Cross(va, vb)
    BY DEF Cross, q3, q2
  <2>3. QED BY <1>1, <1>7, <1>8, <2>1, <2>2 DEF Sets
<1> HIDE DEF c4
<1>10. PICK n5 : Sets(n4, c5, n5, d, ExecVector("padd", W64, n4.x[t0], n4.x[t2]))
  BY <1>1, <1>9, QuadStep
<1> HIDE DEF c5
<1>11. Does(n4, c5, n5, d, z, x)
  BY <1>9, <1>10, SetsDoes
<1> HIDE DEF z
<1>12. x \subseteq x \cup {d}
  OBVIOUS
<1>13. Does(m, c4 \o c5, n5, d, z, x)
  BY <1>9, <1>11, <1>12, DoesThen
<1>14. c4 \o c5 = CrossAvx(t0, t2, a, b, d)
  BY DEF CrossAvx, c2, c3, c4, c5
<1>15. QED BY <1>13, <1>14 DEF z, va, vb, v0

(* The product of low halves may exchange its operands.                     *)
LEMMA QuadCommutes ==
    ASSUME NEW a \in Vector, NEW b \in Vector
    PROVE  ExecVector("pmuludq", W64, a, b) = ExecVector("pmuludq", W64, b, a)
<1> DEFINE y == ExecVector("pmuludq", W64, a, b)
           z == ExecVector("pmuludq", W64, b, a)
<1>1. "pmuludq" \in LaneWiseOps /\ W64 \in Widths /\ PlainUse("pmuludq", W64) /\ W32 \in 0 .. W64
  BY WidthFacts DEF LaneWiseOps, PlainUse
<1>2. y \in Vector /\ \A k \in LaneIndex(W64) :
          Lane(W64, y, k) = LaneWise("pmuludq", W64, Lane(W64, a, k), Lane(W64, b, k))
  BY <1>1, LaneWiseLanes
<1>3. z \in Vector /\ \A k \in LaneIndex(W64) :
          Lane(W64, z, k) = LaneWise("pmuludq", W64, Lane(W64, b, k), Lane(W64, a, k))
  BY <1>1, LaneWiseLanes
<1> HIDE DEF y, z
<1>4. ASSUME NEW p \in Int, NEW q \in Int
      PROVE  LaneWise("pmuludq", W64, p, q) = LaneWise("pmuludq", W64, q, p)
  <2>1. Low(W32, p) \in Int /\ Low(W32, q) \in Int
    BY <1>1, LowRange
  <2>2. QED BY <2>1 DEF LaneWise
<1>5. \A k \in LaneIndex(W64) : Lane(W64, y, k) = Lane(W64, z, k)
  BY <1>1, <1>2, <1>3, <1>4, LaneRange
<1>6. y = z
  BY <1>1, <1>2, <1>3, <1>5, SameLanes
<1>7. QED BY <1>6 DEF y, z

(* Whichever source is in the destination.                                  *)
LEMMA QuadEither ==
    ASSUME NEW a \in Vector, NEW b \in Vector
    PROVE  ExecVector("padd", W64, ExecVector("padd", W64, ExecVector("pmuludq", W64, a, b), Cross(b, a)),
                      Cross(a, b))
           = ExecVector("pmull", W64, a, b)
<1>1. ExecVector("pmuludq", W64, a, b) = ExecVector("pmuludq", W64, b, a)
  BY QuadCommutes
<1>2. ExecVector("padd", W64, ExecVector("padd", W64, ExecVector("pmuludq", W64, b, a), Cross(b, a)),
                 Cross(a, b))
      = ExecVector("pmull", W64, b, a)
  BY QuadProduct
<1>3. ExecVector("pmull", W64, a, b) = ExecVector("pmull", W64, b, a)
  <2>1. "pmull" \in EitherOrder /\ PlainUse("pmull", W64) /\ W64 \in Widths
    BY WidthFacts DEF EitherOrder, PlainUse
  <2>2. QED BY <2>1, Commutes
<1>4. QED BY <1>1, <1>2, <1>3

(* Products of 64 bits with the older forms, of a register and another that *)
(* may be the same.                                                         *)
QuadSse2(d, s, t0, t2) ==
    Legacy("movdqa", W64, t0, X(d)) \o Legacy("pmuludq", W64, t0, X(s))
    \o CrossSse2(t0, t2, s, d) \o CrossSse2(t0, t2, d, s) \o Legacy("movdqa", W64, d, X(t0))

(* The product of 64-bit lanes without AVX,                                 *)
LEMMA QuadSse2Step ==
    ASSUME use_sse2, NEW m \in Machines, NEW x, x \subseteq Regs16, NEW t0 \in x, NEW t2 \in x, t0 # t2,
           NEW d \in Regs16 \ x, NEW s \in Regs16 \ x
    PROVE  \E n : Does(m, QuadSse2(d, s, t0, t2), n, d, ExecVector("pmull", W64, m.x[d], m.x[s]), x)
<1> DEFINE c1 == Legacy("movdqa", W64, t0, X(d))
           c2 == c1 \o Legacy("pmuludq", W64, t0, X(s))
           c3 == c2 \o CrossSse2(t0, t2, s, d)
           c4 == c3 \o CrossSse2(t0, t2, d, s)
           c5 == Legacy("movdqa", W64, d, X(t0))
           a == m.x[d]
           b == m.x[s]
           q2 == ExecVector("pmuludq", W64, a, b)
           q3 == ExecVector("padd", W64, q2, Cross(b, a))
           z == ExecVector("padd", W64, q3, Cross(a, b))
<1>1. /\ t0 \in Regs16 /\ t2 \in Regs16 /\ d # t0 /\ d # t2 /\ s # t0 /\ s # t2
      /\ "pmuludq" \in QuadOps /\ a \in Vector /\ b \in Vector
  BY Parts16 DEF QuadOps
<1> HIDE DEF a, b
<1>2. PICK n1 : Sets(m, c1, n1, t0, a)
  BY <1>1, Copy DEF a
<1>3. Leaves(m, c1, n1, x) /\ n1 \in Machines /\ n1.x[t0] = a /\ n1.x[d] = a /\ n1.x[s] = b
  BY <1>1, <1>2, SetsLeaves DEF Sets, After, a, b
<1> HIDE DEF c1
<1>4. PICK n2 : Sets(n1, Legacy("pmuludq", W64, t0, X(s)), n2, t0, ExecVector("pmuludq", W64, n1.x[t0], n1.x[s]))
  BY <1>1, <1>3, QuadStep
<1>5. Leaves(m, c2, n2, x) /\ n2 \in Machines /\ n2.x[t0] = q2 /\ n2.x[d] = a /\ n2.x[s] = b
  <2>1. Leaves(m, c2, n2, x) /\ n2 \in Machines /\ n2.x[t0] = ExecVector("pmuludq", W64, n1.x[t0], n1.x[s])
    BY <1>3, <1>4, SetsThen
  <2>2. QED BY <1>1, <1>3, <1>4, <2>1 DEF Sets
<1> HIDE DEF c2, q2
<1>6. PICK n3 : /\ Leaves(n2, CrossSse2(t0, t2, s, d), n3, x)
                /\ n3.x[t0] = ExecVector("padd", W64, n2.x[t0], Cross(n2.x[s], n2.x[d]))
  BY <1>1, <1>5, CrossSse2Step
<1>7. Leaves(m, c3, n3, x) /\ n3 \in Machines /\ n3.x[t0] = q3 /\ n3.x[d] = a /\ n3.x[s] = b
  <2>1. Leaves(m, c3, n3, x)
    BY <1>5, <1>6, LeavesConcat
  <2>2. n3.x[d] = n2.x[d] /\ n3.x[s] = n2.x[s]
    BY <1>6 DEF Leaves
  <2>3. n3 \in Machines
    BY <2>1, LeavesTyped
  <2>4. QED BY <1>5, <1>6, <2>1, <2>2, <2>3
<1> HIDE DEF c3, q3
<1>8. PICK n4 : /\ Leaves(n3, CrossSse2(t0, t2, d, s), n4, x)
                /\ n4.x[t0] = ExecVector("padd", W64, n3.x[t0], Cross(n3.x[d], n3.x[s]))
  BY <1>1, <1>7, CrossSse2Step
<1>9. Leaves(m, c4, n4, x) /\ n4 \in Machines /\ n4.x[t0] = z
  <2>1. Leaves(m, c4, n4, x)
    BY <1>7, <1>8, LeavesConcat
  <2>2. n4 \in Machines
    BY <2>1, LeavesTyped
  <2>3. QED BY <1>7, <1>8, <2>1, <2>2
<1> HIDE DEF c4
<1>10. z = ExecVector("pmull", W64, a, b)
  BY <1>1, QuadEither DEF q2, q3
<1> HIDE DEF z
<1>11. PICK n5 : Sets(n4, c5, n5, d, n4.x[t0])
  BY <1>1, <1>9, Copy
<1> HIDE DEF c5
<1>12. Does(n4, c5, n5, d, z, x)
  BY <1>9, <1>11, SetsDoes
<1>13. x \subseteq x \cup {d}
  OBVIOUS
<1>14. Does(m, c4 \o c5, n5, d, z, x)
  BY <1>9, <1>12, <1>13, DoesThen
<1>15. c4 \o c5 = QuadSse2(d, s, t0, t2)
  BY DEF QuadSse2, c1, c2, c3, c4, c5
<1>16. QED BY <1>10, <1>14, <1>15 DEF a, b

(* And with the forms of three operands.                                    *)
QuadAvx(d, s1, s2, t0, t2) ==
    Avx("pmuludq", W64, t0, s1, X(s2)) \o CrossAvx(t0, t2, s1, s2, t0) \o CrossAvx(t0, t2, s2, s1, d)

(* and with it.                                                             *)
LEMMA QuadAvxStep ==
    ASSUME use_sse2, use_avx, NEW m \in Machines, NEW x, x \subseteq Regs16,
           NEW t0 \in x, NEW t2 \in x, t0 # t2,
           NEW d \in Regs16 \ x, NEW s1 \in Regs16 \ x, NEW s2 \in Regs16 \ x
    PROVE  \E n : Does(m, QuadAvx(d, s1, s2, t0, t2), n, d, ExecVector("pmull", W64, m.x[s1], m.x[s2]), x)
<1> DEFINE c1 == Avx("pmuludq", W64, t0, s1, X(s2))
           c2 == c1 \o CrossAvx(t0, t2, s1, s2, t0)
           c3 == CrossAvx(t0, t2, s2, s1, d)
           a == m.x[s1]
           b == m.x[s2]
           q1 == ExecVector("pmuludq", W64, a, b)
           q2 == ExecVector("padd", W64, q1, Cross(a, b))
           z == ExecVector("padd", W64, q2, Cross(b, a))
<1>1. /\ t0 \in Regs16 /\ t2 \in Regs16 /\ d # t0 /\ d # t2 /\ s1 # t0 /\ s1 # t2 /\ s2 # t0 /\ s2 # t2
      /\ "pmuludq" \in QuadOps /\ a \in Vector /\ b \in Vector
  BY Parts16 DEF QuadOps
<1>2. PICK n1 : Sets(m, c1, n1, t0, ExecVector("pmuludq", W64, m.x[s1], m.x[s2]))
  BY <1>1, QuadStep
<1>3. Leaves(m, c1, n1, x) /\ n1 \in Machines /\ n1.x[t0] = q1 /\ n1.x[s1] = a /\ n1.x[s2] = b
  BY <1>1, <1>2, SetsLeaves DEF Sets, After
<1> HIDE DEF c1, a, b, q1
<1>4. PICK n2 : Does(n1, CrossAvx(t0, t2, s1, s2, t0), n2, t0,
                     ExecVector("padd", W64, n1.x[t0], Cross(n1.x[s1], n1.x[s2])), x)
  BY <1>1, <1>3, CrossAvxStep
<1>5. Leaves(m, c2, n2, x) /\ n2 \in Machines /\ n2.x[t0] = q2 /\ n2.x[s1] = a /\ n2.x[s2] = b
  <2>1. Leaves(n1, CrossAvx(t0, t2, s1, s2, t0), n2, x)
    <3>1. x \cup {t0} = x
      OBVIOUS
    <3>2. QED BY <1>4, <3>1 DEF Does
  <2>2. Leaves(m, c2, n2, x)
    BY <1>3, <2>1, LeavesConcat
  <2>3. n2 \in Machines
    BY <2>2, LeavesTyped
  <2>4. n2.x[s1] = n1.x[s1] /\ n2.x[s2] = n1.x[s2]
    BY <1>1, <2>1 DEF Leaves
  <2>5. QED BY <1>3, <1>4, <2>2, <2>3, <2>4 DEF Does
<1> HIDE DEF c2, q2
<1>6. PICK n3 : Does(n2, c3, n3, d, ExecVector("padd", W64, n2.x[t0], Cross(n2.x[s2], n2.x[s1])), x)
  BY <1>1, <1>5, CrossAvxStep
<1>7. Does(n2, c3, n3, d, z, x)
  BY <1>5, <1>6
<1>8. z = ExecVector("pmull", W64, a, b)
  BY <1>1, QuadProduct DEF q1, q2
<1> HIDE DEF z, c3
<1>9. x \subseteq x \cup {d}
  OBVIOUS
<1>10. Does(m, c2 \o c3, n3, d, z, x)
  BY <1>5, <1>7, <1>9, DoesThen
<1>11. c2 \o c3 = QuadAvx(d, s1, s2, t0, t2)
  BY DEF QuadAvx, c1, c2, c3
<1>12. QED BY <1>8, <1>10, <1>11 DEF a, b

-----------------------------------------------------------------------------
(* Bits of a number are bits of what is above its low part.                 *)
LEMMA BitHigher ==
    ASSUME NEW q \in 0 .. W64, NEW k \in 0 .. W64, q + k <= W64, NEW x \in Int
    PROVE  Bit(k, x \div 2 ^ q) = Bit(q + k, x)
<1>1. 2 ^ (q + k) = 2 ^ q * 2 ^ k /\ 2 ^ q \in Nat \ {0} /\ 2 ^ k \in Nat \ {0}
  BY PowerAssumption
<1> DEFINE a == 2 ^ q
           b == 2 ^ k
<1>2. a \in Nat \ {0} /\ b \in Nat \ {0}
  BY <1>1
<1>3. Bit(k, x \div 2 ^ q) = ((x \div a) \div b) % 2
  BY DEF Bit
<1>4. Bit(q + k, x) = (x \div (a * b)) % 2
  BY <1>1 DEF Bit
<1> HIDE DEF a, b
<1>5. (x \div a) \div b = x \div (a * b)
  BY <1>2, Quotients
<1>6. QED BY <1>3, <1>4, <1>5

(* A bitwise operation on numbers is that operation on parts of them.       *)
LEMMA HigherBitwise ==
    ASSUME NEW f \in BitFunctions, NEW q \in 0 .. W64, NEW w \in 0 .. W64, q + w <= W64,
           NEW x \in Int, NEW y \in Int
    PROVE  Low(w, BitByBit(f, x, y) \div 2 ^ q)
           = Low(w, BitByBit(f, Low(w, x \div 2 ^ q), Low(w, y \div 2 ^ q)))
<1> DEFINE p == 2 ^ q
           z == BitByBit(f, x, y)
           s == x \div p
           t == y \div p
           u == BitByBit(f, s, t)
<1>1. p \in Nat \ {0} /\ z \in Int
  BY Power, BitwiseRange
<1>2. s \in Int /\ t \in Int /\ z \div p \in Int
  BY <1>1, ModRange
<1>3. u \in Int
  BY <1>2, BitwiseRange
<1>4. ASSUME NEW k \in 0 .. w - 1
      PROVE  Bit(k, z \div p) = Bit(k, u)
  <2>1. k \in 0 .. W64 /\ q + k <= W64 /\ q + k \in 0 .. W64 - 1 /\ k \in 0 .. W64 - 1
    BY Power
  <2>2. Bit(k, z \div p) = Bit(q + k, z) /\ Bit(k, s) = Bit(q + k, x) /\ Bit(k, t) = Bit(q + k, y)
    BY <1>1, <2>1, BitHigher
  <2>3. Bit(q + k, z) = f[<<Bit(q + k, x), Bit(q + k, y)>>]
    BY <2>1, BitOfBitwise
  <2>4. Bit(k, u) = f[<<Bit(k, s), Bit(k, t)>>]
    BY <1>2, <2>1, BitOfBitwise
  <2>5. QED BY <2>2, <2>3, <2>4
<1>5. Low(w, z \div p) = Low(w, u)
  BY <1>2, <1>3, <1>4, SameBits
<1> DEFINE s1 == Low(w, s)
           t1 == Low(w, t)
<1>6. s1 \in Int /\ t1 \in Int /\ Low(w, s1) = Low(w, s) /\ Low(w, t1) = Low(w, t)
  BY <1>2, LowRange, LowOfLow
<1> HIDE DEF s1, t1, s, t, p, z
<1>7. Low(w, BitByBit(f, s1, t1)) = Low(w, u)
  BY <1>2, <1>6, LowBitwise
<1>8. QED BY <1>5, <1>7 DEF s1, t1, s, t, p, z

(* The bitwise operations on whole vectors, seen in lanes.                  *)
LEMMA LogicFunction ==
    ASSUME NEW op \in Logic
    PROVE  \E f \in BitFunctions : \A w, x, y : LaneWise(op, w, x, y) = BitByBit(f, x, y)
<1>1. CASE op = "pand"
  BY <1>1, BitFunctionsTyped DEF LaneWise, BitAnd
<1>2. CASE op = "por"
  BY <1>2, BitFunctionsTyped DEF LaneWise, BitOr
<1>3. CASE op = "pxor"
  BY <1>3, BitFunctionsTyped DEF LaneWise, BitXor
<1>4. QED BY <1>1, <1>2, <1>3 DEF Logic

(* A bitwise operation on whole vectors is one on lanes of any width.       *)
LEMMA LogicLanes ==
    ASSUME NEW op \in Logic, NEW w \in Widths, NEW a \in Vector, NEW b \in Vector
    PROVE  /\ ExecVector(op, W64, a, b) \in Vector
           /\ \A i \in LaneIndex(w) :
                  Lane(w, ExecVector(op, W64, a, b), i)
                  = Low(w, LaneWise(op, w, Lane(w, a, i), Lane(w, b, i)))
<1> DEFINE z == ExecVector(op, W64, a, b)
<1>1. PICK f \in BitFunctions : \A w1, x, y : LaneWise(op, w1, x, y) = BitByBit(f, x, y)
  BY LogicFunction
<1>2. op \in LaneWiseOps /\ W64 \in Widths /\ PlainUse(op, W64)
  BY WidthFacts DEF Logic, LaneWiseOps, PlainUse
<1>3. z \in Vector /\ \A k \in LaneIndex(W64) :
          Lane(W64, z, k) = LaneWise(op, W64, Lane(W64, a, k), Lane(W64, b, k))
  BY <1>2, LaneWiseLanes
<1> HIDE DEF z
<1>4. z[1] = BitByBit(f, a[1], b[1]) /\ z[2] = BitByBit(f, a[2], b[2])
  <2>1. LaneIndex(W64) = {0, 1} /\ Lane(W64, a, 0) = a[1] /\ Lane(W64, a, 1) = a[2]
    BY LaneWord
  <2>2. Lane(W64, b, 0) = b[1] /\ Lane(W64, b, 1) = b[2]
    BY LaneWord
  <2>3. Lane(W64, z, 0) = z[1] /\ Lane(W64, z, 1) = z[2]
    BY <1>3, LaneWord
  <2>4. QED BY <1>1, <1>3, <2>1, <2>2, <2>3
<1>5. ASSUME NEW i \in LaneIndex(w)
      PROVE  Lane(w, z, i) = Low(w, LaneWise(op, w, Lane(w, a, i), Lane(w, b, i)))
  <2>1. PICK h \in {0, 1}, k \in 0 .. PerWord(w) - 1 : i = h * PerWord(w) + k
    BY LaneSplit
  <2> DEFINE q == w * k
             x == a[h + 1]
             y == b[h + 1]
  <2>2. q \in 0 .. W64 /\ q + w <= W64 /\ k \in 0 .. PerWord(w)
    <3>1. PerWord(w) \in Nat \ {0} /\ w * PerWord(w) = W64 /\ w \in Nat \ {0}
      BY LaneCount
    <3> DEFINE n == PerWord(w)
    <3>2. n \in Nat \ {0} /\ k \in 0 .. n - 1
      BY <3>1
    <3> HIDE DEF n
    <3>3. w * n = w * k + w * (n - k) /\ w * (n - k) >= w /\ w * k \in Nat
      <4>1. n - k \in Nat \ {0}
        BY <3>2
      <4> DEFINE j == n - k
      <4>2. n = k + j /\ k \in Nat /\ j \in Nat /\ j >= 1
        BY <3>2, <4>1
      <4> HIDE DEF j
      <4>3. w * n = w * k + w * j /\ w * k \in Nat /\ w * j >= w
        BY <3>1, <4>2
      <4>4. QED BY <4>3 DEF j
    <3>4. w * n = W64
      BY <3>1 DEF n
    <3>5. w * (n - k) \in Int
      BY <3>1, <3>2
    <3> DEFINE u == w * (n - k)
               p == w * k
    <3>6. p + u = W64 /\ u >= w /\ p \in Nat /\ u \in Int
      BY <3>3, <3>4, <3>5
    <3>7. w \in Int /\ W64 \in Int
      BY WidthFacts, Power
    <3> HIDE DEF u, p
    <3>8. p \in 0 .. W64 /\ p + w <= W64
      BY <3>1, <3>6, <3>7
    <3>9. QED BY <3>2, <3>8, <3>1 DEF p, n
  <2>3. Place(w)[k] = 2 ^ q
    BY <2>2 DEF Place
  <2>4. x \in Int /\ y \in Int /\ z[h + 1] = BitByBit(f, x, y)
    <3>1. a[1] \in Int /\ a[2] \in Int /\ b[1] \in Int /\ b[2] \in Int
      BY VectorParts
    <3>2. CASE h = 0
      BY <1>4, <3>1, <3>2
    <3>3. CASE h = 1
      BY <1>4, <3>1, <3>3
    <3>4. QED BY <3>2, <3>3
  <2>5. \A c : Lane(w, c, h * PerWord(w) + k) = Digit(c[h + 1], Place(w)[k], 2 ^ w)
    BY LaneOf
  <2>6. \A c : Lane(w, c, i) = Low(w, c[h + 1] \div 2 ^ q)
    BY <2>1, <2>3, <2>5 DEF Digit, Low
  <2>7. Lane(w, a, i) = Low(w, x \div 2 ^ q) /\ Lane(w, b, i) = Low(w, y \div 2 ^ q)
        /\ Lane(w, z, i) = Low(w, BitByBit(f, x, y) \div 2 ^ q)
    BY <2>4, <2>6
  <2> HIDE DEF q, x, y
  <2>8. w \in 0 .. W64
    BY WidthFacts
  <2>9. Low(w, BitByBit(f, x, y) \div 2 ^ q)
        = Low(w, BitByBit(f, Low(w, x \div 2 ^ q), Low(w, y \div 2 ^ q)))
    BY <2>2, <2>4, <2>8, HigherBitwise
  <2>10. QED BY <1>1, <2>7, <2>9
<1>6. QED BY <1>3, <1>5 DEF z

-----------------------------------------------------------------------------
(* Zero is neutral for or.                                                  *)
LEMMA OrZero ==
    ASSUME NEW w \in 0 .. W64, NEW x \in Int
    PROVE  Low(w, BitOr(x, 0)) = Low(w, x) /\ Low(w, BitOr(0, x)) = Low(w, x)
<1>1. BitOr(x, 0) \in Int /\ BitOr(0, x) \in Int /\ 0 \in Int /\ OrBit \in BitFunctions
  <2>1. \A n, p \in Int : BitOr(n, p) \in Int
    BY LogicRange
  <2>2. 0 \in Int
    OBVIOUS
  <2>3. BitOr(x, 0) \in Int /\ BitOr(0, x) \in Int
    BY <2>1, <2>2
  <2>4. QED BY <2>2, <2>3, BitFunctionsTyped
<1>2. ASSUME NEW k \in 0 .. w - 1
      PROVE  Bit(k, BitOr(x, 0)) = Bit(k, x)
  <2>1. k \in 0 .. W64 - 1 /\ k \in 0 .. W64
    BY Power
  <2>2. Bit(k, BitByBit(OrBit, x, 0)) = OrBit[<<Bit(k, x), Bit(k, 0)>>]
    BY <1>1, <2>1, BitOfBitwise
  <2>3. Bit(k, 0) = 0
    <3>1. 2 ^ k \in Nat \ {0}
      BY <2>1, Power
    <3> DEFINE m == 2 ^ k
    <3>2. m \in Nat \ {0} /\ 0 \in 0 .. m - 1
      BY <3>1
    <3> HIDE DEF m
    <3>3. 0 \div m = 0
      <4>1. 0 = m * 0 + 0 /\ 0 \in Int
        BY <3>2
      <4>2. QED BY <3>2, <4>1, ModUnique
    <3>4. 0 % 2 = 0
      OBVIOUS
    <3>5. QED BY <3>3, <3>4 DEF Bit, m
  <2>4. Bit(k, x) \in 0 .. 1
    BY <2>1, BitRange
  <2>5. OrBit[<<Bit(k, x), 0>>] = Bit(k, x)
    <3>1. <<Bit(k, x), 0>> \in (0 .. 1) \X (0 .. 1)
      BY <2>4
    <3>2. \A c \in 0 .. 1 : c + 0 - c * 0 = c
      OBVIOUS
    <3>3. QED BY <2>4, <3>1, <3>2 DEF OrBit
  <2>6. QED BY <2>2, <2>3, <2>5 DEF BitOr
<1>3. Low(w, BitOr(x, 0)) = Low(w, x)
  <2> DEFINE y == BitOr(x, 0)
  <2>1. y \in Int /\ \A k \in 0 .. w - 1 : Bit(k, y) = Bit(k, x)
    BY <1>1, <1>2
  <2> HIDE DEF y
  <2>2. Low(w, y) = Low(w, x)
    BY <2>1, SameBits
  <2>3. QED BY <2>2 DEF y
<1>4. QED BY <1>1, <1>3, LogicCommutes

(* The words that Even and Odd are made of.                                 *)
LEMMA EvenOddWords ==
    ASSUME NEW a \in Vector, NEW b \in Vector, NEW k \in LaneIndex(W16)
    PROVE  /\ Even(a, b) \in Vector /\ Odd(a, b) \in Vector
           /\ Lane(W16, Even(a, b), k)
              = Low(W16, Low(W16, Lane(W16, a, k) * Lane(W16, b, k)) * 2 ^ W8) \div 2 ^ W8
           /\ Lane(W16, Odd(a, b), k)
              = Low(W16, Low(W16, (Lane(W16, a, k) \div 2 ^ W8) * (Lane(W16, b, k) \div 2 ^ W8)) * 2 ^ W8)
<1>1. /\ W16 \in Widths /\ "pmull" \in LaneWiseOps /\ PlainUse("pmull", W16)
      /\ "psrl" \in ShiftVec /\ "psll" \in ShiftVec /\ W8 \in 0 .. W16 - 1 /\ W8 \in Int
  BY WidthFacts, ByteFacts DEF LaneWiseOps, PlainUse, ShiftVec
<1>2. \A n : /\ ShiftLane("psll", W16, n, W8) = Low(W16, n * 2 ^ W8)
             /\ ShiftLane("psrl", W16, n, W8) = n \div 2 ^ W8
  BY <1>1 DEF ShiftLane
<1>3. \A n, p : LaneWise("pmull", W16, n, p) = Low(W16, n * p)
  BY DEF LaneWise
<1>4. ASSUME NEW c \in Vector, NEW d \in Vector
      PROVE  /\ ExecVector("pmull", W16, c, d) \in Vector
             /\ Lane(W16, ExecVector("pmull", W16, c, d), k) = Low(W16, Lane(W16, c, k) * Lane(W16, d, k))
  BY <1>1, <1>3, LaneWiseLanes
<1>5. ASSUME NEW c \in Vector
      PROVE  /\ Shifted("psll", W16, c, W8) \in Vector /\ Shifted("psrl", W16, c, W8) \in Vector
             /\ Lane(W16, Shifted("psll", W16, c, W8), k) = Low(W16, Lane(W16, c, k) * 2 ^ W8)
             /\ Lane(W16, Shifted("psrl", W16, c, W8), k) = Lane(W16, c, k) \div 2 ^ W8
  BY <1>1, <1>2, ShiftedLanes
<1> DEFINE p == ExecVector("pmull", W16, a, b)
           q == Shifted("psll", W16, p, W8)
           a1 == Shifted("psrl", W16, a, W8)
           b1 == Shifted("psrl", W16, b, W8)
           p1 == ExecVector("pmull", W16, a1, b1)
<1>6. p \in Vector /\ Lane(W16, p, k) = Low(W16, Lane(W16, a, k) * Lane(W16, b, k))
  BY <1>4
<1>7. Even(a, b) = Shifted("psrl", W16, q, W8) /\ Odd(a, b) = Shifted("psll", W16, p1, W8)
  BY DEF Even, Odd
<1> HIDE DEF p
<1>8. q \in Vector /\ Lane(W16, q, k) = Low(W16, Lane(W16, p, k) * 2 ^ W8)
  BY <1>5, <1>6
<1>9. /\ a1 \in Vector /\ Lane(W16, a1, k) = Lane(W16, a, k) \div 2 ^ W8
      /\ b1 \in Vector /\ Lane(W16, b1, k) = Lane(W16, b, k) \div 2 ^ W8
  BY <1>5
<1> HIDE DEF q, a1, b1
<1>10. p1 \in Vector /\ Lane(W16, p1, k) = Low(W16, Lane(W16, a1, k) * Lane(W16, b1, k))
  BY <1>4, <1>9
<1> HIDE DEF p1
<1>11. /\ Shifted("psrl", W16, q, W8) \in Vector
       /\ Lane(W16, Shifted("psrl", W16, q, W8), k) = Lane(W16, q, k) \div 2 ^ W8
  BY <1>5, <1>8
<1>12. /\ Shifted("psll", W16, p1, W8) \in Vector
       /\ Lane(W16, Shifted("psll", W16, p1, W8), k) = Low(W16, Lane(W16, p1, k) * 2 ^ W8)
  BY <1>5, <1>10
<1>13. QED BY <1>6, <1>7, <1>8, <1>9, <1>10, <1>11, <1>12

(* A word cut above its low byte, or to a high one.                         *)
LEMMA ByteOfWord ==
    ASSUME NEW y \in Int
    PROVE  /\ Low(W16, Low(W16, y) * 2 ^ W8) \div 2 ^ W8 = Low(W8, y)
           /\ Low(W16, Low(W16, y) * 2 ^ W8) = 2 ^ W8 * Low(W8, y)
<1> DEFINE B == 2 ^ W8
           u == Low(W16, y)
<1>1. B \in Nat \ {0} /\ 2 ^ W16 = B * B /\ W8 \in 0 .. W16 /\ W16 \in 0 .. W64 /\ W8 \in 0 .. W64
  BY ByteFacts
<1>2. u \in Int /\ Low(W8, u) = Low(W8, y)
  BY <1>1, LowRange, LowOfLow
<1> HIDE DEF u
<1>3. u % B = Low(W8, y)
  BY <1>2 DEF Low, B
<1>4. Low(W16, u * B) = (B * u) % (B * B)
  <2>1. u * B = B * u
    BY <1>1, <1>2
  <2>2. QED BY <1>1, <2>1 DEF Low
<1> HIDE DEF B
<1>5. (B * u) % (B * B) = B * (u % B)
  BY <1>1, <1>2, Quotients
<1>6. u % B \in Int
  BY <1>1, <1>2, ModRange
<1> DEFINE t == u % B
<1>7. t \in Int
  BY <1>6
<1> HIDE DEF t
<1>8. (B * t) \div B = t
  BY <1>1, <1>7, Quotients
<1>9. QED BY <1>3, <1>4, <1>5, <1>8 DEF u, t, B

(* The product of bytes made of products of words.                          *)
LEMMA ByteProductLanes ==
    ASSUME NEW a \in Vector, NEW b \in Vector
    PROVE  ByteProduct(a, b) = ExecVector("pmull", W8, a, b)
<1> DEFINE e == Even(a, b)
           o == Odd(a, b)
           z == ExecVector("por", W64, o, e)
           y == ExecVector("pmull", W8, a, b)
<1>1. /\ W8 \in Widths /\ W16 \in Widths /\ Twice(W8, W16) /\ "por" \in Logic
      /\ "pmull" \in LaneWiseOps /\ PlainUse("pmull", W8) /\ W8 \in 0 .. W64 /\ W16 \in 0 .. W64
      /\ 0 \in LaneIndex(W16) /\ W8 \in 0 .. W16
  <2>1. LaneIndex(W16) = 0 .. 7
    BY PerWords DEF LaneIndex
  <2>2. QED BY <2>1, WidthFacts, ByteFacts, Twices DEF LaneWiseOps, PlainUse, Logic
<1>2. e \in Vector /\ o \in Vector
  BY <1>1, EvenOddWords
<1>3. y \in Vector /\ \A i \in LaneIndex(W8) :
          Lane(W8, y, i) = LaneWise("pmull", W8, Lane(W8, a, i), Lane(W8, b, i))
  BY <1>1, LaneWiseLanes
<1>4. z \in Vector /\ \A i \in LaneIndex(W8) :
          Lane(W8, z, i) = Low(W8, LaneWise("por", W8, Lane(W8, o, i), Lane(W8, e, i)))
  BY <1>1, <1>2, LogicLanes
<1>5. ASSUME NEW k \in LaneIndex(W16)
      PROVE  /\ Lane(W8, z, 2 * k) = Lane(W8, y, 2 * k)
             /\ Lane(W8, z, 2 * k + 1) = Lane(W8, y, 2 * k + 1)
  <2> DEFINE p == Lane(W16, a, k)
             q == Lane(W16, b, k)
             B == 2 ^ W8
             s == Low(W8, p * q)
             p1 == p \div B
             q1 == q \div B
             t == Low(W8, p1 * q1)
  <2>1. p \in Int /\ q \in Int /\ B \in Nat \ {0}
    BY <1>1, LaneRange, ByteFacts
  <2>2. /\ Lane(W16, e, k) = Low(W16, Low(W16, p * q) * B) \div B
        /\ Lane(W16, o, k) = Low(W16, Low(W16, p1 * q1) * B)
    BY EvenOddWords
  <2>3. /\ 2 * k \in LaneIndex(W8) /\ 2 * k + 1 \in LaneIndex(W8)
        /\ Lane(W8, a, 2 * k) = Low(W8, p) /\ Lane(W8, a, 2 * k + 1) = p1
        /\ Lane(W8, b, 2 * k) = Low(W8, q) /\ Lane(W8, b, 2 * k + 1) = q1
    BY <1>1, HalfLanes
  <2>4. /\ Lane(W8, e, 2 * k) = Low(W8, Lane(W16, e, k)) /\ Lane(W8, e, 2 * k + 1) = Lane(W16, e, k) \div B
        /\ Lane(W8, o, 2 * k) = Low(W8, Lane(W16, o, k)) /\ Lane(W8, o, 2 * k + 1) = Lane(W16, o, k) \div B
    BY <1>1, <1>2, HalfLanes
  <2> HIDE DEF p, q, e, o, z, y
  <2>5. p1 \in Int /\ q1 \in Int
    BY <2>1, ModRange
  <2> HIDE DEF p1, q1
  <2>6. p * q \in Int /\ p1 * q1 \in Int
    BY <2>1, <2>5
  <2>7. Lane(W16, e, k) = s
    BY <2>2, <2>6, ByteOfWord
  <2>8. Lane(W16, o, k) = B * t /\ Lane(W16, o, k) \div B = t
    BY <2>2, <2>6, ByteOfWord
  <2>9. /\ s \in 0 .. B - 1 /\ t \in 0 .. B - 1 /\ s \in Int /\ t \in Int
    BY <1>1, <2>6, LowRange
  <2>10. Low(W8, s) = s /\ Low(W8, t) = t
    BY <1>1, <2>9, LowId
  <2>11. s = Low(W8, Low(W8, p) * Low(W8, q))
    <3>1. Low(W8, p) \in Int /\ Low(W8, q) \in Int
          /\ Low(W8, Low(W8, p)) = Low(W8, p) /\ Low(W8, Low(W8, q)) = Low(W8, q)
      <4>1. W8 \in 0 .. W8
        BY <1>1
      <4>2. QED BY <1>1, <2>1, <4>1, LowRange, LowOfLow
    <3> DEFINE p0 == Low(W8, p)
               q0 == Low(W8, q)
    <3>2. p0 \in Int /\ q0 \in Int /\ Low(W8, p) = Low(W8, p0) /\ Low(W8, q) = Low(W8, q0)
      BY <3>1
    <3> HIDE DEF p0, q0
    <3>3. Low(W8, p * q) = Low(W8, p0 * q0)
      BY <1>1, <2>1, <3>2, LowArithmetic
    <3>4. QED BY <3>3 DEF p0, q0
  <2> HIDE DEF s, t
  <2>12. s \div B = 0 /\ Low(W8, B * t) = 0
    <3> HIDE DEF B
    <3>1. s \div B = 0
      BY <2>1, <2>9, Quotients
    <3>2. (B * t) % B = 0
      <4>1. B * t = B * t + 0 /\ 0 \in 0 .. B - 1 /\ B * t \in Int
        BY <2>1, <2>9
      <4> DEFINE u == B * t
      <4>2. u = B * t + 0 /\ u \in Int
        BY <4>1
      <4> HIDE DEF u
      <4>3. u % B = 0
        BY <2>1, <2>9, <4>1, <4>2, ModUnique
      <4>4. QED BY <4>3 DEF u
    <3>3. QED BY <3>1, <3>2 DEF Low, B
  <2>13. Lane(W8, e, 2 * k) = s /\ Lane(W8, e, 2 * k + 1) = 0 /\ Lane(W8, o, 2 * k) = 0
         /\ Lane(W8, o, 2 * k + 1) = t
    BY <2>4, <2>7, <2>8, <2>10, <2>12
  <2>14. \A n, u : LaneWise("por", W8, n, u) = BitOr(n, u) /\ LaneWise("pmull", W8, n, u) = Low(W8, n * u)
    BY DEF LaneWise
  <2>15. Lane(W8, z, 2 * k) = s
    <3>1. Lane(W8, z, 2 * k) = Low(W8, BitOr(0, s))
      BY <1>4, <2>3, <2>13, <2>14
    <3>2. QED BY <1>1, <2>9, <2>10, <3>1, OrZero
  <2>16. Lane(W8, z, 2 * k + 1) = t
    <3>1. Lane(W8, z, 2 * k + 1) = Low(W8, BitOr(t, 0))
      BY <1>4, <2>3, <2>13, <2>14
    <3>2. QED BY <1>1, <2>9, <2>10, <3>1, OrZero
  <2>17. Lane(W8, y, 2 * k) = s
    BY <1>3, <2>3, <2>11, <2>14
  <2>18. Lane(W8, y, 2 * k + 1) = t
    BY <1>3, <2>3, <2>14 DEF t
  <2>19. QED BY <2>15, <2>16, <2>17, <2>18
<1> HIDE DEF e, o, z, y
<1>6. ASSUME NEW i \in LaneIndex(W8)
      PROVE  Lane(W8, z, i) = Lane(W8, y, i)
  <2>1. LaneIndex(W16) = 0 .. 7 /\ LaneIndex(W8) = 0 .. 15
    BY PerWords DEF LaneIndex
  <2> DEFINE k == i \div 2
  <2>2. k \in 0 .. 7 /\ (i = 2 * k \/ i = 2 * k + 1)
    BY <2>1
  <2> HIDE DEF k
  <2>3. k \in LaneIndex(W16)
    BY <2>1, <2>2
  <2>4. QED BY <1>5, <2>2, <2>3
<1>7. z = y
  BY <1>1, <1>3, <1>4, <1>6, SameLanes
<1>8. QED BY <1>7 DEF ByteProduct, z, y, e, o

-----------------------------------------------------------------------------
(* Code that computes an operation of d and s in d, and the sources brought *)
(* there first.                                                             *)
Makes(t, d, op, w, s, x) ==
    \A n \in Machines : \E o : Does(n, t, o, d, ExecVector(op, w, n.x[d], n.x[s]), x)

(* One source is moved to the destination first, the other one used.        *)
LEMMA OneSourceThen ==
    ASSUME use_sse2, NEW m \in Machines, NEW op \in EitherOrder, NEW w \in Widths, PlainUse(op, w),
           NEW x, NEW d \in Regs16, NEW s1 \in Regs16, NEW s2 \in Regs16, NEW t,
           Makes(t, d, op, w, one_vsrc(d, s1, s2), x)
    PROVE  \E o : Does(m, emit_one_vsrc(d, s1, s2) \o t, o, d, ExecVector(op, w, m.x[s1], m.x[s2]), x)
<1> DEFINE s == one_vsrc(d, s1, s2)
           c == emit_one_vsrc(d, s1, s2)
           z == ExecVector(op, w, m.x[s1], m.x[s2])
<1>1. PICK n, a : /\ Sets(m, c, n, d, a)
                  /\ \/ a = m.x[s1] /\ n.x[s] = m.x[s2]
                     \/ a = m.x[s2] /\ n.x[s] = m.x[s1]
  BY OneSource
<1>2. n \in Machines /\ n.x[d] = a
  BY <1>1 DEF Sets, After
<1> HIDE DEF s
<1>3. PICK o : Does(n, t, o, d, ExecVector(op, w, n.x[d], n.x[s]), x)
  BY <1>2 DEF Makes, s
<1>4. ExecVector(op, w, n.x[d], n.x[s]) = z
  <2>1. m.x[s1] \in Vector /\ m.x[s2] \in Vector
    BY Parts16
  <2>2. ExecVector(op, w, m.x[s1], m.x[s2]) = ExecVector(op, w, m.x[s2], m.x[s1])
    BY <2>1, Commutes
  <2>3. QED BY <1>1, <1>2, <2>2
<1> HIDE DEF z, c
<1>5. Does(n, t, o, d, z, x)
  BY <1>3, <1>4
<1>6. Leaves(m, c, n, {d}) /\ {d} \subseteq x \cup {d} /\ x \subseteq x \cup {d}
  <2>1. d \in {d}
    OBVIOUS
  <2>2. QED BY <1>1, <2>1, SetsLeaves
<1>7. Does(m, c \o t, o, d, z, x)
  BY <1>5, <1>6, DoesThen
<1>8. QED BY <1>7 DEF c, z

(* Products of every width.                                                 *)
LEMMA Mul ==
    ASSUME use_sse2, NEW m \in Machines, NEW type \in IntTypes, NEW x, Free(x), x \ {alloc_(x)} # {},
           NEW d \in Regs16 \ x, NEW s1 \in Regs16 \ x, NEW s2 \in Regs16 \ x
    PROVE  \E n : Does(m, emit_vmul(type, d, s1, s2, x), n, d,
                       ExecVector("pmull", Width(type), m.x[s1], m.x[s2]), x)
<1> DEFINE w == Width(type)
           t0 == alloc_(x)
           t2 == alloc_(x \ {t0})
           s == one_vsrc(d, s1, s2)
           z == ExecVector("pmull", w, m.x[s1], m.x[s2])
<1>1. /\ w \in Widths /\ w \in {W8, W16, W32, W64} /\ W8 # W16 /\ W8 # W32 /\ W8 # W64 /\ W16 # W32 /\ W16 # W64 /\ W32 # W64
  BY WidthsInRange, WidthAssumption DEF Widths
<1>2. x \subseteq Regs16 /\ t0 \in x /\ t2 \in x /\ t0 # t2
  <2>1. x \in SUBSET X_FREE /\ x # {}
    BY DEF Free
  <2>2. x \subseteq Regs16 /\ t0 \in x /\ x \ {t0} \in SUBSET X_FREE
    BY <2>1, Temporaries
  <2> HIDE DEF t0
  <2>3. t2 \in x \ {t0}
    BY <2>2, Temporaries DEF t0
  <2>4. QED BY <2>2, <2>3
<1>3. s \in Regs16 \ x
  BY DEF one_vsrc
<1>4. "pmull" \in EitherOrder /\ "pmull" \in VectorOps /\ PlainUse("pmull", w)
  BY DEF EitherOrder, VectorOps, LaneWiseOps, PlainUse
<1> HIDE DEF s, t0, t2
<1>5. ASSUME w = W8, NEW avx \in BOOLEAN, avx => use_avx
      PROVE  \E n : Does(m, emit_one_vsrc(d, s1, s2) \o mul_bytes(d, s, avx, t0, t2), n, d, z, x)
  <2>1. Makes(mul_bytes(d, s, avx, t0, t2), d, "pmull", w, s, x)
    <3> SUFFICES ASSUME NEW n \in Machines
                 PROVE  \E o : Does(n, mul_bytes(d, s, avx, t0, t2), o, d,
                                    ExecVector("pmull", w, n.x[d], n.x[s]), x)
      BY DEF Makes
    <3>1. PICK o : Does(n, mul_bytes(d, s, avx, t0, t2), o, d, ByteProduct(n.x[d], n.x[s]), x)
      BY <1>2, <1>3, <1>5, MulBytesStep
    <3>2. ByteProduct(n.x[d], n.x[s]) = ExecVector("pmull", w, n.x[d], n.x[s])
      BY <1>3, <1>5, Parts16, ByteProductLanes
    <3>3. QED BY <3>1, <3>2
  <2>2. QED BY <1>1, <1>4, <2>1, OneSourceThen DEF s
<1>6. CASE use_avx
  <2>1. emit_vmul(type, d, s1, s2, x) = emit_vmul_avx(type, d, s1, s2, x)
    BY <1>6 DEF emit_vmul, Choose
  <2>2. CASE w = W8
    <3>1. emit_vmul_avx(type, d, s1, s2, x) = emit_one_vsrc(d, s1, s2) \o mul_bytes(d, s, TRUE, t0, t2)
      BY <1>1, <2>2 DEF emit_vmul_avx, s, t0, t2
    <3>2. \E n : Does(m, emit_one_vsrc(d, s1, s2) \o mul_bytes(d, s, TRUE, t0, t2), n, d, z, x)
      BY <1>5, <1>6, <2>2
    <3>3. QED BY <2>1, <3>1, <3>2
  <2>3. CASE w \in {W16, W32}
    <3>1. emit_vmul_avx(type, d, s1, s2, x) = ThreeOperand("pmull", type, d, s1, s2)
      BY <1>1, <2>3 DEF emit_vmul_avx
    <3>2. PICK n : Sets(m, ThreeOperand("pmull", type, d, s1, s2), n, d, z)
      BY <1>4, <1>6, ThreeOperandStep
    <3> HIDE DEF z
    <3>3. QED BY <2>1, <3>1, <3>2, SetsDoes DEF z
  <2>4. CASE w = W64
    <3>1. emit_vmul_avx(type, d, s1, s2, x) = QuadAvx(d, s1, s2, t0, t2)
      BY <1>1, <2>4 DEF emit_vmul_avx, QuadAvx, CrossAvx, t0, t2
    <3>2. \E n : Does(m, QuadAvx(d, s1, s2, t0, t2), n, d, ExecVector("pmull", W64, m.x[s1], m.x[s2]), x)
      BY <1>2, <1>6, QuadAvxStep
    <3>3. QED BY <2>1, <2>4, <3>1, <3>2
  <2>5. QED BY <1>1, <2>2, <2>3, <2>4
<1>7. CASE ~use_avx
  <2>1. emit_vmul(type, d, s1, s2, x) = emit_vmul_sse2(type, d, s1, s2, x)
    BY <1>7 DEF emit_vmul, Choose
  <2>2. CASE w = W8
    <3>1. emit_vmul_sse2(type, d, s1, s2, x) = emit_one_vsrc(d, s1, s2) \o mul_bytes(d, s, FALSE, t0, t2)
      BY <1>1, <2>2 DEF emit_vmul_sse2, s, t0, t2
    <3>2. \E n : Does(m, emit_one_vsrc(d, s1, s2) \o mul_bytes(d, s, FALSE, t0, t2), n, d, z, x)
      BY <1>5, <2>2
    <3>3. QED BY <2>1, <3>1, <3>2
  <2>3. CASE w \in {W16, W32}
    <3>1. emit_vmul_sse2(type, d, s1, s2, x) = emit_one_vsrc(d, s1, s2) \o Legacy("pmull", w, d, X(s))
      BY <1>1, <2>3 DEF emit_vmul_sse2, s
    <3>2. emit_vmul_sse2(type, d, s1, s2, x) = TwoOperand("pmull", type, d, s1, s2)
      BY <3>1 DEF TwoOperand, s
    <3>3. PICK n : Sets(m, TwoOperand("pmull", type, d, s1, s2), n, d, z)
      BY <1>4, TwoOperandStep
    <3> HIDE DEF z
    <3>4. QED BY <2>1, <3>2, <3>3, SetsDoes DEF z
  <2>4. CASE w = W64
    <3>1. emit_vmul_sse2(type, d, s1, s2, x) = emit_one_vsrc(d, s1, s2) \o QuadSse2(d, s, t0, t2)
      BY <1>1, <2>4 DEF emit_vmul_sse2, QuadSse2, CrossSse2, s, t0, t2
    <3>2. Makes(QuadSse2(d, s, t0, t2), d, "pmull", w, s, x)
      <4> SUFFICES ASSUME NEW n \in Machines
                   PROVE  \E o : Does(n, QuadSse2(d, s, t0, t2), o, d,
                                      ExecVector("pmull", w, n.x[d], n.x[s]), x)
        BY DEF Makes
      <4>1. QED BY <1>2, <1>3, <2>4, QuadSse2Step
    <3>3. \E n : Does(m, emit_one_vsrc(d, s1, s2) \o QuadSse2(d, s, t0, t2), n, d, z, x)
      BY <1>1, <1>4, <3>2, OneSourceThen DEF s
    <3>4. QED BY <2>1, <3>1, <3>3
  <2>5. QED BY <1>1, <2>2, <2>3, <2>4
<1>8. QED BY <1>6, <1>7

(* Multiplication by an immediate.                                          *)
LEMMA MulImmediate ==
    ASSUME use_sse2, NEW m \in Machines, NEW type \in IntTypes, NEW x, Free(x), but_one(x) # {},
           but_one(but_one(x)) # {},
           NEW d \in Regs16 \ x, NEW s \in Regs16 \ x, NEW c \in Int
    PROVE  \E n : Does(m, emit_vmuli(type, d, s, c, x), n, d,
                       ExecVector("pmull", Width(type), m.x[s], Splat(Width(type), c)), x)
<1> DEFINE y == but_one(x)
<1>1. /\ alloc_(x) \in Regs16 \ y /\ y \subseteq x /\ Free(y)
      /\ d \in Regs16 \ y /\ s \in Regs16 \ y
  BY ImmediateFirst DEF Free
<1>2. y \ {alloc_(y)} # {}
  BY DEF but_one
<1>3. PICK n : /\ n \in Machines /\ Leaves(m, immediate(type, c, x), n, x)
               /\ n.x[alloc_(x)] = Splat(Width(type), c) /\ n.x[s] = m.x[s]
  BY ImmediateFirst
<1> HIDE DEF y
<1>4. PICK o : Does(n, emit_vmul(type, d, s, alloc_(x), y), o, d,
                    ExecVector("pmull", Width(type), n.x[s], n.x[alloc_(x)]), y)
  BY <1>1, <1>2, <1>3, Mul
<1>5. Does(m, immediate(type, c, x) \o emit_vmul(type, d, s, alloc_(x), y), o, d,
           ExecVector("pmull", Width(type), n.x[s], n.x[alloc_(x)]), x)
  BY <1>1, <1>3, <1>4, ImmediateThen DEF y
<1>6. QED BY <1>3, <1>5 DEF emit_vmuli, y

-----------------------------------------------------------------------------
(* The vector that the code of an instruction computes of its operands: of  *)
(* two vectors, by the name of the operation; and of a vector and a count.  *)
BaseOf == [vadd |-> "add", vsub |-> "sub", vrsub |-> "rsub", vmul |-> "mul",
           vband |-> "band", vbandn |-> "bandn", vbor |-> "bor", vbxor |-> "bxor",
           vcmpeq |-> "cmpeq", vcmpne |-> "cmpne", vcmplt |-> "cmplt",
           vcmple |-> "cmple", vcmpgt |-> "cmpgt", vcmpge |-> "cmpge",
           vaddi |-> "add", vsubi |-> "sub", vrsubi |-> "rsub", vmuli |-> "mul",
           vbandi |-> "band", vbandni |-> "bandn", vbori |-> "bor", vbxori |-> "bxor",
           vcmpeqi |-> "cmpeq", vcmpnei |-> "cmpne", vcmplti |-> "cmplt",
           vcmplei |-> "cmple", vcmpgti |-> "cmpgt", vcmpgei |-> "cmpge"]
Both(op, w, a, b) ==
    CASE op = "add"   -> ExecVector("padd", w, a, b)
      [] op = "sub"   -> ExecVector("psub", w, a, b)
      [] op = "rsub"  -> ExecVector("psub", w, b, a)
      [] op = "mul"   -> ExecVector("pmull", w, a, b)
      [] op = "band"  -> ExecVector("pand", W64, a, b)
      [] op = "bandn" -> ExecVector("pand", W64, Not(a), b)
      [] op = "bor"   -> ExecVector("por", W64, a, b)
      [] op = "bxor"  -> ExecVector("pxor", W64, a, b)
      [] op = "cmpeq" -> Eq(w, a, b)
      [] op = "cmpne" -> Not(Eq(w, a, b))
      [] op = "cmplt" -> Gt(w, b, a)
      [] op = "cmple" -> Not(Gt(w, a, b))
      [] op = "cmpgt" -> Gt(w, a, b)
      [] op = "cmpge" -> Not(Gt(w, b, a))
ShiftOf == [vsll |-> "psll", vsrl |-> "psrl", vsra |-> "psra",
            vslli |-> "psll", vsrli |-> "psrl", vsrai |-> "psra"]
ByCount(op, w, a, c) ==
    IF op = "psra" /\ w = W64 THEN HalvedBoth(a, c) ELSE Shifted(op, w, a, c)
CountOf(op, w, y) == IF op = "psra" /\ w = W64 THEN Low(WCL, y) ELSE y

(* The code of instruction p computes z in its destination, and uses no     *)
(* vector register besides but the temporaries.                             *)
Emits(p, m, z) == \E n : Does(m, emit_vector(p, p.type), n, p.rd, z, X_FREE)

(* The registers of an instruction are no temporaries.                      *)
LEMMA InstructionRegs ==
    /\ Three(X_FREE) /\ Free(X_FREE) /\ X_FREE \ {alloc_(X_FREE)} # {}
    /\ but_one(X_FREE) # {} /\ but_one(but_one(X_FREE)) # {}
    /\ \A p \in Instructions :
           /\ p.op \in VecOperations /\ p.type \in IntTypes /\ p.imm \in Int
           /\ p.rd \in Regs16 \ X_FREE /\ p.rd \in VRegs
           /\ p.op # "vmovi" => p.ri \in Regs16 \ X_FREE /\ p.ri \in VRegs
           /\ p.op \in VecBinaryOps => p.rj \in Regs16 \ X_FREE /\ p.rj \in VRegs
           /\ p.op \in VecShiftOps => p.rj \in Regs16 \ {13, 14} /\ p.rj \in Regs
<1>1. X_FREE = {13, 12, 11} /\ X_FREE # {} /\ X_FREE \in SUBSET X_FREE
  BY DEF X_FREE
<1>2. alloc_(X_FREE) \in X_FREE /\ X_FREE \ {alloc_(X_FREE)} \in SUBSET X_FREE
  BY <1>1, Temporaries
<1> DEFINE t == alloc_(X_FREE)
           x == X_FREE \ {t}
           u == alloc_(x)
<1>3. x = but_one(X_FREE) /\ x \ {u} = but_one(x)
  BY DEF but_one
<1>4. x # {} /\ x \in SUBSET X_FREE
  BY <1>1, <1>2
<1>5. u \in x
  BY <1>4, Temporaries
<1> HIDE DEF u
<1>6. x \ {u} # {}
  <2> HIDE DEF t
  <2>1. t \in {13, 12, 11} /\ u \in {13, 12, 11} /\ u # t
    BY <1>1, <1>2, <1>5 DEF t
  <2>2. \E y \in {13, 12, 11} : y # t /\ y # u
    BY <2>1
  <2>3. QED BY <1>1, <2>2
<1>7. Three(X_FREE) /\ Free(X_FREE) /\ x # {} /\ but_one(X_FREE) # {} /\ but_one(but_one(X_FREE)) # {}
  BY <1>1, <1>3, <1>4, <1>6 DEF Three, Free
<1>8. ASSUME NEW p \in Instructions
      PROVE  /\ p.op \in VecOperations /\ p.type \in IntTypes /\ p.imm \in Int
             /\ p.rd \in Regs16 \ X_FREE /\ p.rd \in VRegs
             /\ p.op # "vmovi" => p.ri \in Regs16 \ X_FREE /\ p.ri \in VRegs
             /\ p.op \in VecBinaryOps => p.rj \in Regs16 \ X_FREE /\ p.rj \in VRegs
             /\ p.op \in VecShiftOps => p.rj \in Regs16 \ {13, 14} /\ p.rj \in Regs
  <2>1. VRegs \subseteq Regs16 \ X_FREE /\ Regs \subseteq Regs16 \ {13, 14}
    BY JitVecAssumption DEF R_FREE
  <2>2. p.op \in VecOperations /\ p.type \in IntTypes /\ p.imm \in Int /\ p.rd \in VRegs
    BY VecInstructionsAssumption DEF VecInstructions
  <2>3. /\ p.op # "vmovi" => p.ri \in VRegs
        /\ p.op \in VecBinaryOps => p.rj \in VRegs
        /\ p.op \in VecShiftOps => p.rj \in Regs
    BY VecInstructionsAssumption
  <2>4. QED BY <2>1, <2>2, <2>3
<1>9. QED BY <1>7, <1>8

(* What is emitted for each kind of instruction: with two vectors.          *)
LEMMA EmittedBinary ==
    ASSUME use_sse2, NEW m \in Machines, NEW p \in Instructions, p.op \in VecBinaryOps
    PROVE  Emits(p, m, Both(BaseOf[p.op], Width(p.type), m.x[p.ri], m.x[p.rj]))
<1> DEFINE type == p.type
           w == Width(type)
           x == X_FREE
           d == p.rd
           i == p.ri
           j == p.rj
           a == m.x[i]
           b == m.x[j]
<1>1. /\ Three(x) /\ Free(x) /\ x \ {alloc_(x)} # {} /\ type \in IntTypes
      /\ d \in Regs16 \ x /\ i \in Regs16 \ x /\ j \in Regs16 \ x
  <2>1. p.op # "vmovi"
    BY DEF VecBinaryOps, VecCompareOps
  <2>2. QED BY <2>1, InstructionRegs
<1>2. "pand" \in Logic /\ "por" \in Logic /\ "pxor" \in Logic
  BY DEF Logic
<1> HIDE DEF x, type, d, i, j
<1>3. CASE p.op = "vadd"
  <2>1. emit_vector(p, type) = emit_vadd(type, d, i, j, x)
    BY <1>3 DEF emit_vector, d, i, j, x
  <2>2. Both(BaseOf[p.op], w, a, b) = ExecVector("padd", w, a, b)
    BY <1>3 DEF BaseOf, Both
  <2>3. \E n : Does(m, emit_vadd(type, d, i, j, x), n, d, ExecVector("padd", w, a, b), x)
    BY <1>1, <1>2, Add
  <2>4. QED BY <2>1, <2>2, <2>3 DEF Emits, d, i, j, x, type
<1>4. CASE p.op = "vsub"
  <2>1. emit_vector(p, type) = emit_vsub(type, d, i, j, x)
    BY <1>4 DEF emit_vector, d, i, j, x
  <2>2. Both(BaseOf[p.op], w, a, b) = ExecVector("psub", w, a, b)
    BY <1>4 DEF BaseOf, Both
  <2>3. \E n : Does(m, emit_vsub(type, d, i, j, x), n, d, ExecVector("psub", w, a, b), x)
    BY <1>1, <1>2, Sub
  <2>4. QED BY <2>1, <2>2, <2>3 DEF Emits, d, i, j, x, type
<1>5. CASE p.op = "vrsub"
  <2>1. emit_vector(p, type) = emit_vrsub(type, d, i, j, x)
    BY <1>5 DEF emit_vector, d, i, j, x
  <2>2. Both(BaseOf[p.op], w, a, b) = ExecVector("psub", w, b, a)
    BY <1>5 DEF BaseOf, Both
  <2>3. \E n : Does(m, emit_vrsub(type, d, i, j, x), n, d, ExecVector("psub", w, b, a), x)
    BY <1>1, <1>2, RSub
  <2>4. QED BY <2>1, <2>2, <2>3 DEF Emits, d, i, j, x, type
<1>6. CASE p.op = "vmul"
  <2>1. emit_vector(p, type) = emit_vmul(type, d, i, j, x)
    BY <1>6 DEF emit_vector, d, i, j, x
  <2>2. Both(BaseOf[p.op], w, a, b) = ExecVector("pmull", w, a, b)
    BY <1>6 DEF BaseOf, Both
  <2>3. \E n : Does(m, emit_vmul(type, d, i, j, x), n, d, ExecVector("pmull", w, a, b), x)
    BY <1>1, <1>2, Mul
  <2>4. QED BY <2>1, <2>2, <2>3 DEF Emits, d, i, j, x, type
<1>7. CASE p.op = "vband"
  <2>1. emit_vector(p, type) = WholeVector("pand", "band", type, d, i, j)
    BY <1>7 DEF emit_vector, emit_vband, d, i, j, x
  <2>2. Both(BaseOf[p.op], w, a, b) = ExecVector("pand", W64, a, b)
    BY <1>7 DEF BaseOf, Both
  <2>3. \E n : Does(m, WholeVector("pand", "band", type, d, i, j), n, d, ExecVector("pand", W64, a, b), x)
    BY <1>1, <1>2, Whole
  <2>4. QED BY <2>1, <2>2, <2>3 DEF Emits, d, i, j, x, type
<1>8. CASE p.op = "vbandn"
  <2>1. emit_vector(p, type) = emit_vbandn(type, d, i, j, x)
    BY <1>8 DEF emit_vector, d, i, j, x
  <2>2. Both(BaseOf[p.op], w, a, b) = ExecVector("pand", W64, Not(a), b)
    BY <1>8 DEF BaseOf, Both
  <2>3. \E n : Does(m, emit_vbandn(type, d, i, j, x), n, d, ExecVector("pand", W64, Not(a), b), x)
    BY <1>1, <1>2, BAndN
  <2>4. QED BY <2>1, <2>2, <2>3 DEF Emits, d, i, j, x, type
<1>9. CASE p.op = "vbor"
  <2>1. emit_vector(p, type) = WholeVector("por", "bor", type, d, i, j)
    BY <1>9 DEF emit_vector, emit_vbor, d, i, j, x
  <2>2. Both(BaseOf[p.op], w, a, b) = ExecVector("por", W64, a, b)
    BY <1>9 DEF BaseOf, Both
  <2>3. \E n : Does(m, WholeVector("por", "bor", type, d, i, j), n, d, ExecVector("por", W64, a, b), x)
    BY <1>1, <1>2, Whole
  <2>4. QED BY <2>1, <2>2, <2>3 DEF Emits, d, i, j, x, type
<1>10. CASE p.op = "vbxor"
  <2>1. emit_vector(p, type) = WholeVector("pxor", "bxor", type, d, i, j)
    BY <1>10 DEF emit_vector, emit_vbxor, d, i, j, x
  <2>2. Both(BaseOf[p.op], w, a, b) = ExecVector("pxor", W64, a, b)
    BY <1>10 DEF BaseOf, Both
  <2>3. \E n : Does(m, WholeVector("pxor", "bxor", type, d, i, j), n, d, ExecVector("pxor", W64, a, b), x)
    BY <1>1, <1>2, Whole
  <2>4. QED BY <2>1, <2>2, <2>3 DEF Emits, d, i, j, x, type
<1>11. CASE p.op = "vcmpeq"
  <2>1. emit_vector(p, type) = emit_vcmpeq(type, d, i, j, x)
    BY <1>11 DEF emit_vector, d, i, j, x
  <2>2. Both(BaseOf[p.op], w, a, b) = Eq(w, a, b)
    BY <1>11 DEF BaseOf, Both
  <2>3. \E n : Does(m, emit_vcmpeq(type, d, i, j, x), n, d, Eq(w, a, b), x)
    BY <1>1, <1>2, CmpEq
  <2>4. QED BY <2>1, <2>2, <2>3 DEF Emits, d, i, j, x, type
<1>12. CASE p.op = "vcmpne"
  <2>1. emit_vector(p, type) = emit_vcmpne(type, d, i, j, x)
    BY <1>12 DEF emit_vector, d, i, j, x
  <2>2. Both(BaseOf[p.op], w, a, b) = Not(Eq(w, a, b))
    BY <1>12 DEF BaseOf, Both
  <2>3. \E n : Does(m, emit_vcmpne(type, d, i, j, x), n, d, Not(Eq(w, a, b)), x)
    BY <1>1, <1>2, CmpNe
  <2>4. QED BY <2>1, <2>2, <2>3 DEF Emits, d, i, j, x, type
<1>13. CASE p.op = "vcmplt"
  <2>1. emit_vector(p, type) = emit_vcmplt(type, d, i, j, x)
    BY <1>13 DEF emit_vector, d, i, j, x
  <2>2. Both(BaseOf[p.op], w, a, b) = Gt(w, b, a)
    BY <1>13 DEF BaseOf, Both
  <2>3. \E n : Does(m, emit_vcmplt(type, d, i, j, x), n, d, Gt(w, b, a), x)
    BY <1>1, <1>2, CmpLt
  <2>4. QED BY <2>1, <2>2, <2>3 DEF Emits, d, i, j, x, type
<1>14. CASE p.op = "vcmple"
  <2>1. emit_vector(p, type) = emit_vcmple(type, d, i, j, x)
    BY <1>14 DEF emit_vector, d, i, j, x
  <2>2. Both(BaseOf[p.op], w, a, b) = Not(Gt(w, a, b))
    BY <1>14 DEF BaseOf, Both
  <2>3. \E n : Does(m, emit_vcmple(type, d, i, j, x), n, d, Not(Gt(w, a, b)), x)
    BY <1>1, <1>2, CmpLe
  <2>4. QED BY <2>1, <2>2, <2>3 DEF Emits, d, i, j, x, type
<1>15. CASE p.op = "vcmpgt"
  <2>1. emit_vector(p, type) = emit_vcmpgt(type, d, i, j, x)
    BY <1>15 DEF emit_vector, d, i, j, x
  <2>2. Both(BaseOf[p.op], w, a, b) = Gt(w, a, b)
    BY <1>15 DEF BaseOf, Both
  <2>3. \E n : Does(m, emit_vcmpgt(type, d, i, j, x), n, d, Gt(w, a, b), x)
    BY <1>1, <1>2, CmpGt
  <2>4. QED BY <2>1, <2>2, <2>3 DEF Emits, d, i, j, x, type
<1>16. CASE p.op = "vcmpge"
  <2>1. emit_vector(p, type) = emit_vcmpge(type, d, i, j, x)
    BY <1>16 DEF emit_vector, d, i, j, x
  <2>2. Both(BaseOf[p.op], w, a, b) = Not(Gt(w, b, a))
    BY <1>16 DEF BaseOf, Both
  <2>3. \E n : Does(m, emit_vcmpge(type, d, i, j, x), n, d, Not(Gt(w, b, a)), x)
    BY <1>1, <1>2, CmpGe
  <2>4. QED BY <2>1, <2>2, <2>3 DEF Emits, d, i, j, x, type
<1>17. QED BY <1>3, <1>4, <1>5, <1>6, <1>7, <1>8, <1>9, <1>10, <1>11, <1>12, <1>13, <1>14, <1>15, <1>16 DEF VecBinaryOps, VecCompareOps

(* With a vector and an immediate.                                          *)
LEMMA EmittedImmediate ==
    ASSUME use_sse2, NEW m \in Machines, NEW p \in Instructions, p.op \in VecImmOps
    PROVE  Emits(p, m, Both(BaseOf[p.op], Width(p.type), m.x[p.ri], Splat(Width(p.type), p.imm)))
<1> DEFINE type == p.type
           w == Width(type)
           x == X_FREE
           d == p.rd
           i == p.ri
           c == p.imm
           a == m.x[i]
           b == Splat(w, c)
<1>1. /\ Free(x) /\ but_one(x) # {} /\ but_one(but_one(x)) # {} /\ type \in IntTypes
      /\ d \in Regs16 \ x /\ i \in Regs16 \ x /\ c \in Int
  <2>1. p.op # "vmovi"
    BY DEF VecImmOps, VecCompareImmOps
  <2>2. QED BY <2>1, InstructionRegs
<1>2. "pand" \in Logic /\ "por" \in Logic /\ "pxor" \in Logic
  BY DEF Logic
<1> HIDE DEF x, type, d, i, c
<1>3. /\ \E n : Does(m, emit_vcmpeqi(type, d, i, c, x), n, d, Eq(w, a, b), x)
      /\ \E n : Does(m, emit_vcmpnei(type, d, i, c, x), n, d, Not(Eq(w, a, b)), x)
      /\ \E n : Does(m, emit_vcmpgti(type, d, i, c, x), n, d, Gt(w, a, b), x)
      /\ \E n : Does(m, emit_vcmpgei(type, d, i, c, x), n, d, Not(Gt(w, b, a)), x)
      /\ \E n : Does(m, emit_vcmplti(type, d, i, c, x), n, d, Gt(w, b, a), x)
      /\ \E n : Does(m, emit_vcmplei(type, d, i, c, x), n, d, Not(Gt(w, a, b)), x)
  BY <1>1, CompareImmediates
<1>4. CASE p.op = "vaddi"
  <2>1. emit_vector(p, type) = emit_vaddi(type, d, i, c, x)
    BY <1>4 DEF emit_vector, d, i, c, x
  <2>2. Both(BaseOf[p.op], w, a, b) = ExecVector("padd", w, a, b)
    BY <1>4 DEF BaseOf, Both
  <2>3. \E n : Does(m, emit_vaddi(type, d, i, c, x), n, d, ExecVector("padd", w, a, b), x)
    BY <1>1, <1>2, AddImmediate
  <2>4. QED BY <2>1, <2>2, <2>3 DEF Emits, d, i, c, x, type
<1>5. CASE p.op = "vsubi"
  <2>1. emit_vector(p, type) = emit_vsubi(type, d, i, c, x)
    BY <1>5 DEF emit_vector, d, i, c, x
  <2>2. Both(BaseOf[p.op], w, a, b) = ExecVector("psub", w, a, b)
    BY <1>5 DEF BaseOf, Both
  <2>3. \E n : Does(m, emit_vsubi(type, d, i, c, x), n, d, ExecVector("psub", w, a, b), x)
    BY <1>1, <1>2, SubImmediate
  <2>4. QED BY <2>1, <2>2, <2>3 DEF Emits, d, i, c, x, type
<1>6. CASE p.op = "vrsubi"
  <2>1. emit_vector(p, type) = emit_vrsubi(type, d, i, c, x)
    BY <1>6 DEF emit_vector, d, i, c, x
  <2>2. Both(BaseOf[p.op], w, a, b) = ExecVector("psub", w, b, a)
    BY <1>6 DEF BaseOf, Both
  <2>3. \E n : Does(m, emit_vrsubi(type, d, i, c, x), n, d, ExecVector("psub", w, b, a), x)
    BY <1>1, <1>2, RSubImmediate
  <2>4. QED BY <2>1, <2>2, <2>3 DEF Emits, d, i, c, x, type
<1>7. CASE p.op = "vmuli"
  <2>1. emit_vector(p, type) = emit_vmuli(type, d, i, c, x)
    BY <1>7 DEF emit_vector, d, i, c, x
  <2>2. Both(BaseOf[p.op], w, a, b) = ExecVector("pmull", w, a, b)
    BY <1>7 DEF BaseOf, Both
  <2>3. \E n : Does(m, emit_vmuli(type, d, i, c, x), n, d, ExecVector("pmull", w, a, b), x)
    BY <1>1, <1>2, MulImmediate
  <2>4. QED BY <2>1, <2>2, <2>3 DEF Emits, d, i, c, x, type
<1>8. CASE p.op = "vbandi"
  <2>1. emit_vector(p, type) = immediate(type, c, x) \o WholeVector("pand", "band", type, d, i, alloc_(x))
    BY <1>8 DEF emit_vector, emit_vbandi, emit_vband, d, i, c, x
  <2>2. Both(BaseOf[p.op], w, a, b) = ExecVector("pand", W64, a, b)
    BY <1>8 DEF BaseOf, Both
  <2>3. \E n : Does(m, immediate(type, c, x) \o WholeVector("pand", "band", type, d, i, alloc_(x)), n, d, ExecVector("pand", W64, a, b), x)
    BY <1>1, <1>2, LogicImmediate
  <2>4. QED BY <2>1, <2>2, <2>3 DEF Emits, d, i, c, x, type
<1>9. CASE p.op = "vbandni"
  <2>1. emit_vector(p, type) = emit_vbandni(type, d, i, c, x)
    BY <1>9 DEF emit_vector, d, i, c, x
  <2>2. Both(BaseOf[p.op], w, a, b) = ExecVector("pand", W64, Not(a), b)
    BY <1>9 DEF BaseOf, Both
  <2>3. \E n : Does(m, emit_vbandni(type, d, i, c, x), n, d, ExecVector("pand", W64, Not(a), b), x)
    BY <1>1, <1>2, BAndNImmediate
  <2>4. QED BY <2>1, <2>2, <2>3 DEF Emits, d, i, c, x, type
<1>10. CASE p.op = "vbori"
  <2>1. emit_vector(p, type) = immediate(type, c, x) \o WholeVector("por", "bor", type, d, i, alloc_(x))
    BY <1>10 DEF emit_vector, emit_vbori, emit_vbor, d, i, c, x
  <2>2. Both(BaseOf[p.op], w, a, b) = ExecVector("por", W64, a, b)
    BY <1>10 DEF BaseOf, Both
  <2>3. \E n : Does(m, immediate(type, c, x) \o WholeVector("por", "bor", type, d, i, alloc_(x)), n, d, ExecVector("por", W64, a, b), x)
    BY <1>1, <1>2, LogicImmediate
  <2>4. QED BY <2>1, <2>2, <2>3 DEF Emits, d, i, c, x, type
<1>11. CASE p.op = "vbxori"
  <2>1. emit_vector(p, type) = immediate(type, c, x) \o WholeVector("pxor", "bxor", type, d, i, alloc_(x))
    BY <1>11 DEF emit_vector, emit_vbxori, emit_vbxor, d, i, c, x
  <2>2. Both(BaseOf[p.op], w, a, b) = ExecVector("pxor", W64, a, b)
    BY <1>11 DEF BaseOf, Both
  <2>3. \E n : Does(m, immediate(type, c, x) \o WholeVector("pxor", "bxor", type, d, i, alloc_(x)), n, d, ExecVector("pxor", W64, a, b), x)
    BY <1>1, <1>2, LogicImmediate
  <2>4. QED BY <2>1, <2>2, <2>3 DEF Emits, d, i, c, x, type
<1>12. CASE p.op = "vcmpeqi"
  <2>1. emit_vector(p, type) = emit_vcmpeqi(type, d, i, c, x)
    BY <1>12 DEF emit_vector, d, i, c, x
  <2>2. Both(BaseOf[p.op], w, a, b) = Eq(w, a, b)
    BY <1>12 DEF BaseOf, Both
  <2>3. \E n : Does(m, emit_vcmpeqi(type, d, i, c, x), n, d, Eq(w, a, b), x)
    BY <1>3
  <2>4. QED BY <2>1, <2>2, <2>3 DEF Emits, d, i, c, x, type
<1>13. CASE p.op = "vcmpnei"
  <2>1. emit_vector(p, type) = emit_vcmpnei(type, d, i, c, x)
    BY <1>13 DEF emit_vector, d, i, c, x
  <2>2. Both(BaseOf[p.op], w, a, b) = Not(Eq(w, a, b))
    BY <1>13 DEF BaseOf, Both
  <2>3. \E n : Does(m, emit_vcmpnei(type, d, i, c, x), n, d, Not(Eq(w, a, b)), x)
    BY <1>3
  <2>4. QED BY <2>1, <2>2, <2>3 DEF Emits, d, i, c, x, type
<1>14. CASE p.op = "vcmplti"
  <2>1. emit_vector(p, type) = emit_vcmplti(type, d, i, c, x)
    BY <1>14 DEF emit_vector, d, i, c, x
  <2>2. Both(BaseOf[p.op], w, a, b) = Gt(w, b, a)
    BY <1>14 DEF BaseOf, Both
  <2>3. \E n : Does(m, emit_vcmplti(type, d, i, c, x), n, d, Gt(w, b, a), x)
    BY <1>3
  <2>4. QED BY <2>1, <2>2, <2>3 DEF Emits, d, i, c, x, type
<1>15. CASE p.op = "vcmplei"
  <2>1. emit_vector(p, type) = emit_vcmplei(type, d, i, c, x)
    BY <1>15 DEF emit_vector, d, i, c, x
  <2>2. Both(BaseOf[p.op], w, a, b) = Not(Gt(w, a, b))
    BY <1>15 DEF BaseOf, Both
  <2>3. \E n : Does(m, emit_vcmplei(type, d, i, c, x), n, d, Not(Gt(w, a, b)), x)
    BY <1>3
  <2>4. QED BY <2>1, <2>2, <2>3 DEF Emits, d, i, c, x, type
<1>16. CASE p.op = "vcmpgti"
  <2>1. emit_vector(p, type) = emit_vcmpgti(type, d, i, c, x)
    BY <1>16 DEF emit_vector, d, i, c, x
  <2>2. Both(BaseOf[p.op], w, a, b) = Gt(w, a, b)
    BY <1>16 DEF BaseOf, Both
  <2>3. \E n : Does(m, emit_vcmpgti(type, d, i, c, x), n, d, Gt(w, a, b), x)
    BY <1>3
  <2>4. QED BY <2>1, <2>2, <2>3 DEF Emits, d, i, c, x, type
<1>17. CASE p.op = "vcmpgei"
  <2>1. emit_vector(p, type) = emit_vcmpgei(type, d, i, c, x)
    BY <1>17 DEF emit_vector, d, i, c, x
  <2>2. Both(BaseOf[p.op], w, a, b) = Not(Gt(w, b, a))
    BY <1>17 DEF BaseOf, Both
  <2>3. \E n : Does(m, emit_vcmpgei(type, d, i, c, x), n, d, Not(Gt(w, b, a)), x)
    BY <1>3
  <2>4. QED BY <2>1, <2>2, <2>3 DEF Emits, d, i, c, x, type
<1>18. QED BY <1>4, <1>5, <1>6, <1>7, <1>8, <1>9, <1>10, <1>11, <1>12, <1>13, <1>14, <1>15, <1>16, <1>17 DEF VecImmOps, VecCompareImmOps

(* With one vector, or an immediate alone.                                  *)
LEMMA EmittedUnary ==
    ASSUME use_sse2, NEW m \in Machines, NEW p \in Instructions
    PROVE  /\ p.op = "vmov" => Emits(p, m, m.x[p.ri])
           /\ p.op = "vmovi" => Emits(p, m, Splat(Width(p.type), p.imm))
           /\ p.op = "vneg" => Emits(p, m, Negated(Width(p.type), m.x[p.ri]))
           /\ p.op = "vbnot" => Emits(p, m, Not(m.x[p.ri]))
<1> DEFINE type == p.type
           w == Width(type)
           x == X_FREE
           d == p.rd
           i == p.ri
           c == p.imm
<1>1. /\ Free(x) /\ type \in IntTypes /\ c \in Int /\ d \in Regs16 \ x /\ d \in Regs16
      /\ p.op # "vmovi" => i \in Regs16 \ x /\ i \in Regs16
  BY InstructionRegs
<1> HIDE DEF x, type, d, i, c
<1>2. CASE p.op = "vmov"
  <2>1. emit_vector(p, type) = emit_vmov(d, i)
    BY <1>2 DEF emit_vector, d, i
  <2>2. PICK n : Sets(m, emit_vmov(d, i), n, d, m.x[i])
    BY <1>1, <1>2, Move
  <2>3. Does(m, emit_vmov(d, i), n, d, m.x[i], x)
    BY <2>2, SetsDoes
  <2>4. QED BY <1>2, <2>1, <2>3 DEF Emits, d, i, x, type
<1>3. CASE p.op = "vmovi"
  <2>1. emit_vector(p, type) = emit_vmovi(type, d, c)
    BY <1>3 DEF emit_vector, d, c
  <2>2. PICK n : Does(m, emit_vmovi(type, d, c), n, d, Splat(w, c), {})
    BY <1>1, MovImmediate
  <2>3. Does(m, emit_vmovi(type, d, c), n, d, Splat(w, c), x)
    <3>1. Leaves(m, emit_vmovi(type, d, c), n, {} \cup {d}) /\ {} \cup {d} \subseteq x \cup {d}
      BY <2>2 DEF Does
    <3>2. Leaves(m, emit_vmovi(type, d, c), n, x \cup {d})
      BY <3>1, LeavesMore
    <3>3. QED BY <2>2, <3>2 DEF Does
  <2>4. QED BY <1>3, <2>1, <2>3 DEF Emits, d, c, x, type
<1>4. CASE p.op = "vneg"
  <2>1. emit_vector(p, type) = emit_vneg(type, d, i, x)
    BY <1>4 DEF emit_vector, d, i, x
  <2>2. \E n : Does(m, emit_vneg(type, d, i, x), n, d, Negated(w, m.x[i]), x)
    BY <1>1, <1>4, Neg
  <2>3. QED BY <1>4, <2>1, <2>2 DEF Emits, d, i, x, type
<1>5. CASE p.op = "vbnot"
  <2>1. emit_vector(p, type) = emit_vbnot(type, d, i, x)
    BY <1>5 DEF emit_vector, d, i, x
  <2>2. \E n : Does(m, emit_vbnot(type, d, i, x), n, d, Not(m.x[i]), x)
    BY <1>1, <1>5, BNot
  <2>3. QED BY <1>5, <2>1, <2>2 DEF Emits, d, i, x, type
<1>6. QED BY <1>2, <1>3, <1>4, <1>5

(* With a vector and a count in a register.                                 *)
LEMMA EmittedShift ==
    ASSUME use_sse2, NEW m \in Machines, NEW p \in Instructions, p.op \in VecShiftOps
    PROVE  LET w == Width(p.type)
               op == ShiftOf[p.op]
           IN  Emits(p, m, ByCount(op, w, m.x[p.ri], CountOf(op, w, m.g[p.rj])))
<1> DEFINE type == p.type
           w == Width(type)
           x == X_FREE
           d == p.rd
           i == p.ri
           j == p.rj
           a == m.x[i]
           y == m.g[j]
           op == ShiftOf[p.op]
<1>1. /\ Three(x) /\ type \in IntTypes
      /\ d \in Regs16 \ x /\ i \in Regs16 \ x /\ j \in Regs16 \ {13, 14} /\ j \in Regs16
  <2>1. p.op # "vmovi"
    BY DEF VecShiftOps
  <2>2. QED BY <2>1, InstructionRegs
<1> HIDE DEF x, type, d, i, j
<1>2. /\ \E n : Does(m, emit_vsrl(type, d, i, j, x), n, d, Shifted("psrl", w, a, y), x)
      /\ \E n : Does(m, emit_vsra(type, d, i, j, x), n, d,
                     IF w = W64 THEN HalvedBoth(a, Low(WCL, y)) ELSE Shifted("psra", w, a, y), x)
  BY <1>1, ShiftRightBoth
<1>3. CASE p.op = "vsll"
  <2>1. emit_vector(p, type) = emit_vsll(type, d, i, j, x)
    BY <1>3 DEF emit_vector, d, i, j, x
  <2>2. ByCount(op, w, a, CountOf(op, w, y)) = Shifted("psll", w, a, y)
    BY <1>3 DEF ShiftOf, ByCount, CountOf
  <2>3. \E n : Does(m, emit_vsll(type, d, i, j, x), n, d, Shifted("psll", w, a, y), x)
    BY <1>1, ShiftLeft
  <2>4. QED BY <2>1, <2>2, <2>3 DEF Emits, d, i, j, x, type
<1>4. CASE p.op = "vsrl"
  <2>1. emit_vector(p, type) = emit_vsrl(type, d, i, j, x)
    BY <1>4 DEF emit_vector, d, i, j, x
  <2>2. ByCount(op, w, a, CountOf(op, w, y)) = Shifted("psrl", w, a, y)
    BY <1>4 DEF ShiftOf, ByCount, CountOf
  <2>3. QED BY <1>2, <2>1, <2>2 DEF Emits, d, i, j, x, type
<1>5. CASE p.op = "vsra"
  <2>1. emit_vector(p, type) = emit_vsra(type, d, i, j, x)
    BY <1>5 DEF emit_vector, d, i, j, x
  <2>2. ByCount(op, w, a, CountOf(op, w, y))
        = IF w = W64 THEN HalvedBoth(a, Low(WCL, y)) ELSE Shifted("psra", w, a, y)
    BY <1>5 DEF ShiftOf, ByCount, CountOf
  <2>3. QED BY <1>2, <2>1, <2>2 DEF Emits, d, i, j, x, type
<1>6. QED BY <1>3, <1>4, <1>5 DEF VecShiftOps

(* With a vector and a count that is an immediate; for a shift right of a   *)
(* negative one, which C leaves undefined, it is not said which.            *)
LEMMA EmittedShiftImmediate ==
    ASSUME use_sse2, NEW m \in Machines, NEW p \in Instructions, p.op \in VecShiftImmOps
    PROVE  \E z : /\ Emits(p, m, z)
                  /\ p.imm \in Nat => z = ByCount(ShiftOf[p.op], Width(p.type), m.x[p.ri], p.imm)
<1> DEFINE type == p.type
           w == Width(type)
           x == X_FREE
           d == p.rd
           i == p.ri
           c == p.imm
           a == m.x[i]
           op == ShiftOf[p.op]
<1>1. /\ Free(x) /\ x \ {alloc_(x)} # {} /\ type \in IntTypes
      /\ d \in Regs16 \ x /\ i \in Regs16 \ x /\ c \in Int
  <2>1. p.op # "vmovi"
    BY DEF VecShiftImmOps
  <2>2. QED BY <2>1, InstructionRegs
<1> HIDE DEF x, type, d, i, c
<1>2. CASE p.op = "vslli"
  <2>1. emit_vector(p, type) = emit_vslli(type, d, i, c, x)
    BY <1>2 DEF emit_vector, d, i, c, x
  <2>2. ByCount(op, w, a, c) = Shifted("psll", w, a, c)
    BY <1>2 DEF ShiftOf, ByCount
  <2>3. \E n : Does(m, emit_vslli(type, d, i, c, x), n, d, Shifted("psll", w, a, c), x)
    BY <1>1, ShiftLeftImmediate
  <2>4. Emits(p, m, ByCount(op, w, a, c))
    BY <2>1, <2>2, <2>3 DEF Emits, d, i, c, x, type
  <2>5. QED BY <2>4 DEF c, i, type
<1>3. CASE p.op = "vsrli"
  <2>1. emit_vector(p, type) = emit_vsrli(type, d, i, c, x)
    BY <1>3 DEF emit_vector, d, i, c, x
  <2>2. ByCount(op, w, a, c) = Shifted("psrl", w, a, c)
    BY <1>3 DEF ShiftOf, ByCount
  <2>3. PICK n, z : /\ Does(m, emit_vsrli(type, d, i, c, x), n, d, z, x)
                    /\ c \in Nat => z = Shifted("psrl", w, a, c)
    BY <1>1, ShiftRightImmediate
  <2>4. Emits(p, m, z)
    BY <2>1, <2>3 DEF Emits, d, x, type
  <2>5. c \in Nat => z = ByCount(op, w, a, c)
    BY <2>2, <2>3
  <2>6. QED BY <2>4, <2>5 DEF c, i, type
<1>4. CASE p.op = "vsrai"
  <2>1. emit_vector(p, type) = emit_vsrai(type, d, i, c, x)
    BY <1>4 DEF emit_vector, d, i, c, x
  <2>2. ByCount(op, w, a, c) = IF w = W64 THEN HalvedBoth(a, c) ELSE Shifted("psra", w, a, c)
    BY <1>4 DEF ShiftOf, ByCount
  <2>3. \E n : Does(m, emit_vsrai(type, d, i, c, x), n, d,
                    IF w = W64 THEN HalvedBoth(a, c) ELSE Shifted("psra", w, a, c), x)
    BY <1>1, ArithmeticImmediate
  <2>4. Emits(p, m, ByCount(op, w, a, c))
    BY <2>1, <2>2, <2>3 DEF Emits, d, i, c, x, type
  <2>5. QED BY <2>4 DEF c, i, type
<1>5. QED BY <1>2, <1>3, <1>4 DEF VecShiftImmOps

(* Whatever the instruction.                                                *)
LEMMA Emitted ==
    ASSUME use_sse2, NEW m \in Machines, NEW p \in Instructions
    PROVE  \E z : Emits(p, m, z)
<1>1. CASE p.op \in VecBinaryOps
  BY <1>1, EmittedBinary
<1>2. CASE p.op \in VecImmOps
  BY <1>2, EmittedImmediate
<1>3. CASE p.op \in VecUnaryOps \cup {"vmovi"}
  BY <1>3, EmittedUnary DEF VecUnaryOps
<1>4. CASE p.op \in VecShiftOps
  BY <1>4, EmittedShift
<1>5. CASE p.op \in VecShiftImmOps
  BY <1>5, EmittedShiftImmediate
<1>6. p.op \in VecOperations
  BY InstructionRegs
<1>7. QED BY <1>1, <1>2, <1>3, <1>4, <1>5, <1>6 DEF VecOperations

-----------------------------------------------------------------------------
(* What the result z of an instruction is, on machine m.                    *)
Result(p, m, z) ==
    LET w == Width(p.type)
        a == m.x[p.ri]
        op == ShiftOf[p.op]
    IN  /\ p.op \in VecBinaryOps => z = Both(BaseOf[p.op], w, a, m.x[p.rj])
        /\ p.op \in VecImmOps => z = Both(BaseOf[p.op], w, a, Splat(w, p.imm))
        /\ p.op \in VecShiftOps => z = ByCount(op, w, a, CountOf(op, w, m.g[p.rj]))
        /\ p.op \in VecShiftImmOps /\ p.imm \in Nat => z = ByCount(op, w, a, p.imm)
        /\ p.op = "vmov" => z = a
        /\ p.op = "vmovi" => z = Splat(w, p.imm)
        /\ p.op = "vneg" => z = Negated(w, a)
        /\ p.op = "vbnot" => z = Not(a)

(* Code s is the instruction p: it puts its result in the destination, and  *)
(* changes no register besides but temporaries.                             *)
Computes(p, s) ==
    \A m \in Machines :
        /\ Exec(m, s) \in Machines
        /\ Result(p, m, Exec(m, s).x[p.rd])
        /\ \A y \in Regs16 \ (X_FREE \cup {p.rd}) : Exec(m, s).x[y] = m.x[y]
        /\ \A y \in Regs16 \ {13, 14} : Exec(m, s).g[y] = m.g[y]

(* The kinds of instructions.                                               *)
LEMMA Kinds ==
    /\ \A op \in VecBinaryOps : op \notin VecImmOps \cup VecShiftOps \cup VecShiftImmOps
                                          \cup VecUnaryOps \cup {"vmovi"}
    /\ \A op \in VecImmOps : op \notin VecShiftOps \cup VecShiftImmOps \cup VecUnaryOps \cup {"vmovi"}
    /\ \A op \in VecShiftOps : op \notin VecShiftImmOps \cup VecUnaryOps \cup {"vmovi"}
    /\ \A op \in VecShiftImmOps : op \notin VecUnaryOps \cup {"vmovi"}
<1>1. \A op \in VecBinaryOps : op \notin VecImmOps \cup VecShiftOps \cup VecShiftImmOps
                                         \cup VecUnaryOps \cup {"vmovi"}
  BY DEF VecBinaryOps, VecCompareOps, VecImmOps, VecCompareImmOps, VecShiftOps, VecShiftImmOps, VecUnaryOps
<1>2. \A op \in VecImmOps : op \notin VecShiftOps \cup VecShiftImmOps \cup VecUnaryOps \cup {"vmovi"}
  BY DEF VecImmOps, VecCompareImmOps, VecShiftOps, VecShiftImmOps, VecUnaryOps
<1>3. /\ \A op \in VecShiftOps : op \notin VecShiftImmOps \cup VecUnaryOps \cup {"vmovi"}
      /\ \A op \in VecShiftImmOps : op \notin VecUnaryOps \cup {"vmovi"}
  BY DEF VecShiftOps, VecShiftImmOps, VecUnaryOps
<1>4. QED BY <1>1, <1>2, <1>3

(* The code of an instruction computes its result.                          *)
LEMMA EmittedResult ==
    ASSUME use_sse2, NEW m \in Machines, NEW p \in Instructions
    PROVE  \E z : Emits(p, m, z) /\ Result(p, m, z)
<1>1. CASE p.op \in VecBinaryOps
  <2>1. PICK z : z = Both(BaseOf[p.op], Width(p.type), m.x[p.ri], m.x[p.rj])
    OBVIOUS
  <2>2. Emits(p, m, z)
    BY <1>1, <2>1, EmittedBinary
  <2>3. Result(p, m, z)
    BY <1>1, <2>1, Kinds DEF Result, VecUnaryOps
  <2>4. QED BY <2>2, <2>3
<1>2. CASE p.op \in VecImmOps
  <2>1. PICK z : z = Both(BaseOf[p.op], Width(p.type), m.x[p.ri], Splat(Width(p.type), p.imm))
    OBVIOUS
  <2>2. Emits(p, m, z)
    BY <1>2, <2>1, EmittedImmediate
  <2>3. Result(p, m, z)
    BY <1>2, <2>1, Kinds DEF Result, VecUnaryOps
  <2>4. QED BY <2>2, <2>3
<1>3. CASE p.op \in VecShiftOps
  <2>1. PICK z : z = ByCount(ShiftOf[p.op], Width(p.type), m.x[p.ri],
                             CountOf(ShiftOf[p.op], Width(p.type), m.g[p.rj]))
    OBVIOUS
  <2>2. Emits(p, m, z)
    BY <1>3, <2>1, EmittedShift
  <2>3. Result(p, m, z)
    BY <1>3, <2>1, Kinds DEF Result, VecUnaryOps
  <2>4. QED BY <2>2, <2>3
<1>4. CASE p.op \in VecShiftImmOps
  <2>1. PICK z : /\ Emits(p, m, z)
                 /\ p.imm \in Nat => z = ByCount(ShiftOf[p.op], Width(p.type), m.x[p.ri], p.imm)
    BY <1>4, EmittedShiftImmediate
  <2>2. Result(p, m, z)
    BY <1>4, <2>1, Kinds DEF Result, VecUnaryOps
  <2>3. QED BY <2>1, <2>2
<1>5. CASE p.op \in VecUnaryOps \cup {"vmovi"}
  <2>1. PICK z : /\ p.op = "vmov" => z = m.x[p.ri]
                 /\ p.op = "vmovi" => z = Splat(Width(p.type), p.imm)
                 /\ p.op = "vneg" => z = Negated(Width(p.type), m.x[p.ri])
                 /\ p.op = "vbnot" => z = Not(m.x[p.ri])
    OBVIOUS
  <2>2. Emits(p, m, z)
    BY <1>5, <2>1, EmittedUnary DEF VecUnaryOps
  <2>3. Result(p, m, z)
    BY <1>5, <2>1, Kinds DEF Result
  <2>4. QED BY <2>2, <2>3
<1>6. p.op \in VecOperations
  BY InstructionRegs
<1>7. QED BY <1>1, <1>2, <1>3, <1>4, <1>5, <1>6 DEF VecOperations

(* The code emitted for an instruction is that instruction, of enabled      *)
(* instructions of the processor.                                           *)
LEMMA EmittedComputes ==
    ASSUME use_sse2, NEW p \in Instructions
    PROVE  emit_vector(p, p.type) \in Seq(Fine) /\ Computes(p, emit_vector(p, p.type))
<1> DEFINE s == emit_vector(p, p.type)
<1>1. ASSUME NEW m \in Machines
      PROVE  /\ s \in Seq(Fine) /\ Exec(m, s) \in Machines
             /\ Result(p, m, Exec(m, s).x[p.rd])
             /\ \A y \in Regs16 \ (X_FREE \cup {p.rd}) : Exec(m, s).x[y] = m.x[y]
             /\ \A y \in Regs16 \ {13, 14} : Exec(m, s).g[y] = m.g[y]
  <2>1. PICK z : Emits(p, m, z) /\ Result(p, m, z)
    BY EmittedResult
  <2>2. PICK n : Does(m, s, n, p.rd, z, X_FREE)
    BY <2>1 DEF Emits
  <2> HIDE DEF s
  <2>3. s \in Seq(Fine) /\ Exec(m, s) = n /\ n \in Machines
    BY <2>2 DEF Does, Leaves, After
  <2>4. QED BY <2>1, <2>2, <2>3 DEF Does, Leaves
<1>2. \E m : m \in Machines
  <2>1. [x |-> [y \in Regs16 |-> Zero], g |-> [y \in Regs16 |-> Junk]] \in Machines
    BY ConstantLanes, JitVecAssumption DEF Machines
  <2>2. QED BY <2>1
<1> HIDE DEF s
<1>3. QED BY <1>1, <1>2 DEF s, Computes
=============================================================================
