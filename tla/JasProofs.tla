----------------------------- MODULE JasProofs ------------------------------
(***************************************************************************)
(* Proofs about the assembler of text programs: whatever the lines are,    *)
(* what it writes is what they say.                                        *)
(***************************************************************************)
EXTENDS Jas, SequenceTheorems, WellFoundedInduction, TLAPS

-----------------------------------------------------------------------------
(* The table of opcodes.  A name is a sequence of at least one part.        *)
Parts == {"nop", "jmp", "jnz", "jz", "ret", "neg", "bnot", "inv", "mov", "i", "v",
          "add", "sub", "rsub", "mul", "sll", "srl", "sra", "band", "bor", "bxor",
          "cmplt", "cmple", "cmpeq", "cmpgt", "cmpge", "cmpne"}
Name == {s \in Seq(Parts) : Len(s) # 0}

(* Names of one, two and three parts.                                       *)
LEMMA Named ==
    ASSUME NEW s \in Parts
    PROVE  /\ <<s>> \in Name
           /\ \A u \in Parts : <<s, u>> \in Name
           /\ \A u \in Parts : \A w \in Parts : <<s, u, w>> \in Name
<1>1. <<s>> \in Seq(Parts) /\ Len(<<s>>) = 1
  OBVIOUS
<1>2. ASSUME NEW u \in Parts
      PROVE  <<s, u>> \in Name /\ \A w \in Parts : <<s, u, w>> \in Name
  <2>1. <<s, u>> \in Seq(Parts) /\ Len(<<s, u>>) = 2
    OBVIOUS
  <2>2. ASSUME NEW w \in Parts
        PROVE  <<s, u, w>> \in Name
    <3>1. <<s, u, w>> \in Seq(Parts) /\ Len(<<s, u, w>>) = 3
      OBVIOUS
    <3>2. QED BY <3>1 DEF Name
  <2>3. QED BY <2>1, <2>2 DEF Name
<1>3. QED BY <1>1, <1>2 DEF Name

(* The four forms of an operation have names.                               *)
LEMMA FormsTyped ==
    ASSUME NEW s \in Parts, "i" \in Parts, "v" \in Parts PROVE Forms(s) \in Seq(Name)
<1>1. <<s>> \in Name /\ <<s, "i">> \in Name /\ <<"v", s>> \in Name /\ <<"v", s, "i">> \in Name
  BY Named
<1>2. QED BY <1>1 DEF Forms

(* Tables of names joined are a table of names.                             *)
LEMMA NamesJoined ==
    ASSUME NEW s \in Seq(Name), NEW t \in Seq(Name) PROVE s \o t \in Seq(Name)
OBVIOUS

(* Every entry of the table of opcodes is a name.                           *)
LEMMA Table == symbol_id \in Seq(Name)
<1> DEFINE head == << <<"nop">>, <<"jmp">>, <<"jnz">>, <<"jz">>, <<"ret">>, <<"neg">>, <<"bnot">>,
                      <<"inv">>, <<"mov">>, <<"mov", "i">> >>
           rest == << <<"v", "ret">>, <<"v", "mov">>, <<"v", "mov", "i">>, <<"v", "neg">>,
                      <<"v", "bnot">>, <<"v", "inv">> >>
<1>1. /\ "nop" \in Parts /\ "jmp" \in Parts /\ "jnz" \in Parts /\ "jz" \in Parts /\ "ret" \in Parts
      /\ "neg" \in Parts /\ "bnot" \in Parts /\ "inv" \in Parts /\ "mov" \in Parts
      /\ "i" \in Parts /\ "v" \in Parts
  BY DEF Parts
<1>2. /\ "add" \in Parts /\ "sub" \in Parts /\ "rsub" \in Parts /\ "mul" \in Parts /\ "sll" \in Parts
      /\ "srl" \in Parts /\ "sra" \in Parts /\ "band" \in Parts /\ "bor" \in Parts /\ "bxor" \in Parts
      /\ "cmplt" \in Parts /\ "cmple" \in Parts /\ "cmpeq" \in Parts /\ "cmpgt" \in Parts
      /\ "cmpge" \in Parts /\ "cmpne" \in Parts
  BY DEF Parts
<1>3. head \in Seq(Name)
  <2>1. /\ <<"nop">> \in Name /\ <<"jmp">> \in Name /\ <<"jnz">> \in Name /\ <<"jz">> \in Name
        /\ <<"ret">> \in Name /\ <<"neg">> \in Name /\ <<"bnot">> \in Name /\ <<"inv">> \in Name
        /\ <<"mov">> \in Name /\ <<"mov", "i">> \in Name
    BY <1>1, Named
  <2>2. QED BY <2>1
<1>4. rest \in Seq(Name)
  <2>1. /\ <<"v", "ret">> \in Name /\ <<"v", "mov">> \in Name /\ <<"v", "mov", "i">> \in Name
        /\ <<"v", "neg">> \in Name /\ <<"v", "bnot">> \in Name /\ <<"v", "inv">> \in Name
    BY <1>1, Named
  <2>2. QED BY <2>1
<1> HIDE DEF head, rest
<1>5. /\ Forms("add") \in Seq(Name) /\ Forms("sub") \in Seq(Name) /\ Forms("rsub") \in Seq(Name)
      /\ Forms("mul") \in Seq(Name) /\ Forms("sll") \in Seq(Name) /\ Forms("srl") \in Seq(Name)
      /\ Forms("sra") \in Seq(Name) /\ Forms("band") \in Seq(Name) /\ Forms("bor") \in Seq(Name)
      /\ Forms("bxor") \in Seq(Name)
  BY <1>1, <1>2, FormsTyped
<1>6. /\ Forms("cmplt") \in Seq(Name) /\ Forms("cmple") \in Seq(Name) /\ Forms("cmpeq") \in Seq(Name)
      /\ Forms("cmpgt") \in Seq(Name) /\ Forms("cmpge") \in Seq(Name) /\ Forms("cmpne") \in Seq(Name)
  BY <1>1, <1>2, FormsTyped
<1> DEFINE a == head \o Forms("add") \o Forms("sub") \o Forms("rsub") \o Forms("mul")
           b == a \o Forms("sll") \o Forms("srl") \o Forms("sra")
           c == b \o Forms("band") \o Forms("bor") \o Forms("bxor")
           d == c \o Forms("cmplt") \o Forms("cmple") \o Forms("cmpeq")
           e == d \o Forms("cmpgt") \o Forms("cmpge") \o Forms("cmpne") \o rest
<1>7. a \in Seq(Name)
  BY <1>3, <1>5, NamesJoined
<1> HIDE DEF a
<1>8. b \in Seq(Name)
  BY <1>5, <1>7, NamesJoined
<1> HIDE DEF b
<1>9. c \in Seq(Name)
  BY <1>5, <1>8, NamesJoined
<1> HIDE DEF c
<1>10. d \in Seq(Name)
  BY <1>6, <1>9, NamesJoined
<1> HIDE DEF d
<1>11. e \in Seq(Name)
  BY <1>4, <1>6, <1>10, NamesJoined
<1>12. symbol_id = e
  BY DEF symbol_id, a, b, c, d, e, head, rest
<1>13. QED BY <1>11, <1>12

(* A sequence is a prefix of itself.                                        *)
LEMMA PrefixReflexive ==
    ASSUME NEW s, Len(s) \in Nat PROVE IsPrefix(s, s)
BY DEF IsPrefix

(* The look-up of a word that no earlier entry hides.                       *)
LEMMA LookUp ==
    ASSUME NEW word, word.type # "REGISTER", Unshadowed(word)
    PROVE  lookup(word) = word.name /\ lookup(word) # Unknown
<1> DEFINE found == {k \in DOMAIN symbol_id : eqstrn(symbol_id[k], word)}
           least == CHOOSE k \in found : \A l \in found : k <= l
<1>1. PICK k \in DOMAIN symbol_id :
             /\ symbol_id[k] = word.name
             /\ \A l \in 1 .. k - 1 : ~ IsPrefix(symbol_id[l], word.name)
             /\ word.name \in Untyped => word.suffix = ""
  BY DEF Unshadowed
<1>2. /\ DOMAIN symbol_id = 1 .. Len(symbol_id) /\ Len(symbol_id) \in Nat
      /\ \A l \in DOMAIN symbol_id : symbol_id[l] \in Name /\ l \in Int
  BY Table
<1>3. \A l \in DOMAIN symbol_id : Len(symbol_id[l]) \in Nat /\ symbol_id[l] # << >>
  BY <1>2 DEF Name
<1>4. \A l \in DOMAIN symbol_id : IsPrefix(symbol_id[l], symbol_id[l])
  BY <1>3, PrefixReflexive
<1>5. k \in found
  BY <1>1, <1>4 DEF eqstrn
<1>6. \A l \in found : k <= l
  <2> SUFFICES ASSUME NEW l \in found, ~ (k <= l)
               PROVE  FALSE
    OBVIOUS
  <2>1. l \in DOMAIN symbol_id /\ eqstrn(symbol_id[l], word)
    OBVIOUS
  <2>2. l \in 1 .. k - 1
    <3>1. k \in 1 .. Len(symbol_id) /\ l \in 1 .. Len(symbol_id) /\ Len(symbol_id) \in Nat
      BY <1>2, <2>1
    <3>2. QED BY <3>1
  <2>3. IsPrefix(symbol_id[l], word.name)
    BY <1>4, <2>1 DEF eqstrn
  <2>4. QED BY <1>1, <2>2, <2>3
<1>7. least = k
  <2>1. least \in found /\ \A l \in found : least <= l
    BY <1>5, <1>6
  <2>2. least <= k /\ k <= least /\ least \in Int /\ k \in Int
    BY <1>2, <1>5, <1>6, <2>1
  <2>3. QED BY <2>2
<1>8. lookup(word) = symbol_id[least]
  BY <1>5 DEF lookup
<1>9. QED BY <1>1, <1>3, <1>7, <1>8 DEF Unknown

(* What is looked up is a name, or the opcode of a register, or unknown;    *)
(* and of a token without a name, unknown.                                  *)
Opcodes == Name \cup {Numbered, Unknown}

(* What lookup returns is one of these; and a line without an instruction   *)
(* has none.                                                                *)
LEMMA LookUpTyped ==
    ASSUME NEW word
    PROVE  /\ lookup(word) \in Opcodes
           /\ word = NoToken => lookup(word) = Unknown
<1> DEFINE found == {k \in DOMAIN symbol_id : eqstrn(symbol_id[k], word)}
           least == CHOOSE k \in found : \A l \in found : k <= l
<1>1. /\ DOMAIN symbol_id = 1 .. Len(symbol_id) /\ Len(symbol_id) \in Nat
      /\ \A l \in DOMAIN symbol_id : symbol_id[l] \in Name
  BY Table
<1>2. ASSUME found # {}
      PROVE  least \in found
  <2>1. found \subseteq Nat
    BY <1>1
  <2>2. \E k \in found : \A l \in found : k <= l
    <3> HIDE DEF found
    <3>1. PICK k \in found : \A l \in found : ~ (<<l, k>> \in OpToRel(<, Nat))
      BY <1>2, <2>1, NatLessThanWellFounded, WFMin
    <3>2. \A l \in found : k <= l
      <4> SUFFICES ASSUME NEW l \in found, ~ (k <= l)
                   PROVE  FALSE
        OBVIOUS
      <4>1. k \in Nat /\ l \in Nat
        BY <2>1
      <4>2. <<l, k>> \in OpToRel(<, Nat)
        BY <4>1 DEF OpToRel
      <4>3. QED BY <3>1, <4>2
    <3>3. QED BY <3>2
  <2>3. QED BY <2>2
<1>3. lookup(word) \in Opcodes
  BY <1>1, <1>2 DEF lookup, Opcodes
<1>4. ASSUME word = NoToken
      PROVE  lookup(word) = Unknown
  <2>1. word.type = "NONE" /\ word.name = << >>
    BY <1>4 DEF NoToken
  <2>2. ASSUME NEW k \in DOMAIN symbol_id, eqstrn(symbol_id[k], word)
        PROVE  FALSE
    <3>1. symbol_id[k] \in Seq(Parts) /\ Len(symbol_id[k]) # 0 /\ Len(symbol_id[k]) \in Nat
      BY <1>1 DEF Name
    <3>2. CASE symbol_id[k] \in Untyped
      <4>1. symbol_id[k] = << >>
        BY <2>1, <2>2, <3>2 DEF eqstrn
      <4>2. QED BY <3>1, <4>1
    <3>3. CASE symbol_id[k] \notin Untyped
      <4>1. Len(symbol_id[k]) <= Len(<< >>)
        BY <2>1, <2>2, <3>3 DEF eqstrn, IsPrefix
      <4>2. Len(<< >>) = 0
        OBVIOUS
      <4>3. QED BY <3>1, <4>1, <4>2
    <3>4. QED BY <3>2, <3>3
  <2>3. found = {}
    BY <2>2
  <2>4. QED BY <2>1, <2>3 DEF lookup
<1>5. QED BY <1>3, <1>4

-----------------------------------------------------------------------------
(* Induction from 0 to N, for a set.                                        *)
LEMMA UpTo ==
    ASSUME NEW N \in Nat, NEW S, 0 \in S,
           \A k \in 1 .. N : k - 1 \in S => k \in S
    PROVE  0 .. N \subseteq S
<1> DEFINE T == (0 .. N) \ S
<1> SUFFICES ASSUME T # {}
             PROVE  FALSE
  OBVIOUS
<1>1. PICK x \in T : \A y \in T : ~(<<y, x>> \in OpToRel(<, Nat))
  <2>1. T \subseteq Nat
    OBVIOUS
  <2> HIDE DEF T
  <2>2. QED BY <2>1, NatLessThanWellFounded, WFMin
<1>2. x \in 1 .. N /\ x \notin S
  OBVIOUS
<1>3. x - 1 \in 0 .. N /\ x - 1 \notin S /\ x - 1 < x
  BY <1>2
<1>4. <<x - 1, x>> \in OpToRel(<, Nat)
  BY <1>2, <1>3 DEF OpToRel
<1>5. QED BY <1>1, <1>3, <1>4

(* After which lines a comment is open: the recursion, unfolded.            *)
LEMMA OpenSteps ==
    ASSUME NEW text, Len(text) \in Nat
    PROVE  /\ OpenAfter(text)[0] = FALSE
           /\ \A k \in 1 .. Len(text) :
                 OpenAfter(text)[k] = OpenAfterLine(OpenAfter(text)[k - 1], text[k])
<1> DEFINE N == Len(text)
           Until(a, m) == /\ a = [k \in 0 .. N |-> a[k]]
                          /\ a[0] = FALSE
                          /\ \A k \in 1 .. m : a[k] = OpenAfterLine(a[k - 1], text[k])
           U == {m \in 0 .. N : \E a : Until(a, m)}
           Rec(a) == a = [k \in 0 .. N |-> IF k = 0 THEN FALSE ELSE OpenAfterLine(a[k - 1], text[k])]
<1>1. 0 \in U
  <2> DEFINE a == [k \in 0 .. N |-> FALSE]
  <2>1. Until(a, 0) /\ 0 \in 0 .. N
    OBVIOUS
  <2> HIDE DEF a, Until
  <2>2. QED BY <2>1
<1>2. ASSUME NEW m \in 1 .. N, m - 1 \in U
      PROVE  m \in U
  <2>1. PICK a : Until(a, m - 1)
    BY <1>2
  <2> DEFINE h == [k \in 0 .. N |-> IF k = m THEN OpenAfterLine(a[m - 1], text[m]) ELSE a[k]]
  <2>2. h = [k \in 0 .. N |-> h[k]] /\ h[0] = FALSE
    BY <2>1
  <2>3. ASSUME NEW k \in 1 .. m
        PROVE  h[k] = OpenAfterLine(h[k - 1], text[k])
    <3>1. h[k - 1] = a[k - 1]
      OBVIOUS
    <3>2. CASE k = m
      BY <3>1, <3>2
    <3>3. CASE k # m
      <4>1. h[k] = a[k] /\ k \in 1 .. m - 1
        BY <3>3
      <4>2. QED BY <2>1, <3>1, <4>1
    <3>4. QED BY <3>2, <3>3
  <2> HIDE DEF h
  <2>4. Until(h, m) /\ m \in 0 .. N
    BY <2>2, <2>3
  <2> HIDE DEF Until
  <2>5. QED BY <2>4
<1>3. N \in U
  <2> HIDE DEF U
  <2>1. 0 .. N \subseteq U
    BY <1>1, <1>2, UpTo
  <2>2. QED BY <2>1
<1>4. PICK a : Until(a, N)
  BY <1>3
<1>5. Rec(a)
  <2>1. \A k \in 0 .. N : a[k] = IF k = 0 THEN FALSE ELSE OpenAfterLine(a[k - 1], text[k])
    <3>1. \A k \in 0 .. N : k = 0 \/ k \in 1 .. N
      OBVIOUS
    <3>2. QED BY <1>4, <3>1
  <2>2. QED BY <1>4, <2>1
<1> DEFINE after == CHOOSE b : Rec(b)
<1>6. OpenAfter(text) = after
  BY Zenon DEF OpenAfter
<1>7. Rec(after)
  <2> HIDE DEF Rec
  <2>1. QED BY <1>5
<1> HIDE DEF after
<1>8. after[0] = FALSE /\ \A k \in 1 .. N : after[k] = OpenAfterLine(after[k - 1], text[k])
  BY <1>7
<1>9. QED BY <1>6, <1>8

(* Appending a line to a text.                                              *)
LEMMA OpenAppended ==
    ASSUME NEW text \in Seq(Lines), NEW l \in Lines
    PROVE  LET longer == Append(text, l)
           IN  /\ \A k \in 0 .. Len(text) : OpenAfter(longer)[k] = OpenAfter(text)[k]
               /\ OpenAfter(longer)[Len(text) + 1] = OpenAfterLine(OpenAfter(text)[Len(text)], l)
<1> DEFINE longer == Append(text, l)
           N == Len(text)
           U == {k \in 0 .. N : OpenAfter(longer)[k] = OpenAfter(text)[k]}
<1>1. /\ N \in Nat /\ Len(longer) = N + 1 /\ longer[N + 1] = l
      /\ \A k \in 1 .. N : longer[k] = text[k]
  OBVIOUS
<1> HIDE DEF longer, N
<1>2. /\ OpenAfter(text)[0] = FALSE /\ OpenAfter(longer)[0] = FALSE
      /\ \A k \in 1 .. N : OpenAfter(text)[k] = OpenAfterLine(OpenAfter(text)[k - 1], text[k])
      /\ \A k \in 1 .. N + 1 : OpenAfter(longer)[k] = OpenAfterLine(OpenAfter(longer)[k - 1], longer[k])
  <2>1. Len(text) \in Nat /\ Len(longer) \in Nat
    BY <1>1 DEF N
  <2>2. QED BY <1>1, <2>1, OpenSteps DEF N
<1>3. 0 \in U
  <2>1. OpenAfter(longer)[0] = OpenAfter(text)[0]
    BY <1>2, Zenon
  <2>2. 0 \in 0 .. N
    BY <1>1
  <2>3. QED BY <2>1, <2>2
<1>4. ASSUME NEW k \in 1 .. N, k - 1 \in U
      PROVE  k \in U
  BY <1>1, <1>2, <1>4
<1>5. 0 .. N \subseteq U
  <2> HIDE DEF U
  <2>1. QED BY <1>1, <1>3, <1>4, UpTo
<1>6. OpenAfter(longer)[N + 1] = OpenAfterLine(OpenAfter(text)[N], l)
  BY <1>1, <1>2, <1>5
<1>7. QED BY <1>5, <1>6 DEF longer, N

-----------------------------------------------------------------------------
(* The statement of a line: its tokens but for a label and for the end.     *)
LEMMA StatementOf ==
    ASSUME NEW l \in Lines
    PROVE  LET t == l.tokens
               s == Statement(l)
           IN  /\ t \in Seq(Token) /\ Len(t) \in Nat \ {0} /\ l.closes \in BOOLEAN
               /\ \A k \in 1 .. Len(t) : t[k] \in Token /\ (t[k].tw = "EOL" <=> k = Len(t))
               /\ First(l) = 1 \/ (First(l) = 2 /\ IsLabel(t[1]))
               /\ First(l) = 2 <=> IsLabel(t[1])
               /\ First(l) \in 1 .. Len(t)
               /\ s \in Seq(Token) /\ Len(s) = Len(t) - First(l)
               /\ \A k \in 1 .. Len(s) : s[k] = t[First(l) + k - 1]
               /\ s = << >> <=> Len(s) = 0
<1> DEFINE t == l.tokens
           N == Len(t)
           F == First(l)
           s == Statement(l)
<1>1. /\ t \in Seq(Token) /\ t # << >> /\ l.closes \in BOOLEAN
      /\ \A k \in 1 .. Len(t) : t[k].tw = "EOL" <=> k = Len(t)
  BY LinesAssumption
<1>2. N \in Nat \ {0} /\ \A k \in 1 .. N : t[k] \in Token
  BY <1>1
<1>3. (F = 1 \/ (F = 2 /\ IsLabel(t[1]))) /\ (F = 2 <=> IsLabel(t[1]))
  BY DEF First
<1>4. F \in 1 .. N
  <2>1. CASE F = 1
    BY <1>2, <2>1
  <2>2. CASE F = 2 /\ IsLabel(t[1])
    <3>1. t[1].tw # "EOL"
      BY <2>2 DEF IsLabel
    <3>2. N # 1
      BY <1>1, <1>2, <3>1
    <3>3. F = 2 /\ N \in Nat /\ N # 0 /\ N # 1
      BY <1>2, <2>2, <3>2
    <3> HIDE DEF F, N
    <3>4. QED BY <3>3
  <2>3. QED BY <1>3, <2>1, <2>2
<1>5. s = SubSeq(t, F, N - 1)
  BY DEF Statement
<1> HIDE DEF s, t, N, F
<1>6. /\ s \in Seq(Token) /\ Len(s) = N - F
      /\ \A k \in 1 .. N - F : s[k] = t[F + k - 1]
  <2>1. F \in Int /\ N - 1 \in Int /\ \A i \in F .. N - 1 : t[i] \in Token
    BY <1>2, <1>4
  <2>2. /\ s \in Seq(Token)
        /\ Len(s) = IF F <= N - 1 THEN (N - 1) - F + 1 ELSE 0
        /\ \A i \in 1 .. (N - 1) - F + 1 : s[i] = t[F + i - 1]
    BY <1>5, <2>1, SubSeqProperties
  <2>3. (N - 1) - F + 1 = N - F /\ (~ (F <= N - 1) => N - F = 0)
    BY <1>2, <1>4
  <2>4. QED BY <2>2, <2>3
<1>7. s = << >> <=> Len(s) = 0
  BY <1>6
<1>8. QED BY <1>1, <1>2, <1>3, <1>4, <1>6, <1>7 DEF s, t, N, F

(* The token at a place of the line, by its place in the statement.         *)
LEMMA TokenAt ==
    ASSUME NEW l \in Lines, NEW k \in 1 .. Len(Statement(l)) + 1
    PROVE  LET t == l.tokens
               p == First(l) + k - 1
           IN  /\ p \in 1 .. Len(t)
               /\ k <= Len(Statement(l)) => t[p] = Statement(l)[k] /\ t[p].tw # "EOL"
               /\ k = Len(Statement(l)) + 1 => t[p].tw = "EOL" /\ t[p] = Last(t) /\ p = Len(t)
<1> DEFINE t == l.tokens
           N == Len(t)
           F == First(l)
           s == Statement(l)
           p == F + k - 1
<1>1. /\ N \in Nat \ {0} /\ F \in 1 .. N /\ Len(s) = N - F
      /\ \A i \in 1 .. Len(t) : t[i].tw = "EOL" <=> i = Len(t)
      /\ \A i \in 1 .. Len(s) : s[i] = t[F + i - 1]
  BY StatementOf
<1>2. k \in 1 .. Len(s) + 1
  OBVIOUS
<1> HIDE DEF t, F, s
<1>3. p \in 1 .. N /\ (p = N <=> k = Len(s) + 1) /\ (k <= Len(s) => k \in 1 .. Len(s))
  BY <1>1, <1>2
<1>4. k <= Len(s) => t[p] = s[k] /\ t[p].tw # "EOL"
  <2>1. ASSUME k <= Len(s)
        PROVE  t[p] = s[k] /\ t[p].tw # "EOL"
    <3>1. k \in 1 .. Len(s) /\ p # N
      BY <1>1, <1>2, <1>3, <2>1
    <3>2. s[k] = t[p]
      BY <1>1, <3>1
    <3> HIDE DEF p
    <3>3. QED BY <1>1, <1>3, <3>1, <3>2
  <2>2. QED BY <2>1
<1>5. k = Len(s) + 1 => t[p].tw = "EOL" /\ t[p] = Last(t) /\ p = N
  BY <1>1, <1>3 DEF Last
<1>6. QED BY <1>3, <1>4, <1>5 DEF t, F, s

-----------------------------------------------------------------------------
(* The fields of an instruction.                                            *)
Types == {"UINT8", "UINT16", "UINT32", "UINT64", "INT8", "INT64", "FLOAT32", "FLOAT64", Behind}
Instructions == [op : Opcodes, type : Types, rd : 0 .. 15, cell12 : 0 .. 4095, cell8 : 0 .. 255]

(* Instructions with one field changed.                                     *)
LEMMA RdChanged ==
    ASSUME NEW p \in Instructions, NEW b \in 0 .. 15
    PROVE  LET q == [p EXCEPT !.rd = b]
           IN  /\ q \in Instructions /\ q.op = p.op /\ q.type = p.type
               /\ q.rd = b /\ q.cell12 = p.cell12 /\ q.cell8 = p.cell8
BY DEF Instructions

(* The same for the field of immediates of eight bits.                      *)
LEMMA Cell8Changed ==
    ASSUME NEW p \in Instructions, NEW b \in 0 .. 255
    PROVE  LET q == [p EXCEPT !.cell8 = b]
           IN  /\ q \in Instructions /\ q.op = p.op /\ q.type = p.type
               /\ q.rd = p.rd /\ q.cell12 = p.cell12 /\ q.cell8 = b
BY DEF Instructions

(* A number cut to four, eight or twelve bits, read as a signed one.        *)
LEMMA FourBits ==
    ASSUME NEW x \in Int
    PROVE  x % 16 \in 0 .. 15 /\ (x \in 0 .. 15 => x % 16 = x)
<1>1. x % 16 \in 0 .. 15
  OBVIOUS
<1>2. x \in 0 .. 15 => x % 16 = x
  OBVIOUS
<1>3. QED BY <1>1, <1>2

(* And for eight bits, a signed immediate.                                  *)
LEMMA EightBits ==
    ASSUME NEW x \in Int
    PROVE  /\ x % 256 \in 0 .. 255
           /\ x \in -128 .. 127 => x = IF x % 256 < 128 THEN x % 256 ELSE (x % 256) - 256
<1>1. x % 256 \in 0 .. 255
  OBVIOUS
<1>2. ASSUME x \in -128 .. 127
      PROVE  x = IF x % 256 < 128 THEN x % 256 ELSE (x % 256) - 256
  <2>1. x % 256 = IF x >= 0 THEN x ELSE x + 256
    BY <1>2
  <2>2. QED BY <1>2, <2>1
<1>3. QED BY <1>1, <1>2

(* And for twelve bits.                                                     *)
LEMMA TwelveBits ==
    ASSUME NEW x \in Int
    PROVE  /\ x % 4096 \in 0 .. 4095
           /\ x \in -2048 .. 2047 => x = IF x % 4096 < 2048 THEN x % 4096 ELSE (x % 4096) - 4096
<1>1. x % 4096 \in 0 .. 4095
  OBVIOUS
<1>2. ASSUME x \in -2048 .. 2047
      PROVE  x = IF x % 4096 < 2048 THEN x % 4096 ELSE (x % 4096) - 4096
  <2>1. x % 4096 = IF x >= 0 THEN x ELSE x + 4096
    BY <1>2
  <2>2. QED BY <1>2, <2>1
<1>3. QED BY <1>1, <1>2

(* What the writes of an operand change.                                    *)
LEMMA TokenNumber == ASSUME NEW o \in Token PROVE o.num \in Int
BY DEF Token

(* The first register: the other fields that matter stay.                   *)
LEMMA RdWritten ==
    ASSUME NEW p \in Instructions, NEW o \in Token
    PROVE  LET q == WithRd(p, o)
           IN  /\ q \in Instructions /\ q.op = p.op /\ q.type = p.type
               /\ o.num \in 0 .. 15 => q.rd = o.num
<1>1. o.num % 16 \in 0 .. 15 /\ (o.num \in 0 .. 15 => o.num % 16 = o.num)
  BY TokenNumber, FourBits
<1>2. QED BY <1>1, RdChanged DEF WithRd

(* The second register, in the low four bits of the field of imm12.         *)
LEMMA RiWritten ==
    ASSUME NEW p \in Instructions, NEW o \in Token
    PROVE  LET q == WithRi(p, o)
           IN  /\ q \in Instructions /\ q.op = p.op /\ q.type = p.type
               /\ q.rd = p.rd /\ (o.num \in 0 .. 15 => ri(q) = o.num)
<1> DEFINE v == 16 * (p.cell12 \div 16) + (o.num % 16)
<1>1. o.num \in Int /\ p.cell12 \in 0 .. 4095
  BY TokenNumber DEF Instructions
<1>2. v \in 0 .. 4095 /\ v % 16 = o.num % 16
  <2> DEFINE g == p.cell12 \div 16
             y == o.num % 16
  <2>1. y \in 0 .. 15
    BY <1>1
  <2>2. g \in 0 .. 255
    <3> DEFINE c == p.cell12
    <3>1. c \in 0 .. 4095
      BY <1>1
    <3> HIDE DEF c
    <3>2. c \div 16 \in 0 .. 255
      BY <3>1
    <3>3. QED BY <3>2 DEF c
  <2>3. v = 16 * g + y
    OBVIOUS
  <2> HIDE DEF g, v, y
  <2>4. v \in 0 .. 4095 /\ v % 16 = y
    BY <2>1, <2>2, <2>3
  <2>5. QED BY <2>4 DEF y
<1>3. WithRi(p, o) = [p EXCEPT !.cell12 = v]
  BY DEF WithRi
<1> HIDE DEF v
<1> DEFINE q == [p EXCEPT !.cell12 = v]
<1>4. /\ q \in Instructions /\ q.op = p.op /\ q.type = p.type
      /\ q.rd = p.rd /\ q.cell12 = v /\ q.cell8 = p.cell8
  BY <1>2 DEF Instructions
<1> HIDE DEF q
<1>5. o.num \in 0 .. 15 => q.cell12 % 16 = o.num
  <2>1. o.num \in 0 .. 15 => o.num % 16 = o.num
    BY <1>1
  <2>2. QED BY <1>2, <1>4, <2>1
<1>6. QED BY <1>3, <1>4, <1>5 DEF ri, q

(* The third register, in the low four bits of the field of imm8; ri stays. *)
LEMMA RjWritten ==
    ASSUME NEW p \in Instructions, NEW o \in Token
    PROVE  LET q == WithRj(p, o)
           IN  /\ q \in Instructions /\ q.op = p.op /\ q.type = p.type
               /\ q.rd = p.rd /\ ri(q) = ri(p) /\ (o.num \in 0 .. 15 => rj(q) = o.num)
<1> DEFINE v == 16 * (p.cell8 \div 16) + (o.num % 16)
<1>1. o.num \in Int /\ p.cell8 \in 0 .. 255 /\ p.cell8 \in 0 .. 4095
  BY TokenNumber DEF Instructions
<1>2. v \in 0 .. 255 /\ v % 16 = o.num % 16
  <2> DEFINE g == p.cell8 \div 16
             y == o.num % 16
  <2>1. y \in 0 .. 15
    BY <1>1
  <2>2. g \in 0 .. 15
    BY <1>1
  <2>3. v = 16 * g + y
    OBVIOUS
  <2> HIDE DEF g, v, y
  <2>4. v \in 0 .. 255 /\ v % 16 = y
    BY <2>1, <2>2, <2>3
  <2>5. QED BY <2>4 DEF y
<1>3. WithRj(p, o) = [p EXCEPT !.cell8 = v]
  BY DEF WithRj
<1> HIDE DEF v
<1> DEFINE q == [p EXCEPT !.cell8 = v]
<1>4. /\ q \in Instructions /\ q.op = p.op /\ q.type = p.type
      /\ q.rd = p.rd /\ q.cell12 = p.cell12 /\ q.cell8 = v
  BY <1>2, Cell8Changed
<1> HIDE DEF q
<1>5. o.num \in 0 .. 15 => q.cell8 % 16 = o.num
  <2>1. o.num \in 0 .. 15 => o.num % 16 = o.num
    BY <1>1
  <2>2. QED BY <1>2, <1>4, <2>1
<1>6. QED BY <1>3, <1>4, <1>5 DEF ri, rj, q

(* The numbers of twelve bits.                                              *)
Short == -2048 .. 2047

(* An immediate of twelve bits; rd stays.                                   *)
LEMMA Imm12Written ==
    ASSUME NEW p \in Instructions, NEW o \in Token
    PROVE  LET q == WithImm12(p, o)
           IN  /\ q \in Instructions /\ q.op = p.op /\ q.type = p.type
               /\ q.rd = p.rd
               /\ o.num \in Short => imm12(q) = o.num
<1> DEFINE v == o.num % 4096
           q == [p EXCEPT !.cell12 = v]
<1>1. /\ v \in 0 .. 4095
      /\ o.num \in -2048 .. 2047 => o.num = IF v < 2048 THEN v ELSE v - 4096
  <2> DEFINE x == o.num
  <2>1. x \in Int
    BY TokenNumber
  <2> HIDE DEF x
  <2>2. /\ x % 4096 \in 0 .. 4095
        /\ x \in -2048 .. 2047 => x = IF x % 4096 < 2048 THEN x % 4096 ELSE (x % 4096) - 4096
    BY <2>1, TwelveBits
  <2>3. QED BY <2>2 DEF x
<1>2. WithImm12(p, o) = q
  BY DEF WithImm12
<1> HIDE DEF v
<1>3. /\ q \in Instructions /\ q.op = p.op /\ q.type = p.type /\ q.rd = p.rd
      /\ q.cell12 = v /\ q.cell8 = p.cell8
  BY <1>1 DEF Instructions
<1> HIDE DEF q
<1>4. QED BY <1>1, <1>2, <1>3 DEF imm12, Short

(* An immediate of eight bits, which is beside ri and leaves it.            *)
LEMMA Imm8Written ==
    ASSUME NEW p \in Instructions, NEW o \in Token
    PROVE  LET q == WithImm8(p, o)
           IN  /\ q \in Instructions /\ q.op = p.op /\ q.type = p.type
               /\ q.rd = p.rd /\ ri(q) = ri(p)
               /\ o.num \in -128 .. 127 => imm8(q) = o.num
<1> DEFINE v == o.num % 256
           q == [p EXCEPT !.cell8 = v]
<1>1. /\ v \in 0 .. 255
      /\ o.num \in -128 .. 127 => o.num = IF v < 128 THEN v ELSE v - 256
  <2> DEFINE x == o.num
  <2>1. x \in Int
    BY TokenNumber
  <2> HIDE DEF x
  <2>2. /\ x % 256 \in 0 .. 255
        /\ x \in -128 .. 127 => x = IF x % 256 < 128 THEN x % 256 ELSE (x % 256) - 256
    BY <2>1, EightBits
  <2>3. QED BY <2>2 DEF x
<1>2. WithImm8(p, o) = q
  BY DEF WithImm8
<1> HIDE DEF v
<1>3. /\ q \in Instructions /\ q.op = p.op /\ q.type = p.type /\ q.rd = p.rd
      /\ q.cell12 = p.cell12 /\ q.cell8 = v
  BY <1>1, Cell8Changed
<1> HIDE DEF q
<1>4. QED BY <1>1, <1>2, <1>3 DEF imm8, ri

(* The kinds of operands.                                                   *)
LEMMA KindOf ==
    ASSUME NEW o \in Seq(Token)
    PROVE  /\ Kind(o) = <<R>> => Len(o) = 1 /\ o[1].type = R
           /\ Kind(o) = <<I>> => Len(o) = 1 /\ o[1].type = I
           /\ Kind(o) = <<R, R>> => Len(o) = 2 /\ o[1].type = R /\ o[2].type = R
           /\ Kind(o) = <<R, I>> => Len(o) = 2 /\ o[1].type = R /\ o[2].type = I
           /\ Kind(o) = <<R, R, R>> => Len(o) = 3 /\ o[1].type = R /\ o[2].type = R /\ o[3].type = R
           /\ Kind(o) = <<R, R, I>> => Len(o) = 3 /\ o[1].type = R /\ o[2].type = R /\ o[3].type = I
<1>1. /\ DOMAIN Kind(o) = 1 .. Len(o) /\ Len(o) \in Nat
      /\ \A k \in 1 .. Len(o) : Kind(o)[k] = o[k].type
  BY DEF Kind
<1>2. \A a, b, c : /\ DOMAIN <<a>> = 1 .. 1 /\ DOMAIN <<a, b>> = 1 .. 2 /\ DOMAIN <<a, b, c>> = 1 .. 3
  OBVIOUS
<1>3. \A m \in Nat : 1 .. Len(o) = 1 .. m => Len(o) = m
  BY <1>1
<1>4. ASSUME NEW a, Kind(o) = <<a>>
      PROVE  Len(o) = 1 /\ o[1].type = a
  <2>1. Len(o) = 1
    BY <1>1, <1>2, <1>3, <1>4
  <2>2. Kind(o)[1] = a
    BY <1>4
  <2>3. QED BY <1>1, <2>1, <2>2
<1>5. ASSUME NEW a, NEW b, Kind(o) = <<a, b>>
      PROVE  Len(o) = 2 /\ o[1].type = a /\ o[2].type = b
  <2>1. Len(o) = 2
    BY <1>1, <1>2, <1>3, <1>5
  <2>2. Kind(o)[1] = a /\ Kind(o)[2] = b
    BY <1>5
  <2>3. QED BY <1>1, <2>1, <2>2
<1>6. ASSUME NEW a, NEW b, NEW c, Kind(o) = <<a, b, c>>
      PROVE  Len(o) = 3 /\ o[1].type = a /\ o[2].type = b /\ o[3].type = c
  <2>1. Len(o) = 3
    BY <1>1, <1>2, <1>3, <1>6
  <2>2. Kind(o)[1] = a /\ Kind(o)[2] = b /\ Kind(o)[3] = c
    BY <1>6
  <2>3. QED BY <1>1, <2>1, <2>2
<1>7. QED BY <1>4, <1>5, <1>6

(* No two of the kinds of operands are the same.                            *)
LEMMA Apart ==
    /\ R # I
    /\ \A a, b, c, d : <<a>> # <<b, c>> /\ <<a>> # <<b, c, d>>
    /\ \A a, b, c, d, e : <<a, b>> # <<c, d, e>>
    /\ \A a, b : <<a>> = <<b>> => a = b
    /\ \A a, b, c, d : <<a, b>> = <<c, d>> => a = c /\ b = d
    /\ \A a, b, c, d, e, f : <<a, b, c>> = <<d, e, f>> => a = d /\ b = e /\ c = f
<1>1. R # I
  BY DEF R, I
<1>2. /\ \A a, b, c, d : <<a>> # <<b, c>> /\ <<a>> # <<b, c, d>>
      /\ \A a, b, c, d, e : <<a, b>> # <<c, d, e>>
  <2>1. /\ \A a : Len(<<a>>) = 1
        /\ \A a, b : Len(<<a, b>>) = 2
        /\ \A a, b, c : Len(<<a, b, c>>) = 3
    OBVIOUS
  <2>2. QED BY <2>1
<1>3. \A a, b : <<a>> = <<b>> => a = b
  OBVIOUS
<1>4. \A a, b, c, d : <<a, b>> = <<c, d>> => a = c /\ b = d
  OBVIOUS
<1>5. \A a, b, c, d, e, f : <<a, b, c>> = <<d, e, f>> => a = d /\ b = e /\ c = f
  OBVIOUS
<1>6. QED BY <1>1, <1>2, <1>3, <1>4, <1>5

(* What the operands change, by their kinds.                                *)
LEMMA ByKind ==
    ASSUME NEW p, NEW o
    PROVE  /\ Kind(o) = <<R>> => WithOperands(p, o) = WithRd(p, o[1])
           /\ Kind(o) = <<I>> => WithOperands(p, o) = WithImm12(p, o[1])
           /\ Kind(o) = <<R, R>> => WithOperands(p, o) = WithRi(WithRd(p, o[1]), o[2])
           /\ Kind(o) = <<R, I>> => WithOperands(p, o) = WithImm12(WithRd(p, o[1]), o[2])
           /\ Kind(o) = <<R, R, R>> =>
                 WithOperands(p, o) = WithRj(WithRi(WithRd(p, o[1]), o[2]), o[3])
           /\ Kind(o) = <<R, R, I>> =>
                 WithOperands(p, o) = WithImm8(WithRi(WithRd(p, o[1]), o[2]), o[3])
           /\ Kind(o) \notin Shapes => WithOperands(p, o) = p
<1> DEFINE K == Kind(o)
           q == WithOperands(p, o)
           q1 == WithRd(p, o[1])
           q2 == WithImm12(p, o[1])
           q3 == WithRi(WithRd(p, o[1]), o[2])
           q4 == WithImm12(WithRd(p, o[1]), o[2])
           q5 == WithRj(WithRi(WithRd(p, o[1]), o[2]), o[3])
           q6 == WithImm8(WithRi(WithRd(p, o[1]), o[2]), o[3])
           a == <<R>>
           b == <<I>>
           c == <<R, R>>
           d == <<R, I>>
           e == <<R, R, R>>
           f == <<R, R, I>>
<1>1. q = CASE K = a -> q1 [] K = b -> q2 [] K = c -> q3 [] K = d -> q4
            [] K = e -> q5 [] K = f -> q6 [] OTHER -> p
  BY Zenon DEF WithOperands
<1>2. /\ a # b /\ a # c /\ a # d /\ a # e /\ a # f /\ b # c /\ b # d /\ b # e /\ b # f
      /\ c # d /\ c # e /\ c # f /\ d # e /\ d # f /\ e # f
  BY Apart
<1>3. Shapes = {a, b, c, d, e, f}
  BY DEF Shapes
<1> HIDE DEF K, q, q1, q2, q3, q4, q5, q6, a, b, c, d, e, f
<1>4. /\ K = a => q = q1
      /\ K = b => q = q2
      /\ K = c => q = q3
      /\ K = d => q = q4
      /\ K = e => q = q5
      /\ K = f => q = q6
      /\ K \notin Shapes => q = p
  BY <1>1, <1>2, <1>3
<1>5. QED BY <1>4 DEF K, q, q1, q2, q3, q4, q5, q6, a, b, c, d, e, f

(* The number of an operand that fits its place.                            *)
LEMMA Fitting ==
    ASSUME NEW o, NEW k
    PROVE  /\ o.type = R => (Fits(k, o) <=> o.num \in 0 .. 15)
           /\ o.type = I /\ k = 3 => (Fits(k, o) <=> o.num \in -128 .. 127)
           /\ o.type = I /\ k # 3 => (Fits(k, o) <=> o.num \in Short)
BY Apart DEF Fits, Short

(* The field of an operand.                                                 *)
LEMMA Field ==
    ASSUME NEW p, NEW k, NEW o
    PROVE  /\ o.type = R /\ k = 1 => FieldOf(p, k, o) = p.rd
           /\ o.type = R /\ k = 2 => FieldOf(p, k, o) = ri(p)
           /\ o.type = R /\ k = 3 => FieldOf(p, k, o) = rj(p)
           /\ o.type = I /\ k = 3 => FieldOf(p, k, o) = imm8(p)
           /\ o.type = I /\ k # 3 => FieldOf(p, k, o) = imm12(p)
<1>1. R # I
  BY Apart
<1>2. QED BY <1>1 DEF FieldOf

(* Whatever the operands are, an instruction is written, of the same        *)
(* opcode and type; and those that fit are what its fields say.             *)
LEMMA OperandsWritten ==
    ASSUME NEW p \in Instructions, NEW o \in Seq(Token)
    PROVE  LET q == WithOperands(p, o)
           IN  /\ q \in Instructions /\ q.op = p.op /\ q.type = p.type
               /\ Kind(o) \in Shapes =>
                     \A k \in DOMAIN o : Fits(k, o[k]) => FieldOf(q, k, o[k]) = o[k].num
<1> DEFINE q == WithOperands(p, o)
           Right == \A k \in DOMAIN o : Fits(k, o[k]) => FieldOf(q, k, o[k]) = o[k].num
           Kept3 == q \in Instructions /\ q.op = p.op /\ q.type = p.type
<1> SUFFICES Kept3 /\ (Kind(o) \in Shapes => Right)
  OBVIOUS
<1>1. DOMAIN o = 1 .. Len(o) /\ \A k \in DOMAIN o : o[k] \in Token
  OBVIOUS
<1>2. ASSUME Len(o) >= 1
      PROVE  1 \in DOMAIN o /\ o[1] \in Token
  BY <1>1, <1>2
<1>3. ASSUME Len(o) >= 2
      PROVE  2 \in DOMAIN o /\ o[2] \in Token
  BY <1>1, <1>3
<1>4. ASSUME Len(o) >= 3
      PROVE  3 \in DOMAIN o /\ o[3] \in Token
  BY <1>1, <1>4
<1> DEFINE a == WithRd(p, o[1])
           b == WithRi(a, o[2])
<1>5. ASSUME o[1] \in Token
      PROVE  /\ a \in Instructions /\ a.op = p.op /\ a.type = p.type
             /\ o[1].num \in 0 .. 15 => a.rd = o[1].num
  BY <1>5, RdWritten
<1>6. ASSUME o[1] \in Token, o[2] \in Token
      PROVE  /\ b \in Instructions /\ b.op = p.op /\ b.type = p.type /\ b.rd = a.rd
             /\ o[2].num \in 0 .. 15 => ri(b) = o[2].num
  <2>1. a \in Instructions /\ a.op = p.op /\ a.type = p.type
    BY <1>5, <1>6
  <2> HIDE DEF a
  <2>2. /\ b \in Instructions /\ b.op = a.op /\ b.type = a.type
        /\ b.rd = a.rd /\ (o[2].num \in 0 .. 15 => ri(b) = o[2].num)
    BY <1>6, <2>1, RiWritten
  <2>3. QED BY <2>1, <2>2
<1>7. CASE Kind(o) = <<R>>
  <2>1. Len(o) = 1 /\ o[1].type = R
    BY <1>7, KindOf
  <2>2. o[1] \in Token /\ \A k \in DOMAIN o : k = 1
    BY <1>1, <1>2, <2>1
  <2>3. q = a
    BY <1>7, ByKind
  <2>4. Kept3 /\ (o[1].num \in 0 .. 15 => q.rd = o[1].num)
    BY <1>5, <2>2, <2>3
  <2> HIDE DEF q, a
  <2>5. Fits(1, o[1]) <=> o[1].num \in 0 .. 15
    BY <2>1, Fitting
  <2>6. FieldOf(q, 1, o[1]) = q.rd
    BY <2>1, Field
  <2>7. QED BY <2>2, <2>4, <2>5, <2>6
<1>8. CASE Kind(o) = <<I>>
  <2>1. Len(o) = 1 /\ o[1].type = I
    BY <1>8, KindOf
  <2>2. o[1] \in Token /\ \A k \in DOMAIN o : k = 1
    BY <1>1, <1>2, <2>1
  <2>3. q = WithImm12(p, o[1])
    BY <1>8, ByKind
  <2> HIDE DEF q
  <2>4. /\ q \in Instructions /\ q.op = p.op /\ q.type = p.type
        /\ q.rd = p.rd
        /\ o[1].num \in Short => imm12(q) = o[1].num
    BY <2>2, <2>3, Imm12Written
  <2>5. Fits(1, o[1]) <=> o[1].num \in Short
    BY <2>1, Fitting
  <2>6. FieldOf(q, 1, o[1]) = imm12(q)
    BY <2>1, Field
  <2>7. QED BY <2>2, <2>4, <2>5, <2>6
<1>9. CASE Kind(o) = <<R, R>>
  <2>1. Len(o) = 2 /\ o[1].type = R /\ o[2].type = R
    BY <1>9, KindOf
  <2>2. o[1] \in Token /\ o[2] \in Token /\ \A k \in DOMAIN o : k = 1 \/ k = 2
    BY <1>1, <1>2, <1>3, <2>1
  <2>3. q = b
    BY <1>9, ByKind
  <2>4. /\ Kept3
        /\ o[1].num \in 0 .. 15 => q.rd = o[1].num
        /\ o[2].num \in 0 .. 15 => ri(q) = o[2].num
    BY <1>5, <1>6, <2>2, <2>3
  <2> HIDE DEF q, a, b
  <2>5. (Fits(1, o[1]) <=> o[1].num \in 0 .. 15) /\ (Fits(2, o[2]) <=> o[2].num \in 0 .. 15)
    BY <2>1, Fitting
  <2>6. FieldOf(q, 1, o[1]) = q.rd /\ FieldOf(q, 2, o[2]) = ri(q)
    BY <2>1, Field
  <2>7. QED BY <2>2, <2>4, <2>5, <2>6
<1>10. CASE Kind(o) = <<R, I>>
  <2>1. Len(o) = 2 /\ o[1].type = R /\ o[2].type = I
    BY <1>10, KindOf
  <2>2. o[1] \in Token /\ o[2] \in Token /\ \A k \in DOMAIN o : k = 1 \/ k = 2
    BY <1>1, <1>2, <1>3, <2>1
  <2>3. q = WithImm12(a, o[2])
    BY <1>10, ByKind
  <2>4. /\ a \in Instructions /\ a.op = p.op /\ a.type = p.type
        /\ o[1].num \in 0 .. 15 => a.rd = o[1].num
    BY <1>5, <2>2
  <2> HIDE DEF q, a
  <2>5. /\ q \in Instructions /\ q.op = a.op /\ q.type = a.type
        /\ q.rd = a.rd
        /\ o[2].num \in Short => imm12(q) = o[2].num
    BY <2>2, <2>3, <2>4, Imm12Written
  <2>6. (Fits(1, o[1]) <=> o[1].num \in 0 .. 15) /\ (Fits(2, o[2]) <=> o[2].num \in Short)
    BY <2>1, Fitting
  <2>7. FieldOf(q, 1, o[1]) = q.rd /\ FieldOf(q, 2, o[2]) = imm12(q)
    BY <2>1, Field
  <2>8. QED BY <2>2, <2>4, <2>5, <2>6, <2>7
<1>11. ASSUME Len(o) = 3, o[1].type = R, o[2].type = R
       PROVE  /\ o[1] \in Token /\ o[2] \in Token /\ o[3] \in Token
              /\ \A k \in DOMAIN o : k = 1 \/ k = 2 \/ k = 3
              /\ b \in Instructions /\ b.op = p.op /\ b.type = p.type
              /\ o[1].num \in 0 .. 15 => b.rd = o[1].num
              /\ o[2].num \in 0 .. 15 => ri(b) = o[2].num
              /\ (Fits(1, o[1]) <=> o[1].num \in 0 .. 15) /\ (Fits(2, o[2]) <=> o[2].num \in 0 .. 15)
              /\ FieldOf(q, 1, o[1]) = q.rd /\ FieldOf(q, 2, o[2]) = ri(q)
  <2>1. /\ o[1] \in Token /\ o[2] \in Token /\ o[3] \in Token
        /\ \A k \in DOMAIN o : k = 1 \/ k = 2 \/ k = 3
    BY <1>1, <1>2, <1>3, <1>4, <1>11
  <2>2. /\ b \in Instructions /\ b.op = p.op /\ b.type = p.type
        /\ o[1].num \in 0 .. 15 => b.rd = o[1].num
        /\ o[2].num \in 0 .. 15 => ri(b) = o[2].num
    BY <1>5, <1>6, <2>1
  <2> HIDE DEF q, a, b
  <2>3. (Fits(1, o[1]) <=> o[1].num \in 0 .. 15) /\ (Fits(2, o[2]) <=> o[2].num \in 0 .. 15)
    BY <1>11, Fitting
  <2>4. FieldOf(q, 1, o[1]) = q.rd /\ FieldOf(q, 2, o[2]) = ri(q)
    BY <1>11, Field
  <2>5. QED BY <2>1, <2>2, <2>3, <2>4
<1>12. CASE Kind(o) = <<R, R, R>>
  <2>1. Len(o) = 3 /\ o[1].type = R /\ o[2].type = R /\ o[3].type = R
    BY <1>12, KindOf
  <2>2. q = WithRj(b, o[3])
    BY <1>12, ByKind
  <2> HIDE DEF q, a, b
  <2>3. b \in Instructions /\ o[3] \in Token
    BY <1>11, <2>1
  <2>4. /\ q \in Instructions /\ q.op = b.op /\ q.type = b.type
        /\ q.rd = b.rd /\ ri(q) = ri(b) /\ (o[3].num \in 0 .. 15 => rj(q) = o[3].num)
    BY <2>2, <2>3, RjWritten
  <2>5. Fits(3, o[3]) <=> o[3].num \in 0 .. 15
    BY <2>1, Fitting
  <2>6. FieldOf(q, 3, o[3]) = rj(q)
    BY <2>1, Field
  <2>7. QED BY <1>11, <2>1, <2>4, <2>5, <2>6
<1>13. CASE Kind(o) = <<R, R, I>>
  <2>1. Len(o) = 3 /\ o[1].type = R /\ o[2].type = R /\ o[3].type = I
    BY <1>13, KindOf
  <2>2. q = WithImm8(b, o[3])
    BY <1>13, ByKind
  <2> HIDE DEF q, a, b
  <2>3. b \in Instructions /\ o[3] \in Token
    BY <1>11, <2>1
  <2>4. /\ q \in Instructions /\ q.op = b.op /\ q.type = b.type
        /\ q.rd = b.rd /\ ri(q) = ri(b)
        /\ o[3].num \in -128 .. 127 => imm8(q) = o[3].num
    BY <2>2, <2>3, Imm8Written
  <2>5. Fits(3, o[3]) <=> o[3].num \in -128 .. 127
    BY <2>1, Fitting
  <2>6. FieldOf(q, 3, o[3]) = imm8(q)
    BY <2>1, Field
  <2>7. QED BY <1>11, <2>1, <2>4, <2>5, <2>6
<1>14. CASE Kind(o) \notin Shapes
  <2>1. q = p
    BY <1>14, ByKind
  <2>2. QED BY <1>14, <2>1
<1>15. QED BY <1>7, <1>8, <1>9, <1>10, <1>12, <1>13, <1>14 DEF Shapes

(* The opcode and the type that are written, whatever the search finds.     *)
LEMMA OpcodeWritten ==
    ASSUME NEW p \in Instructions, NEW t \in TypesFound
    PROVE  /\ WithOpcode(p, t) \in Instructions
           /\ opcode # Unknown =>
                 /\ WithOpcode(p, t).op = opcode
                 /\ instruction.suffix = "" => WithOpcode(p, t).type = DEFAULT_TYPE_ID
                 /\ instruction.suffix \in DOMAIN Meant =>
                       WithOpcode(p, t).type = Meant[instruction.suffix]
<1> DEFINE y == IF t = NotFound THEN DEFAULT_TYPE_ID ELSE t
           a == opcode
<1>1. a \in Opcodes
  BY LookUpTyped DEF opcode
<1>2. /\ DOMAIN type_id = {"u8", "u16", "u32", "u64", "i8", "i16", "i32", "i64", "f32", "f64"}
      /\ DOMAIN Meant = {"u8", "u16", "u32", "u64", "i8", "f32", "f64"}
  BY DEF type_id, Meant
<1>3. \A s \in DOMAIN type_id : type_id[s] \in Types \ {NotFound}
  BY <1>2 DEF type_id, Types, NotFound, Behind
<1>4. /\ DEFAULT_TYPE_ID \in Types /\ Behind \in Types
      /\ DEFAULT_TYPE_ID # NotFound
  BY DEF DEFAULT_TYPE_ID, Types, NotFound, Behind
<1>5. y \in Types
  BY <1>3, <1>4 DEF TypesFound
<1>6. /\ instruction.suffix = "" => y = DEFAULT_TYPE_ID
      /\ instruction.suffix \in DOMAIN Meant => y = Meant[instruction.suffix]
  <2>1. CASE instruction.suffix = ""
    <3>1. t = DEFAULT_TYPE_ID
      BY <1>2, <2>1 DEF TypesFound
    <3>2. QED BY <1>2, <2>1, <3>1
  <2>2. CASE instruction.suffix \in DOMAIN Meant
    <3>1. \A x \in DOMAIN Meant : x \in DOMAIN type_id /\ type_id[x] = Meant[x]
      BY <1>2 DEF type_id, Meant
    <3>2. instruction.suffix # ""
      BY <1>2, <2>2
    <3>3. t = type_id[instruction.suffix]
      BY <2>2, <3>1, <3>2 DEF TypesFound
    <3>4. t # NotFound /\ t = Meant[instruction.suffix]
      BY <1>3, <2>2, <3>1, <3>3
    <3>5. QED BY <3>2, <3>4
  <2>3. QED BY <2>1, <2>2
<1>7. WithOpcode(p, t) = IF a = Unknown THEN p ELSE [p EXCEPT !.op = a, !.type = y]
  BY Zenon DEF WithOpcode
<1> HIDE DEF a, y
<1> DEFINE q == [p EXCEPT !.op = a, !.type = y]
<1>8. q \in Instructions /\ q.op = a /\ q.type = y
  <2> DEFINE u == [p EXCEPT !.op = a]
  <2>1. u \in Instructions
    BY <1>1 DEF Instructions
  <2>2. q = [u EXCEPT !.type = y] /\ q.op = a /\ q.type = y
    BY DEF Instructions
  <2> HIDE DEF u, q
  <2>3. q \in Instructions
    BY <1>5, <2>1, <2>2 DEF Instructions
  <2>4. QED BY <2>2, <2>3
<1> HIDE DEF q
<1>9. QED BY <1>6, <1>7, <1>8 DEF a, q

-----------------------------------------------------------------------------
(* The lines that are done with: all but the one at work.                   *)
Working == pc \in {"label", "instruction", "operand", "separator", "emit"}
Done == IF Working THEN Len(read) - 1 ELSE Len(read)

(* The types of the variables, and where the scan is.                       *)
TInv ==
    /\ read \in Seq(Lines) /\ Len(read) <= MaxLines
    /\ pc \in {"line", "label", "instruction", "operand", "separator", "emit",
               "done", "error", "crashed"}
    /\ ptr \in Nat
    /\ operand \in Seq(Token) /\ Len(operand) <= MAX_OPERANDS
    /\ comment \in BOOLEAN
    /\ prog \in [0 .. MaxLines -> Instructions]
    /\ pp \in 0 .. Done /\ from \in Seq(Nat) /\ Len(from) = pp
    /\ Working => Len(read) > 0 /\ ptr \in 1 .. Len(line)

(* What the array of instructions is filled with.                           *)
LEMMA ZeroTyped == Zero \in Instructions
<1>1. <<"nop">> \in Opcodes
  BY Named DEF Parts, Opcodes
<1>2. QED BY <1>1 DEF Zero, Instructions, Types

(* The last line of a text.                                                 *)
LEMMA LastLine ==
    ASSUME NEW text \in Seq(Lines), Len(text) > 0
    PROVE  /\ Last(text) \in Lines /\ Last(text) = text[Len(text)]
           /\ Last(text).tokens \in Seq(Token) /\ Len(Last(text).tokens) \in Nat \ {0}
           /\ \A k \in 1 .. Len(Last(text).tokens) :
                 /\ Last(text).tokens[k] \in Token
                 /\ Last(text).tokens[k].tw = "EOL" <=> k = Len(Last(text).tokens)
<1> DEFINE l == Last(text)
<1>1. l \in Lines /\ l = text[Len(text)]
  BY DEF Last
<1> HIDE DEF l
<1>2. /\ l.tokens \in Seq(Token) /\ l.tokens # << >>
      /\ \A k \in 1 .. Len(l.tokens) : l.tokens[k].tw = "EOL" <=> k = Len(l.tokens)
  BY <1>1, LinesAssumption
<1>3. Len(l.tokens) \in Nat \ {0} /\ \A k \in 1 .. Len(l.tokens) : l.tokens[k] \in Token
  BY <1>2
<1>4. QED BY <1>1, <1>2, <1>3 DEF l

(* The next token of the line at work, and past it.                         *)
LEMMA NextToken ==
    ASSUME TInv, Working
    PROVE  /\ Len(line) \in Nat \ {0} /\ ptr \in 1 .. Len(line)
           /\ scan_token \in Token
           /\ scan_token.tw = "EOL" <=> ptr = Len(line)
           /\ Advance(scan_token) =>
                 /\ ptr' \in 1 .. Len(line)
                 /\ ptr' = IF scan_token.tw = "EOL" THEN ptr ELSE ptr + 1
<1>1. read \in Seq(Lines) /\ Len(read) > 0 /\ ptr \in 1 .. Len(line)
  BY DEF TInv
<1>2. /\ Len(line) \in Nat \ {0}
      /\ \A k \in 1 .. Len(line) : line[k] \in Token /\ (line[k].tw = "EOL" <=> k = Len(line))
  BY <1>1, LastLine DEF line
<1>3. scan_token \in Token /\ (scan_token.tw = "EOL" <=> ptr = Len(line))
  BY <1>1, <1>2 DEF scan_token
<1>4. ASSUME Advance(scan_token)
      PROVE  ptr' \in 1 .. Len(line) /\ ptr' = IF scan_token.tw = "EOL" THEN ptr ELSE ptr + 1
  <2>1. ptr' = IF scan_token.tw = "EOL" THEN ptr ELSE ptr + 1
    BY <1>4 DEF Advance
  <2>2. QED BY <1>1, <1>2, <1>3, <2>1
<1>5. QED BY <1>1, <1>2, <1>3, <1>4

(* A step to another place on the same line.                                *)
LEMMA OnTheLine ==
    ASSUME TInv, Working, Working', UNCHANGED <<read, comment, progVars>>,
           ptr' \in 1 .. Len(line), operand' \in Seq(Token), Len(operand') <= MAX_OPERANDS,
           pc' \in {"label", "instruction", "operand", "separator", "emit"}
    PROVE  TInv'
<1>1. Done' = Done /\ line' = line
  BY DEF Done, line
<1>2. QED BY <1>1 DEF TInv, Working, progVars

(* A step off the line, but for what it writes.                             *)
LEMMA OffTheLine ==
    ASSUME TInv, UNCHANGED <<read, lineVars>>, comment' \in BOOLEAN,
           pc' \in {"line", "done", "error", "crashed"},
           prog' \in [0 .. MaxLines -> Instructions],
           pp' \in 0 .. Len(read), from' \in Seq(Nat), Len(from') = pp'
    PROVE  TInv'
<1>1. ~ Working' /\ Done' = Len(read)
  BY DEF Done, Working
<1>2. QED BY <1>1 DEF TInv, lineVars

(* The program fits the text read, and leaves a place for the line at work. *)
LEMMA Programmed ==
    ASSUME TInv
    PROVE  /\ prog \in [0 .. MaxLines -> Instructions] /\ from \in Seq(Nat) /\ Len(from) = pp
           /\ pp \in 0 .. Len(read) /\ (Working => Len(read) > 0 /\ pp \in 0 .. Len(read) - 1)
           /\ Len(read) \in 0 .. MaxLines
           /\ MaxLines \in Nat
<1>1. read \in Seq(Lines) /\ Len(read) \in Nat
  BY DEF TInv
<1>2. MaxLines \in Nat
  BY LinesAssumption
<1>3. QED BY <1>1, <1>2 DEF TInv, Done

(* The invariant of types holds at the start.                               *)
LEMMA TInvStarts == Init => TInv
<1> SUFFICES ASSUME Init
             PROVE  TInv
  OBVIOUS
<1>1. MaxLines \in Nat /\ MAX_OPERANDS \in Nat
  BY LinesAssumption
<1>2. Len(<< >>) = 0 /\ << >> \in Seq(Lines) /\ << >> \in Seq(Token) /\ << >> \in Seq(Nat)
  OBVIOUS
<1>3. ~ Working /\ Done = 0
  BY <1>2 DEF Working, Done, Init
<1>4. prog \in [0 .. MaxLines -> Instructions]
  BY ZeroTyped DEF Init
<1>5. comment \in BOOLEAN
  BY Zenon DEF Init
<1>6. /\ read \in Seq(Lines) /\ Len(read) <= MaxLines
      /\ operand \in Seq(Token) /\ Len(operand) <= MAX_OPERANDS
      /\ from \in Seq(Nat) /\ Len(from) = 0
  BY <1>1, <1>2 DEF Init
<1>7. QED BY <1>3, <1>4, <1>5, <1>6 DEF Init, TInv

(* Every step keeps the invariant of types, action by action.               *)
LEMMA TInvKept == TInv /\ [Next]_vars => TInv'
<1> SUFFICES ASSUME TInv, [Next]_vars
             PROVE  TInv'
  OBVIOUS
<1>1. ASSUME NEW l \in Lines, ReadLine(l)
      PROVE  TInv'
  <2>1. /\ read \in Seq(Lines) /\ Len(read) \in Nat /\ Len(read) < MaxLines /\ MaxLines \in Nat
        /\ read' = Append(read, l)
    BY <1>1, LinesAssumption DEF TInv, ReadLine
  <2>2. /\ read' \in Seq(Lines) /\ Len(read') = Len(read) + 1 /\ read'[Len(read')] = l
    BY <2>1
  <2>3. line' = l.tokens /\ Len(line') \in Nat \ {0}
    BY <2>2, LinesAssumption DEF line, Last
  <2>4. pp \in 0 .. Len(read)
    BY Programmed
  <2>5. Len(read) <= Done'
    BY <2>1, <2>2 DEF Done
  <2>6. l.closes \in BOOLEAN /\ comment' \in BOOLEAN
    BY <1>1, LinesAssumption DEF ReadLine, TInv
  <2>7. pp' \in 0 .. Done'
    <3>1. Done' \in Int /\ pp' = pp
      BY <1>1, <2>1, <2>2 DEF Done, ReadLine, progVars
    <3>2. QED BY <2>1, <2>4, <2>5, <3>1
  <2>8. MAX_OPERANDS \in Nat /\ Len(<< >>) = 0 /\ << >> \in Seq(Token)
    BY LinesAssumption
  <2>9. pc' \in {"line", "label"}
    BY <1>1 DEF ReadLine
  <2>10. QED BY <1>1, <2>1, <2>2, <2>3, <2>6, <2>7, <2>8, <2>9 DEF TInv, ReadLine, progVars
<1>2. CASE EndOfFile
  BY <1>2, OffTheLine, Programmed DEF EndOfFile, progVars, TInv
<1>3. CASE SkipLabel
  <2>1. Working /\ Working'
    BY <1>3 DEF SkipLabel, Working
  <2>2. ptr' \in 1 .. Len(line)
    BY <1>3, <2>1, NextToken DEF SkipLabel
  <2>3. QED BY <1>3, <2>1, <2>2, OnTheLine DEF SkipLabel, TInv
<1>4. CASE TakeInstruction
  <2>1. Working /\ Working'
    BY <1>4 DEF TakeInstruction, Working
  <2>2. tok' = scan_token /\ Advance(scan_token)
    BY <1>4 DEF TakeInstruction
  <2>3. ptr' \in 1 .. Len(line) /\ tok' \in Token
    BY <2>1, <2>2, NextToken
  <2>4. QED BY <1>4, <2>1, <2>3, OnTheLine DEF TakeInstruction, TInv
<1>5. CASE TakeOperand
  <2>1. Working
    BY <1>5 DEF TakeOperand, Working
  <2>2. tok' = scan_token /\ Advance(scan_token)
    BY <1>5 DEF TakeOperand
  <2>3. ptr' \in 1 .. Len(line) /\ tok' \in Token
    BY <2>1, <2>2, NextToken
  <2>4. operand' \in Seq(Token) /\ Len(operand') <= MAX_OPERANDS
    <3>1. operand \in Seq(Token) /\ Len(operand) < MAX_OPERANDS /\ MAX_OPERANDS \in Nat
      BY <1>5, LinesAssumption DEF TakeOperand, TInv
    <3>2. Append(operand, tok') \in Seq(Token) /\ Len(Append(operand, tok')) <= MAX_OPERANDS
      BY <2>3, <3>1
    <3>3. QED BY <1>5, <3>1, <3>2 DEF TakeOperand, TInv
  <2>5. CASE pc' = "separator"
    <3>1. Working'
      BY <2>5 DEF Working
    <3>2. QED BY <1>5, <2>1, <2>3, <2>4, <2>5, <3>1, OnTheLine DEF TakeOperand, TInv
  <2>6. CASE pc' = "error"
    <3>1. ~ Working' /\ Done' = Len(read)
      BY <1>5, <2>6 DEF TakeOperand, Working, Done
    <3>2. pp \in 0 .. Len(read)
      BY Programmed
    <3>3. ptr' \in Nat
      BY <2>1, <2>3, NextToken
    <3>4. QED BY <1>5, <2>3, <2>4, <2>6, <3>1, <3>2, <3>3 DEF TakeOperand, TInv, progVars
  <2>7. QED BY <1>5, <2>5, <2>6 DEF TakeOperand
<1>6. CASE TooMany
  <2>1. Working /\ Working'
    BY <1>6 DEF TooMany, Working
  <2>2. QED BY <1>6, <2>1, OnTheLine DEF TooMany, TInv, lineVars
<1>7. CASE Separator
  <2>1. Working /\ Working'
    BY <1>7 DEF Separator, Working
  <2>2. tok' = scan_token /\ Advance(scan_token)
    BY <1>7 DEF Separator
  <2>3. ptr' \in 1 .. Len(line) /\ tok' \in Token
    BY <2>1, <2>2, NextToken
  <2>4. QED BY <1>7, <2>1, <2>3, OnTheLine DEF Separator, TInv
<1>8. CASE emit_instruction
  <2>1. /\ prog \in [0 .. MaxLines -> Instructions] /\ from \in Seq(Nat) /\ Len(from) = pp
        /\ Len(read) \in Nat /\ Len(read) <= MaxLines /\ pp \in 0 .. Len(read) - 1
        /\ pp \in 0 .. MaxLines /\ operand \in Seq(Token)
    <3>1. Working
      BY <1>8 DEF emit_instruction, Working
    <3>2. QED BY <3>1, Programmed DEF TInv
  <2>2. prog' \in [0 .. MaxLines -> Instructions]
    <3>1. PICK t \in TypesFound :
              prog' = [prog EXCEPT ![pp] = WithOperands(WithOpcode(@, t), operand)]
      BY <1>8 DEF emit_instruction
    <3>2. WithOpcode(prog[pp], t) \in Instructions
      BY <2>1, OpcodeWritten
    <3>3. WithOperands(WithOpcode(prog[pp], t), operand) \in Instructions
      BY <2>1, <3>2, OperandsWritten
    <3>4. QED BY <2>1, <3>1, <3>3
  <2>3. pp' \in 0 .. Len(read) /\ from' \in Seq(Nat) /\ Len(from') = pp'
    <3>1. Append(from, Len(read)) \in Seq(Nat) /\ Len(Append(from, Len(read))) = pp + 1
      BY <2>1
    <3>2. \/ pp' = pp /\ from' = from
          \/ pp' = pp + 1 /\ from' = Append(from, Len(read))
      BY <1>8 DEF emit_instruction
    <3>3. UNCHANGED read
      BY <1>8 DEF emit_instruction
    <3>4. QED BY <2>1, <3>1, <3>2, <3>3
  <2>4. comment' \in BOOLEAN
    BY <1>8 DEF emit_instruction, OpensComment
  <2>5. QED BY <1>8, <2>2, <2>3, <2>4, OffTheLine DEF emit_instruction
<1>9. CASE Crash
  BY <1>9, OffTheLine, Programmed DEF Crash, progVars, TInv
<1>10. CASE UNCHANGED vars
  BY <1>10 DEF vars, lineVars, progVars, TInv, Working, Done, line
<1>11. QED BY <1>1, <1>2, <1>3, <1>4, <1>5, <1>6, <1>7, <1>8, <1>9, <1>10 DEF Next

(* The variables have their types, and the fields of every instruction      *)
(* their width, whatever lines are read and in whatever state the array is  *)
(* (jas.c, assemble).                                                       *)
THEOREM TypeCorrect == Spec => []TypeOK
<1>1. TInv => TypeOK
  <2> SUFFICES ASSUME TInv
               PROVE  TypeOK
    OBVIOUS
  <2>1. pp \in 0 .. Len(read)
    BY Programmed
  <2>2. ASSUME NEW k \in 0 .. MaxLines
        PROVE  prog[k].rd \in 0 .. 15 /\ prog[k].cell12 \in 0 .. 4095 /\ prog[k].cell8 \in 0 .. 255
    <3>1. prog[k] \in Instructions
      BY DEF TInv
    <3>2. QED BY <3>1 DEF Instructions
  <2>3. QED BY <2>1, <2>2 DEF TInv, TypeOK
<1>2. QED BY TInvStarts, TInvKept, <1>1, PTL DEF Spec

-----------------------------------------------------------------------------
(* Where the scan of a line is, by its statement: two tokens for each       *)
(* operand after the instruction.                                           *)
Stated == LET s == Statement(Last(read))
          IN  /\ Len(s) > 0 /\ instruction = s[1]
              /\ \A k \in 1 .. Len(operand) : operand[k] = s[2 * k]
Scanned ==
    LET l == Last(read)
        s == Statement(l)
        m == Len(operand)
    IN  /\ pc = "label" => ptr = 1 /\ operand = << >>
        /\ pc = "instruction" => ptr = First(l) /\ operand = << >>
        /\ pc = "operand" => Stated /\ 2 * m + 1 <= Len(s) /\ ptr = First(l) + 2 * m + 1
        /\ pc = "separator" => Stated /\ \/ m > 0 /\ 2 * m <= Len(s) /\ ptr = First(l) + 2 * m
                                         \/ m = 0 /\ Len(s) = 1 /\ ptr = Len(line)
        /\ pc = "emit" => /\ tok = Last(line)
                          /\ \/ Len(s) = 0 /\ instruction = NoToken /\ operand = << >>
                             \/ Stated /\ m = Len(s) \div 2

(* A comment over several lines is open where the text has one, and no line *)
(* in one is at work.                                                       *)
Comments == /\ pc \in {"line", "done"} => (comment <=> Open[Len(read)])
            /\ Working => ~ Open[Len(read) - 1]
Scan == Grammatical => Comments /\ Scanned /\ pc # "error"

(* What the syntax says of the token at an even and at an odd place.        *)
LEMMA Syntax ==
    ASSUME NEW l \in Lines, WellFormed(l), NEW m \in Nat
    PROVE  LET s == Statement(l)
           IN  /\ Len(s) \in Nat /\ Len(s) <= 2 * MAX_OPERANDS
               /\ Len(s) >= 1 => s[1].tw = "SYMBOL" /\ s[1].type = "NONE"
               /\ 2 * m + 2 <= Len(s) => s[2 * m + 2].tw \in {"SYMBOL", "STRING"}
               /\ m > 0 /\ 2 * m + 1 <= Len(s) => s[2 * m + 1].tw = "CHAR" /\ s[2 * m + 1].name = <<",">>
               /\ Len(s) = 2 * m + 1 => m = 0
<1> DEFINE s == Statement(l)
           N == Len(s)
<1>1. N \in Nat /\ (s = << >> <=> N = 0) /\ MAX_OPERANDS \in Nat
  BY StatementOf, LinesAssumption
<1> DEFINE Right(k) == IF k % 2 = 0 THEN s[k].tw \in {"SYMBOL", "STRING"}
                                    ELSE s[k].tw = "CHAR" /\ s[k].name = <<",">>
<1>2. ASSUME N # 0
      PROVE  /\ s[1].tw = "SYMBOL" /\ s[1].type = "NONE"
             /\ N = 1 \/ N % 2 = 0
             /\ N <= 2 * MAX_OPERANDS
             /\ \A k \in 2 .. N : Right(k)
  <2>1. s # << >>
    BY <1>1, <1>2
  <2>2. QED BY <2>1, Zenon DEF WellFormed
<1> HIDE DEF s, N
<1>3. N <= 2 * MAX_OPERANDS
  <2>1. CASE N = 0
    BY <1>1, <2>1
  <2>2. CASE N # 0
    BY <1>2, <2>2
  <2>3. QED BY <2>1, <2>2
<1>4. ASSUME 2 * m + 2 <= N
      PROVE  s[2 * m + 2].tw \in {"SYMBOL", "STRING"}
  <2> DEFINE k == 2 * m + 2
  <2>1. k \in 2 .. N /\ k % 2 = 0 /\ N >= 1
    BY <1>1, <1>4
  <2> HIDE DEF k
  <2>2. s[k].tw \in {"SYMBOL", "STRING"}
    <3>1. Right(k)
      <4>1. N # 0
        BY <2>1
      <4>2. \A j \in 2 .. N : Right(j)
        BY <1>2, <4>1
      <4> HIDE DEF Right
      <4>3. QED BY <2>1, <4>2
    <3>2. QED BY <2>1, <3>1
  <2>3. QED BY <2>2 DEF k
<1>5. ASSUME m > 0, 2 * m + 1 <= N
      PROVE  s[2 * m + 1].tw = "CHAR" /\ s[2 * m + 1].name = <<",">>
  <2> DEFINE k == 2 * m + 1
  <2>1. k \in 2 .. N /\ k % 2 # 0 /\ N >= 1
    BY <1>1, <1>5
  <2> HIDE DEF k
  <2>2. s[k].tw = "CHAR" /\ s[k].name = <<",">>
    <3>1. Right(k)
      <4>1. N # 0
        BY <2>1
      <4>2. \A j \in 2 .. N : Right(j)
        BY <1>2, <4>1
      <4> HIDE DEF Right
      <4>3. QED BY <2>1, <4>2
    <3>2. QED BY <2>1, <3>1
  <2>3. QED BY <2>2 DEF k
<1>6. ASSUME N = 2 * m + 1
      PROVE  m = 0
  <2>1. N # 0 /\ N % 2 # 0
    BY <1>6
  <2>2. N = 1
    BY <1>2, <2>1
  <2>3. QED BY <1>6, <2>2
<1>7. N >= 1 => s[1].tw = "SYMBOL" /\ s[1].type = "NONE"
  <2>1. N >= 1 => N # 0
    OBVIOUS
  <2>2. QED BY <1>2, <2>1
<1>8. QED BY <1>1, <1>7, <1>3, <1>4, <1>5, <1>6 DEF s, N

(* A line appended to the text.                                             *)
LEMMA Appended ==
    ASSUME TInv, NEW l \in Lines, read' = Append(read, l)
    PROVE  /\ Len(read) \in Nat /\ Len(read') = Len(read) + 1
           /\ \A k \in 1 .. Len(read) : read'[k] = read[k]
           /\ read'[Len(read')] = l /\ Last(read') = l
           /\ \A k \in 0 .. Len(read) : Open'[k] <=> Open[k]
           /\ Open'[Len(read')] <=> OpenAfterLine(Open[Len(read)], l)
           /\ Grammatical' => Grammatical /\ (Open[Len(read)] \/ WellFormed(l))
<1>1. read \in Seq(Lines)
  BY DEF TInv
<1>2. /\ Len(read) \in Nat /\ Len(read') = Len(read) + 1
      /\ \A k \in 1 .. Len(read) : read'[k] = read[k]
      /\ read'[Len(read')] = l
  BY <1>1
<1>3. Last(read') = l
  BY <1>2 DEF Last
<1>4. /\ \A k \in 0 .. Len(read) : OpenAfter(read')[k] = OpenAfter(read)[k]
      /\ OpenAfter(read')[Len(read) + 1] = OpenAfterLine(OpenAfter(read)[Len(read)], l)
  BY <1>1, OpenAppended
<1>5. /\ \A k \in 0 .. Len(read) : Open'[k] <=> Open[k]
      /\ Open'[Len(read')] <=> OpenAfterLine(Open[Len(read)], l)
  BY <1>2, <1>4 DEF Open
<1>6. ASSUME Grammatical'
      PROVE  Grammatical /\ (Open[Len(read)] \/ WellFormed(l))
  <2>1. \A k \in 1 .. Len(read) + 1 : Open'[k - 1] \/ WellFormed(read'[k])
    BY <1>2, <1>6 DEF Grammatical
  <2>2. ASSUME NEW k \in 1 .. Len(read)
        PROVE  Open[k - 1] \/ WellFormed(read[k])
    <3>1. k \in 1 .. Len(read) + 1 /\ k - 1 \in 0 .. Len(read)
      BY <1>2
    <3>2. QED BY <1>2, <1>5, <2>1, <3>1
  <2>3. Open[Len(read)] \/ WellFormed(l)
    <3> DEFINE k == Len(read) + 1
    <3>1. k \in 1 .. Len(read) + 1 /\ k - 1 = Len(read) /\ k - 1 \in 0 .. Len(read) /\ read'[k] = l
      BY <1>2
    <3> HIDE DEF k
    <3>2. Open'[k - 1] \/ WellFormed(read'[k])
      BY <2>1, <3>1
    <3>3. QED BY <1>5, <3>1, <3>2
  <2>4. QED BY <2>2, <2>3 DEF Grammatical
<1>7. QED BY <1>2, <1>3, <1>5, <1>6

(* The line at work is well-formed, its statement, and after it.            *)
LEMMA AtWork ==
    ASSUME TInv, Working, Grammatical, Comments
    PROVE  /\ Last(read) \in Lines /\ Last(read) = read[Len(read)] /\ WellFormed(Last(read))
           /\ Len(read) \in Nat /\ Len(read) > 0 /\ ~ Open[Len(read) - 1]
           /\ Open[Len(read)] <=> Opens(Last(read))
<1>1. read \in Seq(Lines) /\ Len(read) > 0 /\ Len(read) \in Nat /\ ~ Open[Len(read) - 1]
  BY DEF TInv, Comments
<1>2. Last(read) \in Lines /\ Last(read) = read[Len(read)]
  BY <1>1, LastLine
<1>3. WellFormed(read[Len(read)])
  <2>1. Len(read) \in 1 .. Len(read)
    BY <1>1
  <2>2. QED BY <1>1, <2>1 DEF Grammatical
<1>4. Open[Len(read)] <=> OpenAfterLine(Open[Len(read) - 1], read[Len(read)])
  <2>1. Len(read) \in 1 .. Len(read)
    BY <1>1
  <2>2. Open[Len(read)] = OpenAfterLine(Open[Len(read) - 1], read[Len(read)])
    BY <1>1, <2>1, OpenSteps DEF Open
  <2>3. QED BY <2>2
<1>5. QED BY <1>1, <1>2, <1>3, <1>4 DEF OpenAfterLine

(* An action on the same line keeps what is said of comments and of syntax. *)
LEMMA SameText ==
    ASSUME UNCHANGED read
    PROVE  (Grammatical' <=> Grammatical) /\ Open' = Open /\ line' = line
<1>1. Open' = Open /\ line' = line
  BY DEF Open, line
<1>2. QED BY <1>1 DEF Grammatical

(* At the start nothing is scanned and no comment is open.                  *)
LEMMA ScanStarts == Init => Scan
<1> SUFFICES ASSUME Init
             PROVE  Comments /\ Scanned /\ pc # "error"
  BY DEF Scan
<1>1. Len(read) = 0 /\ Len(read) \in Nat /\ pc = "line" /\ comment = FALSE
  BY DEF Init
<1>2. Open[0] = FALSE
  BY <1>1, OpenSteps DEF Open
<1>3. Comments
  BY <1>1, <1>2 DEF Comments, Working
<1>4. Scanned /\ pc # "error"
  BY <1>1 DEF Scanned
<1>5. QED BY <1>3, <1>4

(* The steps of the scan, on a line that keeps to the syntax.               *)
LEMMA LabelScanned ==
    ASSUME TInv, Working, WellFormed(Last(read)), Scanned, SkipLabel
    PROVE  Scanned' /\ pc' = "instruction"
<1> DEFINE l == Last(read)
<1>1. l \in Lines /\ pc = "label" /\ ptr = 1 /\ operand = << >>
  BY LastLine DEF TInv, Scanned, SkipLabel
<1>2. l' = l /\ pc' = "instruction" /\ operand' = << >>
  BY <1>1 DEF SkipLabel
<1>3. scan_token = l.tokens[1]
  BY <1>1 DEF scan_token, line
<1> HIDE DEF l
<1>4. (First(l) = 1 \/ First(l) = 2) /\ (First(l) = 2 <=> IsLabel(l.tokens[1]))
  BY <1>1, StatementOf
<1>5. ptr' = First(l)
  <2>1. CASE IsLabel(scan_token)
    <3>1. Advance(scan_token) /\ scan_token.tw # "EOL"
      BY <2>1 DEF SkipLabel, IsLabel
    <3>2. ptr' = 2
      BY <1>1, <3>1 DEF Advance
    <3>3. QED BY <1>3, <1>4, <2>1, <3>2
  <2>2. CASE ~ IsLabel(scan_token)
    <3>1. ptr' = 1
      BY <1>1, <2>2 DEF SkipLabel
    <3>2. QED BY <1>3, <1>4, <2>2, <3>1
  <2>3. QED BY <2>1, <2>2
<1>6. Scanned'
  BY <1>2, <1>5 DEF Scanned, l
<1>7. QED BY <1>2, <1>6

(* The instruction is the first token of the statement; a line without a    *)
(* statement is emitted at once.                                            *)
LEMMA InstructionScanned ==
    ASSUME TInv, Working, WellFormed(Last(read)), Scanned, TakeInstruction
    PROVE  Scanned' /\ pc' \in {"operand", "emit"}
<1> DEFINE l == Last(read)
           s == Statement(l)
           t == scan_token
<1>1. l \in Lines /\ pc = "instruction" /\ ptr = First(l) /\ operand = << >>
  BY LastLine DEF TInv, Scanned, TakeInstruction
<1>2. l' = l /\ operand' = << >> /\ Len(operand') = 0 /\ line' = line /\ line = l.tokens
  BY <1>1 DEF TakeInstruction, line
<1>3. /\ tok' = t /\ Advance(t) /\ t = l.tokens[First(l)]
      /\ instruction' = IF t.tw = "SYMBOL" THEN t ELSE NoToken
      /\ pc' = IF t.tw = "EOL" THEN "emit" ELSE "operand"
  BY <1>1 DEF TakeInstruction, scan_token, line
<1> HIDE DEF l
<1>4. Len(s) \in Nat /\ First(l) \in Nat
  BY <1>1, StatementOf
<1>5. CASE Len(s) >= 1
  <2>1. 1 \in 1 .. Len(s) + 1
    BY <1>4, <1>5
  <2>2. t = s[1] /\ t.tw # "EOL"
    <3>1. First(l) + 1 - 1 = First(l) /\ 1 <= Len(s)
      BY <1>4, <1>5
    <3> HIDE DEF t, s
    <3>2. l.tokens[First(l) + 1 - 1] = s[1] /\ l.tokens[First(l) + 1 - 1].tw # "EOL"
      BY <1>1, <2>1, <3>1, TokenAt DEF s
    <3>3. QED BY <1>3, <3>1, <3>2
  <2>3. t.tw = "SYMBOL"
    <3>1. s[1].tw = "SYMBOL"
      BY <1>1, <1>5, Syntax, 0 \in Nat DEF l
    <3>2. QED BY <2>2, <3>1
  <2>4. pc' = "operand" /\ instruction' = s[1] /\ ptr' = First(l) + 1
    <3> HIDE DEF t, s
    <3>1. QED BY <1>1, <1>3, <2>2, <2>3 DEF Advance
  <2> HIDE DEF s
  <2>5. Stated'
    <3>1. \A k \in 1 .. Len(operand') : operand'[k] = s[2 * k]
      BY <1>2
    <3>2. QED BY <1>2, <1>4, <1>5, <2>4, <3>1 DEF Stated, s, l
  <2>6. 2 * Len(operand') + 1 <= Len(s) /\ ptr' = First(l) + 2 * Len(operand') + 1
    BY <1>2, <1>4, <1>5, <2>4
  <2>7. Scanned'
    BY <1>2, <2>4, <2>5, <2>6 DEF Scanned, s, l
  <2>8. QED BY <2>4, <2>7
<1>6. CASE Len(s) = 0
  <2>1. 1 \in 1 .. Len(s) + 1
    BY <1>4, <1>6
  <2>2. t.tw = "EOL" /\ t = Last(l.tokens)
    <3>1. First(l) + 1 - 1 = First(l) /\ 1 = Len(s) + 1
      BY <1>4, <1>6
    <3> HIDE DEF t, s
    <3>2. l.tokens[First(l) + 1 - 1].tw = "EOL" /\ l.tokens[First(l) + 1 - 1] = Last(l.tokens)
      BY <1>1, <2>1, <3>1, TokenAt DEF s
    <3>3. QED BY <1>3, <3>1, <3>2
  <2>3. pc' = "emit" /\ instruction' = NoToken /\ tok' = Last(l.tokens)
    BY <1>3, <2>2
  <2>4. Last(line)' = Last(l.tokens)
    BY <1>2
  <2> HIDE DEF s, t
  <2>5. Scanned'
    BY <1>2, <1>6, <2>3, <2>4 DEF Scanned, s, l
  <2>6. QED BY <2>3, <2>5
<1>7. QED BY <1>4, <1>5, <1>6

(* An operand is the token at the next even place, or the line ends after   *)
(* an instruction without operands.                                         *)
LEMMA OperandScanned ==
    ASSUME TInv, Working, WellFormed(Last(read)), Scanned, TakeOperand
    PROVE  Scanned' /\ pc' = "separator"
<1> DEFINE l == Last(read)
           s == Statement(l)
           m == Len(operand)
           t == scan_token
           k == 2 * m + 2
<1>1. /\ l \in Lines /\ Stated /\ 2 * m + 1 <= Len(s) /\ ptr = First(l) + 2 * m + 1
      /\ operand \in Seq(Token) /\ m \in Nat
  BY LastLine DEF TInv, Scanned, TakeOperand
<1>2. l' = l /\ line' = line /\ line = l.tokens
  BY DEF TakeOperand, line
<1>3. /\ tok' = t /\ Advance(t) /\ t = l.tokens[ptr] /\ instruction' = instruction
      /\ operand' = IF t.tw \in {"SYMBOL", "STRING"} THEN Append(operand, t) ELSE operand
      /\ pc' = IF Acceptable(t) THEN "separator" ELSE "error"
  BY DEF TakeOperand, scan_token, line
<1>4. /\ Len(s) > 0 /\ instruction = s[1]
      /\ \A i \in 1 .. m : operand[i] = s[2 * i]
  BY <1>1 DEF Stated
<1> HIDE DEF l, t
<1>5. Len(s) \in Nat /\ First(l) \in Nat
  BY <1>1, StatementOf
<1>6. ptr = First(l) + k - 1 /\ k \in 1 .. Len(s) + 1
  BY <1>1, <1>5
<1>7. CASE k <= Len(s)
  <2>1. t = s[k] /\ t.tw # "EOL"
    <3> HIDE DEF k
    <3>1. l.tokens[First(l) + k - 1] = s[k] /\ l.tokens[First(l) + k - 1].tw # "EOL"
      BY <1>1, <1>6, <1>7, TokenAt
    <3>2. QED BY <1>3, <1>6, <3>1
  <2>2. t.tw \in {"SYMBOL", "STRING"}
    <3>1. s[2 * m + 2].tw \in {"SYMBOL", "STRING"}
      BY <1>1, <1>7, Syntax DEF l
    <3>2. QED BY <2>1, <3>1
  <2>3. Acceptable(t)
    BY <2>2 DEF Acceptable
  <2>4. pc' = "separator" /\ operand' = Append(operand, t) /\ ptr' = ptr + 1
    BY <1>3, <2>1, <2>2, <2>3 DEF Advance
  <2> HIDE DEF s, k
  <2>5. /\ Len(operand') = m + 1 /\ operand'[m + 1] = t
        /\ \A i \in 1 .. m : operand'[i] = operand[i]
    BY <1>1, <2>4
  <2>6. \A i \in 1 .. Len(operand') : operand'[i] = s[2 * i]
    <3> SUFFICES ASSUME NEW i \in 1 .. Len(operand')
                 PROVE  operand'[i] = s[2 * i]
      OBVIOUS
    <3> HIDE DEF m
    <3>1. i \in 1 .. m \/ i = m + 1
      BY <1>1, <2>5
    <3>2. i = m + 1 => s[2 * i] = s[k]
      <4>1. 2 * (m + 1) = k
        BY <1>1 DEF k
      <4>2. QED BY <4>1
    <3>3. QED BY <1>4, <2>1, <2>5, <3>1, <3>2
  <2>7. Stated'
    BY <1>2, <1>3, <1>4, <2>6 DEF Stated, s, l
  <2>8. Len(operand') > 0 /\ 2 * Len(operand') <= Len(s) /\ ptr' = First(l) + 2 * Len(operand')
    BY <1>1, <1>5, <1>6, <1>7, <2>4, <2>5 DEF k
  <2>9. Scanned'
    BY <1>2, <2>4, <2>7, <2>8 DEF Scanned, s, l
  <2>10. QED BY <2>4, <2>9
<1>8. CASE k = Len(s) + 1
  <2>1. t.tw = "EOL" /\ ptr = Len(line)
    <3> HIDE DEF k
    <3>1. /\ l.tokens[First(l) + k - 1].tw = "EOL" /\ l.tokens[First(l) + k - 1] = Last(l.tokens)
          /\ First(l) + k - 1 = Len(l.tokens)
      BY <1>1, <1>6, <1>8, TokenAt
    <3>2. QED BY <1>2, <1>3, <1>6, <3>1
  <2>2. m = 0
    <3>1. Len(s) = 2 * m + 1
      BY <1>1, <1>5, <1>8
    <3>2. QED BY <1>1, <3>1, Syntax DEF l
  <2>3. operand = << >> /\ Len(s) = 1
    BY <1>1, <1>5, <1>8, <2>2
  <2>4. Acceptable(t)
    BY <2>1, <2>3 DEF Acceptable
  <2>5. pc' = "separator" /\ operand' = operand /\ ptr' = ptr
    BY <1>3, <2>1, <2>4 DEF Advance
  <2> HIDE DEF s, k, m
  <2>6. Stated'
    BY <1>2, <1>3, <1>4, <2>5 DEF Stated, s, l, m
  <2>7. Scanned'
    BY <1>2, <2>1, <2>2, <2>3, <2>5, <2>6 DEF Scanned, s, l, m
  <2>8. QED BY <2>5, <2>7
<1>9. QED BY <1>5, <1>6, <1>7, <1>8

(* A comma is at the next odd place, or all operands have been taken.       *)
LEMMA SeparatorScanned ==
    ASSUME TInv, Working, WellFormed(Last(read)), Scanned, Separator
    PROVE  Scanned' /\ pc' \in {"operand", "emit"}
<1> DEFINE l == Last(read)
           s == Statement(l)
           m == Len(operand)
           t == scan_token
           k == 2 * m + 1
<1>1. /\ l \in Lines /\ Stated /\ operand \in Seq(Token) /\ m \in Nat
      /\ \/ m > 0 /\ 2 * m <= Len(s) /\ ptr = First(l) + 2 * m
         \/ m = 0 /\ Len(s) = 1 /\ ptr = Len(line)
  <2>1. l \in Lines /\ operand \in Seq(Token) /\ m \in Nat
    BY LastLine DEF TInv
  <2>2. Stated /\ \/ m > 0 /\ 2 * m <= Len(s) /\ ptr = First(l) + 2 * m
                  \/ m = 0 /\ Len(s) = 1 /\ ptr = Len(line)
    BY DEF Scanned, Separator
  <2>3. QED BY <2>1, <2>2
<1>2. l' = l /\ line' = line /\ line = l.tokens
  BY DEF Separator, line
<1>3. /\ tok' = t /\ Advance(t) /\ t = l.tokens[ptr]
      /\ UNCHANGED <<read, instruction, operand>>
      /\ pc' = IF t.tw = "CHAR" /\ t.name = <<",">> THEN "operand" ELSE "emit"
  BY DEF Separator, scan_token, line
<1>4. Stated'
  BY <1>1, <1>2, <1>3 DEF Stated
<1> HIDE DEF l, t
<1>5. Len(s) \in Nat /\ First(l) \in Nat
  BY <1>1, StatementOf
<1>6. ASSUME t.tw = "EOL", t = Last(l.tokens), m = Len(s) \div 2
      PROVE  Scanned' /\ pc' \in {"operand", "emit"}
  <2>1. pc' = "emit" /\ tok' = Last(l.tokens)
    BY <1>3, <1>6
  <2>2. Last(line)' = Last(l.tokens)
    BY <1>2
  <2> HIDE DEF s, k
  <2>3. Len(operand') = Len(s) \div 2
    BY <1>3, <1>6
  <2> HIDE DEF m
  <2>4. Scanned'
    BY <1>2, <1>4, <2>1, <2>2, <2>3 DEF Scanned, s, l
  <2>5. QED BY <2>1, <2>4
<1>7. CASE m > 0 /\ 2 * m <= Len(s) /\ ptr = First(l) + 2 * m
  <2>1. ptr = First(l) + k - 1 /\ k \in 1 .. Len(s) + 1
    BY <1>1, <1>5, <1>7
  <2>2. CASE k <= Len(s)
    <3>1. t = s[k] /\ t.tw # "EOL"
      <4> HIDE DEF k
      <4>1. l.tokens[First(l) + k - 1] = s[k] /\ l.tokens[First(l) + k - 1].tw # "EOL"
        BY <1>1, <2>1, <2>2, TokenAt
      <4>2. QED BY <1>3, <2>1, <4>1
    <3>2. t.tw = "CHAR" /\ t.name = <<",">>
      <4>1. s[2 * m + 1].tw = "CHAR" /\ s[2 * m + 1].name = <<",">>
        BY <1>1, <1>7, <2>2, Syntax DEF l
      <4>2. QED BY <3>1, <4>1
    <3>3. pc' = "operand" /\ ptr' = ptr + 1
      BY <1>3, <3>1, <3>2 DEF Advance
    <3>4. 2 * Len(operand') + 1 <= Len(s) /\ ptr' = First(l) + 2 * Len(operand') + 1
      <4>1. Len(operand') = m
        BY <1>3
      <4>2. 2 * m + 1 <= Len(s) /\ ptr' = First(l) + 2 * m + 1
        <5> HIDE DEF s, m
        <5>1. QED BY <1>1, <1>5, <2>1, <2>2, <3>3
      <4>3. QED BY <4>1, <4>2
    <3> HIDE DEF s, k, m
    <3>5. Scanned'
      BY <1>2, <1>4, <3>3, <3>4 DEF Scanned, s, l
    <3>6. QED BY <3>3, <3>5
  <2>3. CASE k = Len(s) + 1
    <3>1. t.tw = "EOL" /\ t = Last(l.tokens)
      <4> HIDE DEF k
      <4>1. /\ l.tokens[First(l) + k - 1].tw = "EOL" /\ l.tokens[First(l) + k - 1] = Last(l.tokens)
            /\ First(l) + k - 1 = Len(l.tokens)
        BY <1>1, <2>1, <2>3, TokenAt
      <4>2. QED BY <1>3, <2>1, <4>1
    <3>2. m = Len(s) \div 2
      <4>1. Len(s) = 2 * m
        BY <1>1, <1>5, <2>3
      <4>2. (2 * m) \div 2 = m
        BY <1>1
      <4>3. QED BY <4>1, <4>2
    <3>3. QED BY <1>6, <3>1, <3>2
  <2>4. QED BY <1>5, <2>1, <2>2, <2>3
<1>8. CASE m = 0 /\ Len(s) = 1 /\ ptr = Len(line)
  <2>1. t.tw = "EOL" /\ t = Last(l.tokens)
    <3>1. t.tw = "EOL"
      BY <1>8, NextToken DEF t
    <3>2. t = Last(l.tokens)
      BY <1>2, <1>3, <1>8 DEF Last
    <3>3. QED BY <3>1, <3>2
  <2>2. m = Len(s) \div 2
    BY <1>8
  <2>3. QED BY <1>6, <2>1, <2>2
<1>9. QED BY <1>1, <1>7, <1>8

(* A line that keeps to the syntax has no more operands than there is room  *)
(* for.                                                                     *)
LEMMA NotTooMany ==
    ASSUME TInv, Working, WellFormed(Last(read)), Scanned
    PROVE  ~ TooMany
<1> SUFFICES ASSUME TooMany
             PROVE  FALSE
  OBVIOUS
<1> DEFINE l == Last(read)
           s == Statement(l)
<1>1. l \in Lines /\ 2 * Len(operand) + 1 <= Len(s) /\ Len(operand) >= MAX_OPERANDS
  BY LastLine DEF TInv, Scanned, TooMany
<1>2. Len(operand) \in Nat /\ MAX_OPERANDS \in Nat
  BY LinesAssumption DEF TInv
<1>3. Len(s) \in Nat /\ Len(s) <= 2 * MAX_OPERANDS
  BY <1>1, Syntax, 0 \in Nat
<1>4. QED BY <1>1, <1>2, <1>3

(* Every step keeps the scan in step with the syntax.                       *)
LEMMA ScanKept == TInv /\ Scan /\ [Next]_vars => Scan'
<1> SUFFICES ASSUME TInv, Scan, [Next]_vars, Grammatical'
             PROVE  Comments' /\ Scanned' /\ pc' # "error"
  BY DEF Scan
<1>1. ASSUME NEW l \in Lines, ReadLine(l)
      PROVE  Comments' /\ Scanned' /\ pc' # "error"
  <2>1. read' = Append(read, l) /\ pc = "line" /\ ptr' = 1 /\ operand' = << >>
    BY <1>1 DEF ReadLine
  <2>2. /\ Len(read) \in Nat /\ Len(read') = Len(read) + 1
        /\ Open'[Len(read)] <=> Open[Len(read)]
        /\ Open'[Len(read')] <=> OpenAfterLine(Open[Len(read)], l)
        /\ Grammatical
    <3>1. Len(read) \in Nat
      BY DEF TInv
    <3>2. Len(read) \in 0 .. Len(read)
      BY <3>1
    <3>3. QED BY <2>1, <3>2, Appended
  <2>3. comment <=> Open[Len(read)]
    BY <2>1, <2>2 DEF Scan, Comments
  <2>4. CASE comment
    <3>1. pc' = "line" /\ (comment' <=> ~ l.closes)
      BY <1>1, <2>1, <2>4 DEF ReadLine
    <3>2. Comments'
      BY <2>2, <2>3, <2>4, <3>1 DEF Comments, Working, OpenAfterLine
    <3>3. QED BY <3>1, <3>2 DEF Scanned
  <2>5. CASE ~ comment
    <3>1. pc' = "label"
      BY <1>1, <2>5 DEF ReadLine
    <3>2. Len(read') - 1 = Len(read)
      BY <2>2
    <3>3. Comments'
      BY <2>2, <2>3, <2>5, <3>1, <3>2 DEF Comments
    <3>4. Scanned'
      BY <2>1, <3>1 DEF Scanned
    <3>5. QED BY <3>1, <3>3, <3>4
  <2>6. QED BY <2>4, <2>5
<1>2. ASSUME UNCHANGED read
      PROVE  Comments /\ Scanned /\ pc # "error" /\ Open' = Open
  BY <1>2, SameText DEF Scan
<1>3. ASSUME UNCHANGED read, Working
      PROVE  /\ WellFormed(Last(read)) /\ Last(read) \in Lines
             /\ Len(read) \in Nat /\ Len(read) > 0
             /\ Open[Len(read)] <=> Opens(Last(read))
  BY <1>2, <1>3, SameText, AtWork
<1>4. ASSUME UNCHANGED read, Working, pc' \in {"label", "instruction", "operand", "separator", "emit"}
      PROVE  Comments' /\ pc' # "error"
  BY <1>2, <1>4 DEF Comments, Working
<1>5. CASE EndOfFile
  <2>1. UNCHANGED <<read, comment>> /\ pc = "line" /\ pc' = "done"
    BY <1>5 DEF EndOfFile
  <2>2. Comments'
    BY <1>2, <2>1 DEF Comments, Working
  <2>3. QED BY <2>1, <2>2 DEF Scanned
<1>6. CASE SkipLabel
  <2>1. UNCHANGED read /\ Working
    BY <1>6 DEF SkipLabel, Working
  <2>2. QED BY <1>2, <1>3, <1>4, <1>6, <2>1, LabelScanned
<1>7. CASE TakeInstruction
  <2>1. UNCHANGED read /\ Working
    BY <1>7 DEF TakeInstruction, Working
  <2>2. QED BY <1>2, <1>3, <1>4, <1>7, <2>1, InstructionScanned
<1>8. CASE TakeOperand
  <2>1. UNCHANGED read /\ Working
    BY <1>8 DEF TakeOperand, Working
  <2>2. QED BY <1>2, <1>3, <1>4, <1>8, <2>1, OperandScanned
<1>9. CASE TooMany
  <2>1. UNCHANGED read /\ Working
    BY <1>9 DEF TooMany, Working
  <2>2. QED BY <1>2, <1>3, <1>9, <2>1, NotTooMany
<1>10. CASE Separator
  <2>1. UNCHANGED read /\ Working
    BY <1>10 DEF Separator, Working
  <2>2. QED BY <1>2, <1>3, <1>4, <1>10, <2>1, SeparatorScanned
<1>11. CASE emit_instruction
  <2>1. UNCHANGED read /\ Working /\ pc = "emit" /\ pc' = "line" /\ (comment' <=> OpensComment)
    BY <1>11 DEF emit_instruction, Working
  <2>2. tok = Last(line) /\ line = Last(read).tokens
    BY <1>2, <2>1 DEF Scanned, line
  <2>3. tok.tw = "EOL"
    <3>1. Last(line) = line[Len(line)]
      BY DEF Last
    <3>2. read \in Seq(Lines) /\ Len(read) > 0
      BY <2>1 DEF TInv
    <3>3. Len(line) \in Nat \ {0} /\ \A k \in 1 .. Len(line) : line[k].tw = "EOL" <=> k = Len(line)
      BY <3>2, LastLine DEF line
    <3>4. QED BY <2>2, <3>1, <3>3
  <2>4. OpensComment <=> Opens(Last(read))
    BY <2>2, <2>3 DEF OpensComment, Opens
  <2>5. Comments'
    BY <1>2, <1>3, <2>1, <2>4 DEF Comments, Working
  <2>6. QED BY <2>1, <2>5 DEF Scanned
<1>12. CASE Crash
  BY <1>12 DEF Crash, Comments, Scanned, Working
<1>13. CASE UNCHANGED vars
  <2>1. UNCHANGED <<read, pc, ptr, tok, instruction, operand, comment>>
    BY <1>13 DEF vars, lineVars
  <2>2. Comments' /\ pc' # "error"
    BY <1>2, <2>1 DEF Comments, Working
  <2>3. Scanned'
    BY <1>2, <2>1 DEF Scanned, Stated, line
  <2>4. QED BY <2>2, <2>3
<1>14. QED BY <1>1, <1>5, <1>6, <1>7, <1>8, <1>9, <1>10, <1>11, <1>12, <1>13 DEF Next

(* A text that keeps to the syntax at the head of jas.c is never rejected.  *)
THEOREM SyntaxAccepted == Spec => []Accepted
<1>1. Init => TInv /\ Scan
  BY TInvStarts, ScanStarts
<1>2. TInv /\ Scan /\ [Next]_vars => (TInv /\ Scan)'
  BY TInvKept, ScanKept
<1>3. TInv /\ Scan => Accepted
  BY DEF Scan, Accepted
<1>4. QED BY <1>1, <1>2, <1>3, PTL DEF Spec

-----------------------------------------------------------------------------
(* The instructions are those of lines that are done with, in their order;  *)
(* each means what its line says; and every such line that is to be kept    *)
(* has one.                                                                 *)
Ordered == /\ \A k \in 1 .. pp : from[k] \in 1 .. Done
           /\ \A k \in 1 .. pp - 1 : from[k] < from[k + 1]
Written == Grammatical => \A k \in 1 .. pp : /\ ~ Open[from[k] - 1]
                                             /\ Means(prog[k - 1], read[from[k]])
ToKeep(k) == LET s == Statement(read[k])
             IN  /\ ~ Open[k - 1] /\ s # << >>
                 /\ Unshadowed(s[1]) /\ s[1].suffix \in {""} \cup DOMAIN type_id
Found == Grammatical /\ pc \notin {"error", "crashed"} =>
             \A k \in 1 .. Done : ToKeep(k) => \E q \in 1 .. pp : from[q] = k

(* What is written for a line that keeps to the syntax means what it says.  *)
LEMMA LineWritten ==
    ASSUME TInv, Working, pc = "emit", Scanned, WellFormed(Last(read)),
           NEW t \in TypesFound, Kept(t), NEW p \in Instructions
    PROVE  Means(WithOperands(WithOpcode(p, t), operand), Last(read))
<1> DEFINE l == Last(read)
           s == Statement(l)
           u == WithOpcode(p, t)
           q == WithOperands(u, operand)
<1>1. l \in Lines /\ operand \in Seq(Token)
  BY LastLine DEF TInv
<1>2. opcode # Unknown
  BY DEF Kept
<1>3. instruction # NoToken
  BY <1>2, LookUpTyped DEF opcode
<1>4. Stated /\ Len(operand) = Len(s) \div 2
  BY <1>3 DEF Scanned
<1>5. /\ Len(s) > 0 /\ instruction = s[1]
      /\ \A k \in 1 .. Len(operand) : operand[k] = s[2 * k]
  BY <1>4 DEF Stated
<1>6. operand = Operands(l)
  <2>1. Operands(l) = [k \in 1 .. Len(operand) |-> s[2 * k]]
    BY <1>4 DEF Operands
  <2>2. operand = [k \in 1 .. Len(operand) |-> operand[k]]
    BY <1>1
  <2> HIDE DEF l, s
  <2>3. QED BY <1>5, <2>1, <2>2
<1>7. Len(s) >= 1 /\ s[1].type = "NONE"
  <2>1. Len(s) \in Nat
    BY <1>1, StatementOf
  <2>2. Len(s) >= 1
    BY <1>5, <2>1
  <2>3. QED BY <1>1, <2>2, Syntax, 0 \in Nat
<1>8. /\ u \in Instructions /\ u.op = opcode
      /\ instruction.suffix = "" => u.type = DEFAULT_TYPE_ID
      /\ instruction.suffix \in DOMAIN Meant => u.type = Meant[instruction.suffix]
  BY <1>2, OpcodeWritten
<1> HIDE DEF u
<1>9. /\ q \in Instructions /\ q.op = u.op /\ q.type = u.type
      /\ Kind(operand) \in Shapes =>
            \A k \in DOMAIN operand :
                Fits(k, operand[k]) => FieldOf(q, k, operand[k]) = operand[k].num
  BY <1>1, <1>8, OperandsWritten
<1> HIDE DEF l, s, q
<1>10. Unshadowed(s[1]) => q.op = s[1].name
  <2>1. ASSUME Unshadowed(s[1])
        PROVE  opcode = s[1].name
    <3>1. s[1].type # "REGISTER"
      BY <1>7
    <3>2. lookup(s[1]) = s[1].name
      BY <2>1, <3>1, LookUp
    <3>3. QED BY <1>5, <3>2 DEF opcode
  <2>2. QED BY <1>8, <1>9, <2>1
<1>11. /\ s[1].suffix = "" => q.type = DEFAULT_TYPE_ID
       /\ s[1].suffix \in DOMAIN Meant => q.type = Meant[s[1].suffix]
  BY <1>5, <1>8, <1>9
<1>12. Means(q, l)
  BY <1>6, <1>9, <1>10, <1>11 DEF Means, s
<1>13. QED BY <1>12 DEF q, u, l

(* A line to be kept is kept.                                               *)
LEMMA LineKept ==
    ASSUME TInv, Working, pc = "emit", Scanned, WellFormed(Last(read)), ToKeep(Len(read)),
           NEW t \in TypesFound
    PROVE  Kept(t)
<1> DEFINE l == Last(read)
           s == Statement(l)
<1>1. l \in Lines /\ l = read[Len(read)]
  BY LastLine DEF TInv
<1>2. /\ s # << >> /\ Unshadowed(s[1]) /\ s[1].suffix \in {""} \cup DOMAIN type_id
  BY <1>1 DEF ToKeep
<1> HIDE DEF l
<1>3. Len(s) \in Nat /\ Len(s) # 0
  <2>1. Len(s) \in Nat /\ (s = << >> <=> Len(s) = 0)
    BY <1>1, StatementOf
  <2>2. QED BY <1>2, <2>1
<1>4. instruction = s[1]
  BY <1>3 DEF Scanned, Stated, l
<1>5. s[1].type = "NONE"
  <2>1. Len(s) >= 1
    BY <1>3
  <2>2. QED BY <1>1, <2>1, Syntax, 0 \in Nat DEF l
<1> HIDE DEF s
<1>6. lookup(s[1]) # Unknown
  <2>1. s[1].type # "REGISTER"
    BY <1>5
  <2>2. QED BY <1>2, <2>1, LookUp
<1>7. /\ DEFAULT_TYPE_ID # NotFound
      /\ \A y \in DOMAIN type_id : type_id[y] # NotFound
  BY DEF DEFAULT_TYPE_ID, NotFound, type_id
<1>8. t # NotFound
  BY <1>2, <1>4, <1>7 DEF TypesFound
<1>9. QED BY <1>4, <1>6, <1>8 DEF Kept, opcode

(* All other steps leave the program as it is, and no line is undone.       *)
LEMMA OtherSteps ==
    ASSUME TInv, [Next]_vars, ~ emit_instruction
    PROVE  /\ UNCHANGED progVars
           /\ Done \in Nat /\ Done' \in Nat /\ Done <= Done' /\ Done <= Len(read)
           /\ UNCHANGED read => Done' = Done \/ pc' \in {"error", "crashed"}
<1>1. Len(read) \in Nat /\ (Working => Len(read) > 0)
  BY DEF TInv
<1>2. Done \in Nat /\ Done <= Len(read)
  BY <1>1 DEF Done
<1>3. ASSUME NEW l \in Lines, ReadLine(l)
      PROVE  UNCHANGED progVars /\ Done' \in Nat /\ Done <= Done' /\ Len(read') = Len(read) + 1
  <2>1. Len(read') = Len(read) + 1
    BY <1>3 DEF ReadLine, TInv
  <2>2. QED BY <1>1, <1>2, <1>3, <2>1 DEF ReadLine, Done
<1>4. CASE EndOfFile
  BY <1>1, <1>2, <1>4 DEF EndOfFile, Done, Working
<1>5. CASE SkipLabel \/ TakeInstruction \/ TooMany \/ Separator
  <2>1. CASE SkipLabel
    BY <1>1, <1>2, <2>1 DEF SkipLabel, Done, Working
  <2>2. CASE TakeInstruction
    BY <1>1, <1>2, <2>2 DEF TakeInstruction, Done, Working
  <2>3. CASE TooMany
    BY <1>1, <1>2, <2>3 DEF TooMany, Done, Working
  <2>4. CASE Separator
    <3>1. Working /\ Working' /\ UNCHANGED <<read, progVars>>
      BY <2>4 DEF Separator, Working
    <3>2. Done' = Done
      BY <3>1 DEF Done
    <3>3. QED BY <1>2, <3>1, <3>2
  <2>5. QED BY <1>5, <2>1, <2>2, <2>3, <2>4
<1>6. CASE TakeOperand
  BY <1>1, <1>2, <1>6 DEF TakeOperand, Done, Working
<1>7. CASE Crash
  BY <1>1, <1>2, <1>7 DEF Crash, Done, Working
<1>8. CASE UNCHANGED vars
  BY <1>1, <1>2, <1>8 DEF vars, progVars, Done, Working
<1>9. QED BY <1>1, <1>2, <1>3, <1>4, <1>5, <1>6, <1>7, <1>8 DEF Next

(* An instruction written with the type t, and kept or not.                 *)
EmittedWith(t) ==
    /\ prog'[pp] = WithOperands(WithOpcode(prog[pp], t), operand)
    /\ IF Kept(t) THEN pp' = pp + 1 /\ from'[pp + 1] = Len(read)
                  ELSE pp' = pp /\ from' = from

(* An instruction written, of a type that has been found.                   *)
LEMMA Emitted ==
    ASSUME TInv, emit_instruction
    PROVE  /\ Working /\ pc = "emit" /\ UNCHANGED read
           /\ Len(read) \in Nat /\ Len(read) > 0 /\ Done = Len(read) - 1 /\ Done' = Len(read)
           /\ pp \in Nat /\ pp \in 0 .. MaxLines /\ prog[pp] \in Instructions
           /\ \A k \in 1 .. pp : prog'[k - 1] = prog[k - 1] /\ from'[k] = from[k]
           /\ \E t \in TypesFound : EmittedWith(t)
<1>1. Working /\ pc = "emit" /\ pc' = "line" /\ UNCHANGED read
  BY DEF emit_instruction, Working
<1>2. /\ prog \in [0 .. MaxLines -> Instructions] /\ from \in Seq(Nat) /\ Len(from) = pp
      /\ pp \in 0 .. Len(read) - 1 /\ Len(read) > 0 /\ Len(read) \in 0 .. MaxLines
      /\ MaxLines \in Nat
  BY <1>1, Programmed
<1>3. Done = Len(read) - 1 /\ Done' = Len(read)
  BY <1>1 DEF Done, Working
<1>4. pp \in Nat /\ pp \in 0 .. MaxLines /\ prog[pp] \in Instructions
  BY <1>2
<1>5. PICK t \in TypesFound :
          /\ prog' = [prog EXCEPT ![pp] = WithOperands(WithOpcode(@, t), operand)]
          /\ IF Kept(t) THEN pp' = pp + 1 /\ from' = Append(from, Len(read))
                        ELSE pp' = pp /\ from' = from
  BY DEF emit_instruction
<1>6. prog'[pp] = WithOperands(WithOpcode(prog[pp], t), operand)
  BY <1>2, <1>4, <1>5
<1>7. /\ Append(from, Len(read))[pp + 1] = Len(read)
      /\ \A k \in 1 .. pp : Append(from, Len(read))[k] = from[k]
  BY <1>2
<1>8. \A k \in 1 .. pp : prog'[k - 1] = prog[k - 1]
  <2> SUFFICES ASSUME NEW k \in 1 .. pp
               PROVE  prog'[k - 1] = prog[k - 1]
    OBVIOUS
  <2>1. k - 1 \in 0 .. MaxLines /\ k - 1 # pp
    BY <1>2, <1>4
  <2>2. QED BY <1>2, <1>5, <2>1
<1>9. \A k \in 1 .. pp : from'[k] = from[k]
  BY <1>5, <1>7
<1>10. IF Kept(t) THEN pp' = pp + 1 /\ from'[pp + 1] = Len(read) ELSE pp' = pp /\ from' = from
  BY <1>5, <1>7
<1>11. EmittedWith(t)
  BY <1>6, <1>10 DEF EmittedWith
<1>12. QED BY <1>1, <1>2, <1>3, <1>4, <1>8, <1>9, <1>11

(* Every step keeps the instructions in the order of their lines.           *)
LEMMA OrderedKept == TInv /\ Ordered /\ [Next]_vars => Ordered'
<1> SUFFICES ASSUME TInv, Ordered, [Next]_vars
             PROVE  Ordered'
  OBVIOUS
<1>1. CASE ~ emit_instruction
  <2>1. UNCHANGED <<pp, from>> /\ Done \in Nat /\ Done' \in Nat /\ Done <= Done'
    BY <1>1, OtherSteps DEF progVars
  <2>2. QED BY <2>1 DEF Ordered
<1>2. CASE emit_instruction
  <2>1. /\ Len(read) \in Nat /\ Len(read) > 0 /\ Done = Len(read) - 1 /\ Done' = Len(read)
        /\ pp \in Nat
        /\ \A k \in 1 .. pp : from'[k] = from[k]
        /\ \/ pp' = pp /\ from' = from
           \/ pp' = pp + 1 /\ from'[pp + 1] = Len(read)
    BY <1>2, Emitted DEF EmittedWith
  <2>2. /\ \A k \in 1 .. pp : from[k] \in 1 .. Len(read) - 1
        /\ \A k \in 1 .. pp - 1 : from[k] < from[k + 1]
    BY <2>1 DEF Ordered
  <2>3. CASE pp' = pp /\ from' = from
    <3>1. \A k \in 1 .. pp : from[k] \in 1 .. Len(read)
      BY <2>1, <2>2
    <3>2. QED BY <2>1, <2>2, <2>3, <3>1 DEF Ordered
  <2>4. CASE pp' = pp + 1 /\ from'[pp + 1] = Len(read)
    <3>1. pp' = pp + 1 /\ from'[pp + 1] = Len(read)
      BY <2>4
    <3>2. ASSUME NEW k \in 1 .. pp + 1
          PROVE  from'[k] \in 1 .. Len(read)
      <4>1. k \in 1 .. pp \/ k = pp + 1
        BY <2>1
      <4>2. QED BY <2>1, <2>2, <3>1, <4>1
    <3>3. ASSUME NEW k \in 1 .. pp
          PROVE  from'[k] < from'[k + 1]
      <4>1. from'[k] = from[k] /\ from[k] \in 1 .. Len(read) - 1
        BY <2>1, <2>2
      <4>2. CASE k = pp
        <5>1. from'[k + 1] = Len(read)
          BY <3>1, <4>2
        <5>2. QED BY <2>1, <4>1, <5>1
      <4>3. CASE k # pp
        <5>1. k \in 1 .. pp - 1 /\ k + 1 \in 1 .. pp
          BY <2>1, <4>3
        <5>2. QED BY <2>1, <2>2, <4>1, <5>1
      <4>4. QED BY <4>2, <4>3
    <3>4. pp' - 1 = pp
      BY <2>1, <3>1
    <3>5. QED BY <2>1, <3>1, <3>2, <3>3, <3>4 DEF Ordered
  <2>5. QED BY <2>1, <2>3, <2>4
<1>3. QED BY <1>1, <1>2

(* Every step keeps the meaning of the instructions: the text only grows,   *)
(* and only the instruction past the last one is written.                   *)
LEMMA WrittenKept == TInv /\ Scan /\ Ordered /\ Written /\ [Next]_vars => Written'
<1> SUFFICES ASSUME TInv, Scan, Ordered, Written, [Next]_vars, Grammatical',
                    NEW k \in 1 .. pp'
             PROVE  ~ Open'[from'[k] - 1] /\ Means(prog'[k - 1], read'[from'[k]])
  BY DEF Written
<1>1. ASSUME NEW l \in Lines, ReadLine(l)
      PROVE  ~ Open'[from'[k] - 1] /\ Means(prog'[k - 1], read'[from'[k]])
  <2>1. read' = Append(read, l) /\ UNCHANGED <<pp, prog, from>>
    BY <1>1 DEF ReadLine, progVars
  <2>2. /\ Len(read) \in Nat
        /\ \A i \in 1 .. Len(read) : read'[i] = read[i]
        /\ \A i \in 0 .. Len(read) : Open'[i] <=> Open[i]
        /\ Grammatical
    BY <2>1, Appended
  <2>3. k \in 1 .. pp /\ Done <= Len(read) /\ Done \in Nat
    <3>1. ~ emit_instruction
      BY <1>1 DEF ReadLine, emit_instruction
    <3>2. QED BY <2>1, <3>1, OtherSteps
  <2>4. from[k] \in 1 .. Len(read) /\ from[k] - 1 \in 0 .. Len(read)
    <3>1. from[k] \in 1 .. Done
      BY <2>3 DEF Ordered
    <3>2. QED BY <2>2, <2>3, <3>1
  <2>5. ~ Open[from[k] - 1] /\ Means(prog[k - 1], read[from[k]])
    BY <2>2, <2>3 DEF Written
  <2>6. ~ Open'[from[k] - 1] /\ read'[from[k]] = read[from[k]]
    BY <2>2, <2>4, <2>5
  <2>7. QED BY <2>1, <2>5, <2>6
<1>2. CASE UNCHANGED <<read, progVars>>
  BY <1>2, SameText DEF Written, progVars
<1>3. CASE emit_instruction
  <2>1. /\ Working /\ pc = "emit" /\ UNCHANGED read
        /\ Len(read) \in Nat /\ Len(read) > 0 /\ Done = Len(read) - 1 /\ Done' = Len(read)
        /\ pp \in Nat /\ pp \in 0 .. MaxLines /\ prog[pp] \in Instructions
        /\ \A i \in 1 .. pp : prog'[i - 1] = prog[i - 1] /\ from'[i] = from[i]
        /\ \E t \in TypesFound : EmittedWith(t)
    BY <1>3, Emitted
  <2> PICK t \in TypesFound : EmittedWith(t)
    BY <2>1
  <2>2. Grammatical /\ Open' = Open
    BY <2>1, SameText
  <2>3. CASE k \in 1 .. pp
    <3>1. ~ Open[from[k] - 1] /\ Means(prog[k - 1], read[from[k]])
      BY <2>2, <2>3 DEF Written
    <3>2. prog'[k - 1] = prog[k - 1] /\ from'[k] = from[k]
      BY <2>1, <2>3
    <3>3. QED BY <2>1, <2>2, <3>1, <3>2
  <2>4. CASE k \notin 1 .. pp
    <3>1. /\ Kept(t) /\ k = pp + 1 /\ k - 1 = pp /\ from'[k] = Len(read)
          /\ prog'[pp] = WithOperands(WithOpcode(prog[pp], t), operand)
      BY <2>1, <2>4 DEF EmittedWith
    <3>2. /\ WellFormed(Last(read)) /\ Last(read) = read[Len(read)]
          /\ ~ Open[Len(read) - 1]
      BY <2>1, <2>2, AtWork DEF Scan
    <3>3. Means(WithOperands(WithOpcode(prog[pp], t), operand), Last(read))
      BY <2>1, <2>2, <3>1, <3>2, LineWritten DEF Scan
    <3>4. Means(prog'[k - 1], read[Len(read)])
      BY <2>1, <3>1, <3>2, <3>3
    <3>5. QED BY <2>1, <2>2, <3>1, <3>2, <3>4
  <2>5. QED BY <2>3, <2>4
<1>4. QED
  <2>1. ASSUME ~ emit_instruction, ~ \E l \in Lines : ReadLine(l)
        PROVE  UNCHANGED <<read, progVars>>
    <3>1. UNCHANGED progVars
      BY <2>1, OtherSteps
    <3>2. UNCHANGED read
      BY <2>1 DEF Next, EndOfFile, SkipLabel, TakeInstruction, TakeOperand, TooMany, Separator,
                  Crash, vars
    <3>3. QED BY <3>1, <3>2
  <2>2. QED BY <1>1, <1>2, <1>3, <2>1

(* Every step keeps an instruction for each line that is to have one.       *)
LEMMA FoundKept == TInv /\ Scan /\ Ordered /\ Found /\ [Next]_vars => Found'
<1> SUFFICES ASSUME TInv, Scan, Found, [Next]_vars, Grammatical',
                    pc' \notin {"error", "crashed"}, NEW k \in 1 .. Done', ToKeep(k)'
             PROVE  \E q \in 1 .. pp' : from'[q] = k
  BY DEF Found
<1>1. ASSUME NEW l \in Lines, ReadLine(l)
      PROVE  \E q \in 1 .. pp' : from'[q] = k
  <2>1. read' = Append(read, l) /\ UNCHANGED <<pp, prog, from>> /\ pc = "line"
    BY <1>1 DEF ReadLine, progVars
  <2>2. /\ Len(read) \in Nat /\ Len(read') = Len(read) + 1
        /\ \A i \in 1 .. Len(read) : read'[i] = read[i]
        /\ \A i \in 0 .. Len(read) : Open'[i] <=> Open[i]
        /\ Grammatical
    BY <2>1, Appended
  <2>3. Done = Len(read) /\ (comment <=> Open[Len(read)])
    BY <2>1, <2>2 DEF Done, Working, Scan, Comments
  <2>4. ~ Open'[k - 1]
    BY DEF ToKeep
  <2>5. k \in 1 .. Len(read)
    <3>1. CASE comment
      <4>1. Done' = Len(read) + 1
        BY <1>1, <2>1, <2>2, <3>1 DEF ReadLine, Done, Working
      <4>2. k # Len(read) + 1
        <5>1. Open'[Len(read)]
          <6>1. Len(read) \in 0 .. Len(read)
            BY <2>2
          <6>2. QED BY <2>2, <2>3, <3>1, <6>1
        <5>2. k = Len(read) + 1 => k - 1 = Len(read)
          BY <2>2
        <5>3. QED BY <2>4, <5>1, <5>2
      <4>3. QED BY <2>2, <4>1, <4>2
    <3>2. CASE ~ comment
      <4>1. Done' = Len(read)
        BY <1>1, <2>1, <2>2, <3>2 DEF ReadLine, Done, Working
      <4>2. QED BY <4>1
    <3>3. QED BY <3>1, <3>2
  <2>6. k - 1 \in 0 .. Len(read)
    BY <2>2, <2>5
  <2>7. ToKeep(k)
    <3>1. read'[k] = read[k] /\ (Open'[k - 1] <=> Open[k - 1])
      BY <2>2, <2>5, <2>6
    <3>2. QED BY <3>1 DEF ToKeep, Unshadowed
  <2>8. QED BY <2>1, <2>2, <2>3, <2>5, <2>7 DEF Found
<1>2. ASSUME UNCHANGED <<read, progVars>>, Done' = Done, pc \notin {"error", "crashed"}
      PROVE  \E q \in 1 .. pp' : from'[q] = k
  <2>1. Grammatical /\ Open' = Open
    BY <1>2, SameText
  <2>2. ToKeep(k) /\ k \in 1 .. Done
    BY <1>2, <2>1 DEF ToKeep, Unshadowed
  <2>3. QED BY <1>2, <2>1, <2>2 DEF Found, progVars
<1>3. CASE emit_instruction
  <2>1. /\ Working /\ pc = "emit" /\ UNCHANGED read
        /\ Len(read) \in Nat /\ Len(read) > 0 /\ Done = Len(read) - 1 /\ Done' = Len(read)
        /\ pp \in Nat /\ pp \in 0 .. MaxLines /\ prog[pp] \in Instructions
        /\ \A i \in 1 .. pp : prog'[i - 1] = prog[i - 1] /\ from'[i] = from[i]
        /\ \E t \in TypesFound : EmittedWith(t)
    BY <1>3, Emitted
  <2> PICK t \in TypesFound : EmittedWith(t)
    BY <2>1
  <2>2. Grammatical /\ Open' = Open
    BY <2>1, SameText
  <2>3. ToKeep(k)
    BY <2>1, <2>2 DEF ToKeep, Unshadowed
  <2>4. CASE k = Len(read)
    <3>1. Kept(t)
      <4>1. WellFormed(Last(read)) /\ Scanned
        BY <2>1, <2>2, AtWork DEF Scan
      <4>2. QED BY <2>1, <2>3, <2>4, <4>1, LineKept
    <3>2. pp' = pp + 1 /\ from'[pp + 1] = k /\ pp + 1 \in 1 .. pp + 1
      BY <2>1, <2>4, <3>1 DEF EmittedWith
    <3>3. QED BY <3>2
  <2>5. CASE k # Len(read)
    <3>1. k \in 1 .. Done
      BY <2>1, <2>5
    <3>2. PICK q \in 1 .. pp : from[q] = k
      BY <2>1, <2>2, <2>3, <3>1 DEF Found
    <3>3. from'[q] = k /\ q \in 1 .. pp'
      BY <2>1, <3>2 DEF EmittedWith
    <3>4. QED BY <3>3
  <2>6. QED BY <2>4, <2>5
<1>4. QED
  <2>1. ASSUME ~ emit_instruction, ~ \E l \in Lines : ReadLine(l)
        PROVE  UNCHANGED <<read, progVars>> /\ Done' = Done /\ pc \notin {"error", "crashed"}
    <3>1. UNCHANGED progVars
      BY <2>1, OtherSteps
    <3>2. UNCHANGED read /\ pc \notin {"error", "crashed"}
      BY <2>1 DEF Next, EndOfFile, SkipLabel, TakeInstruction, TakeOperand, TooMany, Separator,
                  Crash, vars
    <3>3. QED BY <2>1, <3>1, <3>2, OtherSteps
  <2>2. QED BY <1>1, <1>2, <1>3, <2>1

(* The inductive invariant.                                                 *)
Inv == TInv /\ Scan /\ Ordered /\ Written /\ Found

(* The inductive invariant holds throughout.                                *)
LEMMA Invariance == Spec => []Inv
<1>1. Init => Inv
  <2> SUFFICES ASSUME Init
               PROVE  Inv
    OBVIOUS
  <2>1. pp = 0 /\ Len(read) = 0 /\ pc = "line"
    BY DEF Init
  <2>2. Done = 0
    BY <2>1 DEF Done, Working
  <2>3. Ordered /\ Written /\ Found
    BY <2>1, <2>2 DEF Ordered, Written, Found
  <2>4. QED BY <2>3, TInvStarts, ScanStarts DEF Inv
<1>2. Inv /\ [Next]_vars => Inv'
  BY TInvKept, ScanKept, OrderedKept, WrittenKept, FoundKept DEF Inv
<1>3. QED BY <1>1, <1>2, PTL DEF Spec

(* Every instruction of the program means what its line says, for any lines *)
(* and any number of them: none is of a line in a comment, none is twice    *)
(* there, and what other lines left in the array does not show.             *)
THEOREM AssembledRight == Spec => []Assembled
<1>1. Inv => Assembled
  BY DEF Inv, Assembled, Written, Ordered
<1>2. QED BY Invariance, <1>1, PTL

(* Every line with an opcode and a type of the tables that is not in a      *)
(* comment has its instruction as soon as it has been assembled.            *)
THEOREM NoLineLost == Spec => []NoneLost
<1>1. Inv => NoneLost
  <2> SUFFICES ASSUME Inv, pc \in {"line", "done"}, Grammatical
               PROVE  \A k \in 1 .. Len(read) : ToKeep(k) => \E q \in 1 .. pp : from[q] = k
    BY Zenon DEF NoneLost, ToKeep
  <2>1. Done = Len(read) /\ pc \notin {"error", "crashed"}
    BY DEF Done, Working
  <2>2. QED BY <2>1 DEF Inv, Found
<1>2. QED BY Invariance, <1>1, PTL
=============================================================================
