----------------------------- MODULE JitProofs ------------------------------
(***************************************************************************)
(* Proofs about emulator and native code: instruction by instruction, for  *)
(* every width of the integer types, every value of the registers and      *)
(* every aliasing of the operands, the code of the emitters computes what  *)
(* the emulator computes; and so both machines run in step.                *)
(***************************************************************************)
EXTENDS Jit, WordProofs

(* Exec is defined by recursion: its unfolding.                             *)
Trace(t, cpu, s) ==
    t = [k \in 0 .. Len(s) |-> IF k = 0 THEN cpu ELSE ExecOne(t[k - 1], s[k])]

(* The states between the instructions of a piece of code exist.            *)
LEMMA TraceExists ==
    ASSUME NEW cpu, NEW s, Len(s) \in Nat
    PROVE  \E t : Trace(t, cpu, s)
<1> DEFINE N == Len(s)
           Until(t, m) == /\ t = [k \in 0 .. N |-> t[k]]
                          /\ t[0] = cpu
                          /\ \A k \in 1 .. m : t[k] = ExecOne(t[k - 1], s[k])
           U == {m \in 0 .. N : \E t : Until(t, m)}
<1>1. 0 \in U
  <2> DEFINE t == [k \in 0 .. N |-> cpu]
  <2>1. Until(t, 0) /\ 0 \in 0 .. N
    OBVIOUS
  <2> HIDE DEF t, Until
  <2>2. QED BY <2>1
<1>2. ASSUME NEW m \in 1 .. N, m - 1 \in U
      PROVE  m \in U
  <2>1. PICK t : Until(t, m - 1)
    BY <1>2
  <2> DEFINE h == [k \in 0 .. N |-> IF k = m THEN ExecOne(t[m - 1], s[m]) ELSE t[k]]
  <2>2. h = [k \in 0 .. N |-> h[k]] /\ h[0] = cpu
    BY <2>1
  <2>3. ASSUME NEW k \in 1 .. m
        PROVE  h[k] = ExecOne(h[k - 1], s[k])
    <3>1. h[k - 1] = t[k - 1]
      OBVIOUS
    <3>2. CASE k = m
      BY <3>1, <3>2
    <3>3. CASE k # m
      <4>1. h[k] = t[k] /\ k \in 1 .. m - 1
        BY <3>3
      <4>2. QED BY <2>1, <3>1, <4>1
    <3>4. QED BY <3>2, <3>3
  <2> HIDE DEF h
  <2>4. Until(h, m) /\ m \in 0 .. N
    BY <2>2, <2>3
  <2> HIDE DEF Until
  <2>5. QED BY <2>4
<1>3. N \in U
  <2> HIDE DEF U
  <2>1. 0 .. N \subseteq U
    BY <1>1, <1>2, UpTo
  <2>2. QED BY <2>1
<1>4. PICK t : Until(t, N)
  BY <1>3
<1>5. Trace(t, cpu, s)
  <2>1. \A k \in 0 .. N : t[k] = IF k = 0 THEN cpu ELSE ExecOne(t[k - 1], s[k])
    <3>1. \A k \in 0 .. N : k = 0 \/ k \in 1 .. N
      OBVIOUS
    <3>2. QED BY <1>4, <3>1
  <2>2. QED BY <1>4, <2>1 DEF Trace
<1>6. QED BY <1>5

Runs(t, cpu, s) ==
    /\ t[0] = cpu
    /\ \A k \in 1 .. Len(s) : t[k] = ExecOne(t[k - 1], s[k])
    /\ Exec(cpu, s) = t[Len(s)]

(* Exec yields the last of them.                                            *)
LEMMA ExecTrace ==
    ASSUME NEW cpu, NEW s, Len(s) \in Nat
    PROVE  \E t : Runs(t, cpu, s)
<1> DEFINE Rec(t) == t = [k \in 0 .. Len(s) |-> IF k = 0 THEN cpu ELSE ExecOne(t[k - 1], s[k])]
           run == CHOOSE t : Rec(t)
<1>1. Exec(cpu, s) = run[Len(s)]
  BY Zenon DEF Exec
<1>2. \E t : Rec(t)
  <2>1. PICK t : Trace(t, cpu, s)
    BY TraceExists
  <2>2. Rec(t)
    BY <2>1 DEF Trace
  <2> HIDE DEF Rec
  <2>3. QED BY <2>2
<1> HIDE DEF Rec
<1>3. Rec(run)
  BY <1>2
<1> HIDE DEF run
<1>4. run[0] = cpu /\ \A k \in 1 .. Len(s) : run[k] = ExecOne(run[k - 1], s[k])
  BY <1>3 DEF Rec
<1>5. Runs(run, cpu, s)
  BY <1>1, <1>4 DEF Runs
<1>6. QED BY <1>5

(* Code that is empty, of one instruction, or put together of two pieces.   *)
LEMMA ExecEmpty ==
    ASSUME NEW cpu
    PROVE  Exec(cpu, << >>) = cpu
<1>1. Len(<< >>) = 0
  OBVIOUS
<1>2. PICK t : Runs(t, cpu, << >>)
  BY <1>1, ExecTrace
<1>3. QED BY <1>1, <1>2 DEF Runs

(* One instruction is executed by ExecOne.                                  *)
LEMMA ExecSingle ==
    ASSUME NEW cpu, NEW i
    PROVE  Exec(cpu, <<i>>) = ExecOne(cpu, i)
<1> DEFINE s == <<i>>
<1>1. Len(s) = 1 /\ s[1] = i
  OBVIOUS
<1> HIDE DEF s
<1>2. PICK t : Runs(t, cpu, s)
  <2>1. Len(s) \in Nat
    BY <1>1
  <2>2. QED BY <2>1, ExecTrace
<1>3. t[1] = ExecOne(t[0], s[1])
  <2>1. 1 \in 1 .. Len(s) /\ 1 - 1 = 0
    BY <1>1
  <2>2. t[1] = ExecOne(t[1 - 1], s[1])
    BY <1>2, <2>1 DEF Runs
  <2>3. QED BY <2>1, <2>2
<1>4. QED BY <1>1, <1>2, <1>3 DEF s, Runs

(* Code put together of two pieces runs the one and then the other.         *)
LEMMA ExecConcat ==
    ASSUME NEW cpu, NEW S, NEW s \in Seq(S), NEW u \in Seq(S)
    PROVE  Exec(cpu, s \o u) = Exec(Exec(cpu, s), u)
<1> DEFINE a == Len(s)
           b == Len(u)
           v == s \o u
<1>1. /\ a \in Nat /\ b \in Nat /\ Len(v) = a + b
      /\ \A k \in 1 .. a : v[k] = s[k]
      /\ \A k \in 1 .. b : v[a + k] = u[k]
  OBVIOUS
<1> HIDE DEF a, b, v
<1>2. PICK t : Runs(t, cpu, s)
  BY <1>1, ExecTrace DEF a
<1>3. PICK h : Runs(h, Exec(cpu, s), u)
  BY <1>1, ExecTrace DEF b
<1>4. PICK g : Runs(g, cpu, v)
  <2>1. Len(v) \in Nat
    BY <1>1
  <2>2. QED BY <2>1, ExecTrace
<1>5. \A k \in 0 .. a : g[k] = t[k]
  <2> DEFINE U == {k \in 0 .. a : g[k] = t[k]}
  <2>1. 0 \in U
    BY <1>1, <1>2, <1>4 DEF Runs
  <2>2. ASSUME NEW k \in 1 .. a, k - 1 \in U
        PROVE  k \in U
    <3>1. g[k] = ExecOne(g[k - 1], v[k]) /\ t[k] = ExecOne(t[k - 1], s[k])
      BY <1>1, <1>2, <1>4 DEF Runs, a
    <3>2. QED BY <1>1, <2>2, <3>1
  <2>3. 0 .. a \subseteq U
    <3> HIDE DEF U
    <3>1. QED BY <1>1, <2>1, <2>2, UpTo
  <2>4. QED BY <2>3
<1>6. \A k \in 0 .. b : g[a + k] = h[k]
  <2> DEFINE U == {k \in 0 .. b : g[a + k] = h[k]}
  <2>1. 0 \in U
    <3>1. g[a] = t[a] /\ a + 0 = a /\ 0 \in 0 .. b
      BY <1>1, <1>5
    <3>2. QED BY <1>2, <1>3, <3>1 DEF Runs, a
  <2>2. ASSUME NEW k \in 1 .. b, k - 1 \in U
        PROVE  k \in U
    <3>1. a + k \in 1 .. a + b /\ (a + k) - 1 = a + (k - 1)
      BY <1>1
    <3>2. g[a + k] = ExecOne(g[(a + k) - 1], v[a + k])
      BY <1>1, <1>4, <3>1 DEF Runs
    <3>3. h[k] = ExecOne(h[k - 1], u[k]) /\ v[a + k] = u[k]
      BY <1>1, <1>3 DEF Runs, b
    <3>4. QED BY <2>2, <3>1, <3>2, <3>3
  <2>3. 0 .. b \subseteq U
    <3> HIDE DEF U
    <3>1. QED BY <1>1, <2>1, <2>2, UpTo
  <2>4. QED BY <2>3
<1>7. g[a + b] = h[b]
  BY <1>1, <1>6
<1>8. QED BY <1>1, <1>3, <1>4, <1>7 DEF Runs, v, b

-----------------------------------------------------------------------------
(* The states of the processor, and the instructions emitted.               *)
AluOps == {"mov", "add", "sub", "imul", "and", "or", "xor", "not", "neg", "dec",
           "shl", "shr", "sar"}
Flags == [eq : BOOLEAN, below : BOOLEAN, less : BOOLEAN]
Cpus == [gpr : [Gpr -> Word], cmp : Flags, skip : BOOLEAN]
Sources == {Reg(x) : x \in Gpr} \cup {Imm(i) : i \in Int}
Instrs == [op : AluOps \cup Jumps \cup {"cmp", "bind"}, w : Widths, dst : Gpr, src : Sources]

(* The value of a source, and what op makes of x and of y: it depends on    *)
(* their low bits only.                                                     *)
Val(g, src) == IF src.reg THEN g[src.n] ELSE src.n
CountOf(w, y) == Low(W8, y) % (IF w = W64 THEN W64 ELSE W32)
AluOn(op, w, x, y) == Alu(op, w, Low(w, x), Low(w, y), CountOf(w, y))

(* A source operand is a number.                                            *)
LEMMA SourceValue ==
    ASSUME NEW g \in [Gpr -> Word], NEW src \in Sources
    PROVE  Val(g, src) \in Int
<1>1. \A x \in Word : x \in Int
  BY Power DEF Word
<1>2. CASE src \in {Reg(x) : x \in Gpr}
  <2>1. PICK x \in Gpr : src = Reg(x)
    BY <1>2
  <2>2. Val(g, src) = g[x]
    BY <2>1 DEF Val, Reg
  <2>3. QED BY <1>1, <2>2
<1>3. CASE src \in {Imm(i) : i \in Int}
  BY <1>3 DEF Val, Imm
<1>4. QED BY <1>2, <1>3 DEF Sources

(* A shift count has a power of two.                                        *)
LEMMA CountRange ==
    ASSUME NEW w \in Widths, NEW y \in Int
    PROVE  CountOf(w, y) \in 0 .. W64 /\ 2 ^ CountOf(w, y) \in Nat \ {0}
<1>1. W64 \in Nat \ {0} /\ W32 \in Nat \ {0} /\ W32 < W64 /\ W8 \in 0 .. W64
  BY WidthAssumption
<1>2. Low(W8, y) \in Int
  BY <1>1, LowRange
<1>3. Low(W8, y) % W64 \in 0 .. W64 - 1 /\ Low(W8, y) % W32 \in 0 .. W32 - 1
  BY <1>1, <1>2, ModRange
<1>4. CountOf(w, y) \in 0 .. W64
  BY <1>1, <1>3 DEF CountOf
<1>5. QED BY <1>4, Power

(* The processor's operations yield numbers.                                *)
LEMMA AluInt ==
    ASSUME NEW op \in AluOps, NEW w \in Widths, NEW x \in Int, NEW y \in Int
    PROVE  AluOn(op, w, x, y) \in Int
<1> DEFINE a == Low(w, x)
           b == Low(w, y)
           k == CountOf(w, y)
<1>1. w \in 0 .. W64 /\ w \in 1 .. W64
  BY WidthsInRange
<1>2. a \in Int /\ b \in Int /\ 2 ^ w \in Int /\ 2 ^ k \in Nat \ {0}
  <2>1. 2 ^ k \in Nat \ {0}
    BY CountRange
  <2>2. a \in Int /\ b \in Int
    BY <1>1, LowRange
  <2>3. 2 ^ w \in Int
    BY <1>1, Power
  <2>4. QED BY <2>1, <2>2, <2>3
<1>3. ToSigned(w, a) \in Int
  BY <1>1, <1>2, SignedLow
<1>4. BitAnd(a, b) \in Int /\ BitOr(a, b) \in Int /\ BitXor(a, b) \in Int
  BY <1>2, LogicRange
<1>5. a * 2 ^ k \in Int /\ a \div 2 ^ k \in Int /\ ToSigned(w, a) \div 2 ^ k \in Int
  <2> DEFINE m == 2 ^ k
             t == ToSigned(w, a)
  <2>1. m \in Nat \ {0} /\ a \in Int /\ t \in Int
    BY <1>2, <1>3
  <2> HIDE DEF m, t, a
  <2>2. a * m \in Int
    BY <2>1
  <2>3. a \div m \in Int /\ t \div m \in Int
    BY <2>1, ModRange
  <2>4. QED BY <2>2, <2>3 DEF m, t
<1> HIDE DEF a, b, k
<1>6. Alu(op, w, a, b, k) \in Int
  BY <1>2, <1>3, <1>4, <1>5 DEF AluOps, Alu
<1>7. QED BY <1>6 DEF AluOn, a, b, k

(* They depend on the low bits of their operands only.                      *)
LEMMA AluLow ==
    ASSUME NEW op \in AluOps, NEW w \in Widths,
           NEW x \in Int, NEW y \in Int, NEW u \in Int, NEW v \in Int,
           Low(w, x) = Low(w, u), Low(w, y) = Low(w, v)
    PROVE  AluOn(op, w, x, y) = AluOn(op, w, u, v)
<1>1. w \in 0 .. W64 /\ W8 \in 0 .. w
  BY WidthsInRange, WidthAssumption
<1>2. Low(W8, y) = Low(W8, v)
  BY <1>1, LowFewer
<1>3. QED BY <1>2 DEF AluOn, CountOf

(* What a write of w bits to a register changes.                            *)
LEMMA WriteEffect ==
    ASSUME NEW g \in [Gpr -> Word], NEW w \in Widths, NEW d \in Gpr, NEW x \in Int
    PROVE  /\ Write(g, w, d, x) \in [Gpr -> Word]
           /\ \A z \in Gpr \ {d} : Write(g, w, d, x)[z] = g[z]
           /\ Low(w, Write(g, w, d, x)[d]) = Low(w, x)
<1> DEFINE v == IF w \in {W32, W64} THEN Low(w, x) ELSE g[d] - Low(w, g[d]) + Low(w, x)
<1>1. w \in 0 .. W64
  BY WidthsInRange
<1>2. Low(w, x) \in Word /\ Low(w, Low(w, x)) = Low(w, x)
  BY <1>1, LowRange, LowId
<1>3. /\ g[d] - Low(w, g[d]) + Low(w, x) \in Word
      /\ Low(w, g[d] - Low(w, g[d]) + Low(w, x)) = Low(w, x)
  BY <1>1, LowReplaced
<1>4. v \in Word /\ Low(w, v) = Low(w, x)
  BY <1>2, <1>3
<1>5. Write(g, w, d, x) = [g EXCEPT ![d] = v]
  BY DEF Write
<1> HIDE DEF v
<1>6. QED BY <1>4, <1>5

(* What an instruction other than a jump or a comparison does to the        *)
(* processor, and the same of a piece of code: dst has low bits v, no other *)
(* register but those of scratch changes, and no flag.                      *)
Sets(cpu, new, scratch, dst, w, v) ==
    /\ new \in Cpus /\ new.skip = FALSE /\ new.cmp = cpu.cmp
    /\ \A z \in Gpr \ (scratch \cup {dst}) : new.gpr[z] = cpu.gpr[z]
    /\ Low(w, new.gpr[dst]) = Low(w, v)

(* An instruction neither comparison nor jump writes its destination.       *)
LEMMA AluStep ==
    ASSUME NEW cpu \in Cpus, cpu.skip = FALSE,
           NEW op \in AluOps, NEW w \in Widths, NEW dst \in Gpr, NEW src \in Sources
    PROVE  /\ Instr(op, w, dst, src) \in Instrs
           /\ Sets(cpu, ExecOne(cpu, Instr(op, w, dst, src)), {}, dst, w,
                   AluOn(op, w, cpu.gpr[dst], Val(cpu.gpr, src)))
<1> DEFINE i == Instr(op, w, dst, src)
           x == cpu.gpr[dst]
           y == Val(cpu.gpr, src)
           v == AluOn(op, w, x, y)
<1>1. /\ cpu.gpr \in [Gpr -> Word] /\ cpu.cmp \in Flags
      /\ cpu = [gpr |-> cpu.gpr, cmp |-> cpu.cmp, skip |-> FALSE]
  BY DEF Cpus
<1>2. i.op = op /\ i.w = w /\ i.dst = dst /\ i.src = src /\ i \in Instrs
  BY DEF Instr, Instrs
<1>3. x \in Int /\ y \in Int
  <2>1. \A z \in Word : z \in Int
    BY Power DEF Word
  <2>2. QED BY <1>1, <2>1, SourceValue
<1>4. v \in Int
  BY <1>3, AluInt
<1>5. op # "bind" /\ op \notin Jumps /\ op # "cmp"
  BY DEF AluOps, Jumps
<1>6. Alu(op, w, Operand(cpu.gpr, w, Reg(dst)), Operand(cpu.gpr, w, src),
          Count(cpu.gpr, w, src)) = v
  <2>1. Operand(cpu.gpr, w, Reg(dst)) = Low(w, x)
    BY DEF Operand, Reg
  <2>2. Operand(cpu.gpr, w, src) = Low(w, y) /\ Count(cpu.gpr, w, src) = CountOf(w, y)
    BY DEF Operand, Count, CountOf, Val
  <2>3. QED BY <2>1, <2>2 DEF AluOn
<1> HIDE DEF i, x, y, v
<1>7. ExecOne(cpu, i) = [cpu EXCEPT !.gpr = Write(@, w, dst, v)]
  BY <1>2, <1>5, <1>6 DEF ExecOne
<1>8. ExecOne(cpu, i) = [gpr |-> Write(cpu.gpr, w, dst, v), cmp |-> cpu.cmp, skip |-> FALSE]
  BY <1>1, <1>7
<1>9. /\ Write(cpu.gpr, w, dst, v) \in [Gpr -> Word]
      /\ \A z \in Gpr \ {dst} : Write(cpu.gpr, w, dst, v)[z] = cpu.gpr[z]
      /\ Low(w, Write(cpu.gpr, w, dst, v)[dst]) = Low(w, v)
  BY <1>1, <1>4, WriteEffect
<1>10. Sets(cpu, ExecOne(cpu, i), {}, dst, w, v)
  BY <1>1, <1>8, <1>9 DEF Sets, Cpus
<1>11. QED BY <1>2, <1>10 DEF i, x, y, v

-----------------------------------------------------------------------------
(* Pieces of code.                                                          *)
Ready == {cpu \in Cpus : cpu.skip = FALSE}
Does(cpu, s, scratch, dst, w, v) ==
    s \in Seq(Instrs) /\ Sets(cpu, Exec(cpu, s), scratch, dst, w, v)

(* Registers hold numbers.                                                  *)
LEMMA GprInt ==
    ASSUME NEW cpu \in Cpus, NEW x \in Gpr
    PROVE  cpu.gpr[x] \in Word /\ cpu.gpr[x] \in Int
<1>1. cpu.gpr \in [Gpr -> Word]
  BY DEF Cpus
<1>2. \A z \in Word : z \in Int
  BY Power DEF Word
<1>3. QED BY <1>1, <1>2

(* Code that is empty sets a register to what it holds.                     *)
LEMMA EmptyCode ==
    ASSUME NEW cpu \in Ready, NEW d \in Gpr, NEW w, NEW X
    PROVE  Does(cpu, << >>, X, d, w, cpu.gpr[d])
<1>1. << >> \in Seq(Instrs)
  OBVIOUS
<1>2. Exec(cpu, << >>) = cpu
  BY ExecEmpty
<1>3. QED BY <1>1, <1>2 DEF Does, Sets, Ready

(* Code of one operation.                                                   *)
LEMMA AluCode ==
    ASSUME NEW cpu \in Ready, NEW op \in AluOps, NEW w \in Widths, NEW dst \in Gpr,
           NEW src \in Sources
    PROVE  Does(cpu, <<Instr(op, w, dst, src)>>, {}, dst, w,
                AluOn(op, w, cpu.gpr[dst], Val(cpu.gpr, src)))
<1>1. cpu \in Cpus /\ cpu.skip = FALSE
  BY DEF Ready
<1> DEFINE i == Instr(op, w, dst, src)
<1>2. i \in Instrs /\ Sets(cpu, ExecOne(cpu, i), {}, dst, w,
                           AluOn(op, w, cpu.gpr[dst], Val(cpu.gpr, src)))
  BY <1>1, AluStep
<1> HIDE DEF i
<1>3. Exec(cpu, <<i>>) = ExecOne(cpu, i)
  BY ExecSingle
<1>4. <<i>> \in Seq(Instrs)
  BY <1>2
<1>5. Does(cpu, <<i>>, {}, dst, w, AluOn(op, w, cpu.gpr[dst], Val(cpu.gpr, src)))
  BY <1>2, <1>3, <1>4 DEF Does
<1>6. QED BY <1>5 DEF i

(* Code that does one thing and then another.                               *)
LEMMA ThenCode ==
    ASSUME NEW cpu \in Cpus, NEW s, NEW u, NEW X, NEW Y, NEW Z,
           NEW c, NEW d, NEW v, NEW w, NEW x, NEW y,
           Does(cpu, s, X, c, v, x), Does(Exec(cpu, s), u, Y, d, w, y),
           X \cup Y \cup {c} \subseteq Z \cup {d}
    PROVE  Does(cpu, s \o u, Z, d, w, y)
<1>1. s \in Seq(Instrs) /\ u \in Seq(Instrs) /\ s \o u \in Seq(Instrs)
  BY DEF Does
<1>2. Exec(cpu, s \o u) = Exec(Exec(cpu, s), u)
  BY <1>1, ExecConcat
<1> DEFINE one == Exec(cpu, s)
           two == Exec(one, u)
<1>3. Sets(cpu, one, X, c, v, x) /\ Sets(one, two, Y, d, w, y)
  BY DEF Does
<1> HIDE DEF one, two
<1>4. Sets(cpu, two, Z, d, w, y)
  BY <1>3 DEF Sets
<1>5. QED BY <1>1, <1>2, <1>4 DEF Does, one, two

(* After such code the processor goes on with the next instruction.         *)
LEMMA ReadyAfter ==
    ASSUME NEW cpu, NEW s, NEW X, NEW d, NEW w, NEW v, Does(cpu, s, X, d, w, v)
    PROVE  Exec(cpu, s) \in Ready
BY DEF Does, Sets, Ready

(* Registers and immediates are sources.                                    *)
LEMMA RegSource ==
    /\ \A x \in Gpr : Reg(x) \in Sources /\ \A g : Val(g, Reg(x)) = g[x]
    /\ \A i \in Int : Imm(i) \in Sources /\ \A g : Val(g, Imm(i)) = i
<1>1. \A x \in Gpr : Reg(x) \in Sources /\ \A g : Val(g, Reg(x)) = g[x]
  BY DEF Sources, Reg, Val
<1>2. \A i \in Int : Imm(i) \in Sources /\ \A g : Val(g, Imm(i)) = i
  BY DEF Sources, Imm, Val
<1>3. QED BY <1>1, <1>2

(* What mov computes is its source.                                         *)
LEMMA MovValue ==
    ASSUME NEW w \in Widths, NEW x \in Int, NEW y \in Int
    PROVE  Low(w, AluOn("mov", w, x, y)) = Low(w, y)
<1>1. w \in 0 .. W64
  BY WidthsInRange
<1>2. AluOn("mov", w, x, y) = Low(w, y)
  BY DEF AluOn, Alu
<1>3. QED BY <1>1, <1>2, LowRange, LowId

(* A move, at the width of its type or of the whole register.               *)
LEMMA MoveCode ==
    ASSUME NEW cpu \in Ready, NEW w \in Widths, NEW d \in Gpr, NEW x \in Gpr
    PROVE  Does(cpu, IF d # x THEN << Instr("mov", w, d, Reg(x)) >> ELSE << >>,
                {}, d, w, cpu.gpr[x])
<1>1. CASE d = x
  BY <1>1, EmptyCode
<1>2. CASE d # x
  <2>1. Does(cpu, << Instr("mov", w, d, Reg(x)) >>, {}, d, w,
             AluOn("mov", w, cpu.gpr[d], cpu.gpr[x]))
    <3>1. "mov" \in AluOps
      BY DEF AluOps
    <3>2. QED BY <3>1, RegSource, AluCode
  <2>2. Low(w, AluOn("mov", w, cpu.gpr[d], cpu.gpr[x])) = Low(w, cpu.gpr[x])
    <3>1. cpu.gpr[d] \in Int /\ cpu.gpr[x] \in Int
      BY GprInt DEF Ready
    <3>2. QED BY <3>1, MovValue
  <2>3. QED BY <1>2, <2>1, <2>2 DEF Does, Sets
<1>3. QED BY <1>1, <1>2

(* A piece of code sets low bits of a value if it sets more of them.        *)
LEMMA FewerSet ==
    ASSUME NEW cpu \in Cpus, NEW s, NEW X, NEW d \in Gpr, NEW m \in Widths,
           NEW w \in Widths, w <= m, NEW v \in Int, Does(cpu, s, X, d, m, v)
    PROVE  Does(cpu, s, X, d, w, v)
<1> DEFINE new == Exec(cpu, s)
<1>1. Sets(cpu, new, X, d, m, v)
  BY DEF Does
<1> HIDE DEF new
<1>2. new.gpr[d] \in Int /\ Low(m, new.gpr[d]) = Low(m, v)
  BY <1>1, GprInt DEF Sets
<1>3. m \in 0 .. W64 /\ w \in 0 .. m
  BY WidthsInRange
<1>4. Low(w, new.gpr[d]) = Low(w, v)
  BY <1>2, <1>3, LowFewer
<1>5. Sets(cpu, new, X, d, w, v)
  BY <1>1, <1>4 DEF Sets
<1>6. QED BY <1>5 DEF Does, new

(* The width of a type is one of the four.                                  *)
LEMMA TypeWidth ==
    \A t \in IntTypes : /\ Width(t) \in Widths /\ Width(t) \in 1 .. W64 /\ Width(t) \in 0 .. W64
                        /\ W8 \in 0 .. Width(t)
<1>1. \A w \in Widths : w \in 1 .. W64 /\ w \in 0 .. W64 /\ W8 \in 0 .. w
  BY WidthsInRange, WidthAssumption
<1>2. QED BY <1>1, WidthsInRange

(* What emit_movr emits moves.                                              *)
LEMMA MovrCode ==
    ASSUME NEW cpu \in Ready, NEW t \in IntTypes, NEW d \in Gpr, NEW x \in Gpr
    PROVE  Does(cpu, emit_movr(t, d, x), {}, d, Width(t), cpu.gpr[x])
BY TypeWidth, MoveCode DEF emit_movr, RR

(* What emit_src emits, nothing if the registers are the same, moves.       *)
LEMMA SrcCode ==
    ASSUME NEW cpu \in Ready, NEW w \in Widths, NEW d \in Gpr, NEW x \in Gpr
    PROVE  Does(cpu, emit_src(d, x), {}, d, w, cpu.gpr[x])
<1>1. W64 \in Widths
  BY DEF Widths
<1>2. Does(cpu, emit_src(d, x), {}, d, W64, cpu.gpr[x])
  BY <1>1, MoveCode DEF emit_src
<1>3. cpu \in Cpus /\ w <= W64
  BY WidthsInRange DEF Ready
<1>4. QED BY <1>1, <1>2, <1>3, FewerSet, GprInt

(* A value may be replaced by one with the same low bits, and code that     *)
(* uses no scratch registers may be said to use some.                       *)
LEMMA Revalue ==
    ASSUME NEW cpu, NEW s, NEW X, NEW d, NEW w, NEW v, NEW u,
           Does(cpu, s, X, d, w, v), Low(w, v) = Low(w, u)
    PROVE  Does(cpu, s, X, d, w, u)
BY DEF Does, Sets

(* An operation on a register and an immediate, or on a register alone.     *)
LEMMA ImmediateCode ==
    ASSUME NEW cpu \in Ready, NEW op \in AluOps, NEW t \in IntTypes,
           NEW d \in Gpr, NEW i \in Int
    PROVE  Does(cpu, RI(op, t, d, i), {}, d, Width(t), AluOn(op, Width(t), cpu.gpr[d], i))
<1>1. Imm(i) \in Sources /\ Val(cpu.gpr, Imm(i)) = i
  BY RegSource
<1>2. QED BY <1>1, TypeWidth, AluCode DEF RI

(* An operation on two registers.                                           *)
LEMMA RegisterCode ==
    ASSUME NEW cpu \in Ready, NEW op \in AluOps, NEW t \in IntTypes,
           NEW d \in Gpr, NEW x \in Gpr
    PROVE  Does(cpu, RR(op, t, d, x), {}, d, Width(t),
                AluOn(op, Width(t), cpu.gpr[d], cpu.gpr[x]))
<1>1. Reg(x) \in Sources /\ Val(cpu.gpr, Reg(x)) = cpu.gpr[x]
  BY RegSource
<1>2. QED BY <1>1, TypeWidth, AluCode DEF RR

(* A source moved into the destination, and then an operation.              *)
LEMMA SrcThen ==
    ASSUME NEW cpu \in Ready, NEW op \in AluOps, NEW t \in IntTypes,
           NEW d \in Gpr, NEW x \in Gpr, NEW i \in Int, NEW u,
           \A c \in Ready : Does(c, u, {}, d, Width(t), AluOn(op, Width(t), c.gpr[d], i))
    PROVE  Does(cpu, emit_src(d, x) \o u, {}, d, Width(t), AluOn(op, Width(t), cpu.gpr[x], i))
<1> DEFINE w == Width(t)
           one == Exec(cpu, emit_src(d, x))
<1>1. w \in Widths /\ cpu \in Cpus
  BY TypeWidth DEF Ready
<1>2. Does(cpu, emit_src(d, x), {}, d, w, cpu.gpr[x])
  BY <1>1, SrcCode
<1>3. one \in Ready
  BY <1>2, ReadyAfter
<1>4. Does(one, u, {}, d, w, AluOn(op, w, one.gpr[d], i))
  BY <1>3
<1>5. AluOn(op, w, one.gpr[d], i) = AluOn(op, w, cpu.gpr[x], i)
  <2>1. Low(w, one.gpr[d]) = Low(w, cpu.gpr[x])
    BY <1>2 DEF Does, Sets
  <2>2. one.gpr[d] \in Int /\ cpu.gpr[x] \in Int
    BY <1>1, <1>3, GprInt DEF Ready
  <2> HIDE DEF one, w
  <2>3. QED BY <1>1, <2>1, <2>2, AluLow
<1>6. Does(one, u, {}, d, w, AluOn(op, w, cpu.gpr[x], i))
  BY <1>4, <1>5
<1>7. QED BY <1>1, <1>2, <1>6, ThenCode

(* A source moved, and an operation with an immediate.                      *)
LEMMA SrcImmediateCode ==
    ASSUME NEW cpu \in Ready, NEW op \in AluOps, NEW t \in IntTypes,
           NEW d \in Gpr, NEW x \in Gpr, NEW i \in Int
    PROVE  Does(cpu, emit_src(d, x) \o RI(op, t, d, i), {}, d, Width(t),
                AluOn(op, Width(t), cpu.gpr[x], i))
BY ImmediateCode, SrcThen

(* What the commutative operations compute, and that they are.              *)
Commutative == {"add", "and", "or", "xor", "imul"}

(* Commutative operations of the processor commute.                         *)
LEMMA AluCommutes ==
    ASSUME NEW op \in Commutative, NEW w \in Widths, NEW x \in Int, NEW y \in Int
    PROVE  Low(w, AluOn(op, w, x, y)) = Low(w, AluOn(op, w, y, x))
<1> DEFINE a == Low(w, x)
           b == Low(w, y)
<1>1. w \in 0 .. W64
  BY WidthsInRange
<1>2. a \in Int /\ b \in Int
  BY <1>1, LowRange
<1>3. /\ Low(w, BitAnd(a, b)) = Low(w, BitAnd(b, a))
      /\ Low(w, BitOr(a, b)) = Low(w, BitOr(b, a))
      /\ Low(w, BitXor(a, b)) = Low(w, BitXor(b, a))
  BY <1>1, <1>2, LogicCommutes
<1>4. a + b = b + a /\ a * b = b * a
  BY <1>2
<1>5. \A h, k : Low(w, Alu(op, w, a, b, h)) = Low(w, Alu(op, w, b, a, k))
  <2> HIDE DEF a, b
  <2>1. QED BY <1>3, <1>4 DEF Commutative, Alu
<1>6. QED BY <1>5 DEF AluOn

(* Two sources of which one may be the destination.                         *)
LEMMA OneSrcThen ==
    ASSUME NEW cpu \in Ready, NEW op \in Commutative, NEW t \in IntTypes,
           NEW d \in Gpr, NEW x \in Gpr, NEW y \in Gpr, NEW u,
           \A c \in Ready : Does(c, u, {}, d, Width(t),
                                 AluOn(op, Width(t), c.gpr[d], c.gpr[one_src(d, x, y)]))
    PROVE  Does(cpu, emit_one_src(t, d, x, y) \o u, {}, d,
                Width(t), AluOn(op, Width(t), cpu.gpr[x], cpu.gpr[y]))
<1> DEFINE w == Width(t)
           first == emit_one_src(t, d, x, y)
           o == one_src(d, x, y)
           one == Exec(cpu, first)
           from == IF d \in {x, y} THEN d ELSE x
<1>1. w \in Widths /\ w \in 0 .. W64 /\ cpu \in Cpus /\ op \in AluOps /\ o \in Gpr
  BY TypeWidth DEF Ready, Commutative, AluOps, one_src
<1>2. Does(cpu, first, {}, d, w, cpu.gpr[from])
  BY EmptyCode, MovrCode DEF emit_one_src
<1>3. one \in Ready
  BY <1>2, ReadyAfter
<1>4. Does(one, u, {}, d, w, AluOn(op, w, one.gpr[d], one.gpr[o]))
  BY <1>3
<1>5. Low(w, AluOn(op, w, one.gpr[d], one.gpr[o])) = Low(w, AluOn(op, w, cpu.gpr[x], cpu.gpr[y]))
  <2>1. /\ \A z \in Gpr : one.gpr[z] \in Int /\ cpu.gpr[z] \in Int
        /\ \A z \in Gpr \ {d} : one.gpr[z] = cpu.gpr[z]
        /\ Low(w, one.gpr[d]) = Low(w, cpu.gpr[from])
    <3>1. \A z \in Gpr : one.gpr[z] \in Int /\ cpu.gpr[z] \in Int
      BY <1>1, <1>3, GprInt DEF Ready
    <3>2. QED BY <1>2, <3>1 DEF Does, Sets
  <2> HIDE DEF one, w
  <2>2. CASE from = x /\ o = y
    <3>1. Low(w, one.gpr[o]) = Low(w, cpu.gpr[y])
      BY <2>1, <2>2 DEF one_src
    <3>2. QED BY <1>1, <2>1, <2>2, <3>1, AluLow
  <2>3. CASE from = y /\ o = x
    <3>1. Low(w, one.gpr[o]) = Low(w, cpu.gpr[x])
      BY <2>1, <2>3 DEF one_src
    <3>2. AluOn(op, w, one.gpr[d], one.gpr[o]) = AluOn(op, w, cpu.gpr[y], cpu.gpr[x])
      BY <1>1, <2>1, <2>3, <3>1, AluLow
    <3>3. QED BY <1>1, <2>1, <3>2, AluCommutes
  <2>4. (from = x /\ o = y) \/ (from = y /\ o = x)
    BY DEF one_src
  <2>5. QED BY <2>2, <2>3, <2>4
<1>6. Does(one, u, {}, d, w, AluOn(op, w, cpu.gpr[x], cpu.gpr[y]))
  BY <1>4, <1>5, Revalue
<1>7. QED BY <1>1, <1>2, <1>6, ThenCode

(* A commutative operation on two registers, whatever the aliasing.         *)
LEMMA OneSrcCode ==
    ASSUME NEW cpu \in Ready, NEW op \in Commutative, NEW t \in IntTypes,
           NEW d \in Gpr, NEW x \in Gpr, NEW y \in Gpr
    PROVE  Does(cpu, emit_one_src(t, d, x, y) \o RR(op, t, d, one_src(d, x, y)), {}, d,
                Width(t), AluOn(op, Width(t), cpu.gpr[x], cpu.gpr[y]))
<1>1. op \in AluOps /\ one_src(d, x, y) \in Gpr
  BY DEF Commutative, AluOps, one_src
<1>2. QED BY <1>1, RegisterCode, OneSrcThen

(* Products of bytes are taken in sixteen bits.                             *)
LEMMA ImulCode ==
    ASSUME NEW cpu \in Ready, NEW t \in IntTypes, NEW d \in Gpr, NEW src \in Sources
    PROVE  Does(cpu, imul(t, d, src), {}, d, Width(t),
                AluOn("imul", Width(t), cpu.gpr[d], Val(cpu.gpr, src)))
<1>1. "imul" \in AluOps /\ "and" \in AluOps /\ W16 \in Widths /\ W8 \in Widths
      /\ W8 \in 0 .. W64 /\ W16 \in 0 .. W64 /\ W8 \in 0 .. W16 /\ W8 <= W16
  BY WidthsInRange, WidthAssumption DEF AluOps, Widths
<1>2. CASE Width(t) # W8
  BY <1>1, <1>2, TypeWidth, AluCode DEF imul
<1>3. CASE Width(t) = W8
  <2> DEFINE s == << Instr("and", W16, d, Imm(2 ^ W8 - 1)) >>
             u == << Instr("imul", W16, d, src) >>
             one == Exec(cpu, s)
             g == cpu.gpr[d]
             h == one.gpr[d]
             y == Val(cpu.gpr, src)
             z == Val(one.gpr, src)
             k == 2 ^ W8 - 1
             v == AluOn("and", W16, g, k)
             b == AluOn("imul", W16, h, z)
  <2>1. imul(t, d, src) = s \o u
    BY <1>3 DEF imul
  <2>2. k \in Int /\ Imm(k) \in Sources /\ Val(cpu.gpr, Imm(k)) = k
    <3>1. k \in Int
      BY <1>1, Power
    <3> HIDE DEF k
    <3>2. QED BY <3>1, RegSource
  <2>3. Does(cpu, s, {}, d, W16, v)
    <3> HIDE DEF k
    <3>1. Does(cpu, << Instr("and", W16, d, Imm(k)) >>, {}, d, W16,
               AluOn("and", W16, cpu.gpr[d], Val(cpu.gpr, Imm(k))))
      BY <1>1, <2>2, AluCode
    <3>2. QED BY <2>2, <3>1 DEF k
  <2>4. cpu \in Cpus /\ one \in Ready /\ one \in Cpus /\ one.gpr \in [Gpr -> Word]
        /\ cpu.gpr \in [Gpr -> Word]
    BY <2>3, ReadyAfter DEF Ready, Cpus
  <2>5. g \in Int /\ h \in Int /\ y \in Int /\ z \in Int
    BY <2>4, GprInt, SourceValue
  <2>6. Does(one, u, {}, d, W16, b)
    BY <1>1, <2>4, AluCode
  <2>7. Low(W16, h) = Low(W16, v) /\ \A x \in Gpr \ {d} : one.gpr[x] = cpu.gpr[x]
    BY <2>3 DEF Does, Sets
  <2> DEFINE ones == 2 ^ W64 - 1
  <2>8. Low(W8, v) = Low(W8, g)
    <3>1. v = BitAnd(Low(W16, g), Low(W16, k))
      BY DEF AluOn, Alu
    <3>2. Low(W8, Low(W16, g)) = Low(W8, g) /\ Low(W8, Low(W16, k)) = Low(W8, k)
          /\ Low(W16, g) \in Int /\ Low(W16, k) \in Int
      BY <1>1, <2>2, <2>5, LowOfLow, LowRange
    <3>3. Low(W8, k) = Low(W8, ones) /\ ones \in Int
      <4>1. PICK j \in Nat \ {0} : 2 ^ W64 = 2 ^ W8 * j
        BY <1>1, Power
      <4>2. 2 ^ W8 \in Int /\ ones = k + 2 ^ W8 * (j - 1) /\ j - 1 \in Int /\ ones \in Int
        BY <1>1, <4>1, Power
      <4>3. Low(W8, ones) = Low(W8, k)
        <5> HIDE DEF ones, k
        <5>1. QED BY <1>1, <2>2, <4>2, LowSame
      <4>4. QED BY <4>2, <4>3
    <3>4. Low(W8, BitAnd(Low(W16, g), Low(W16, k))) = Low(W8, BitAnd(g, ones))
      <4> HIDE DEF g, k, ones
      <4>1. QED BY <1>1, <2>5, <3>2, <3>3, LowLogic
    <3>5. Low(W8, BitAnd(g, ones)) = Low(W8, g)
      BY <1>1, <2>5, LogicConstants
    <3>6. QED BY <3>1, <3>4, <3>5
  <2>9. v \in Int /\ b \in Int
    <3> HIDE DEF g, h, y, z, k
    <3>1. QED BY <1>1, <2>2, <2>5, AluInt
  <2>10. Low(W8, h) = Low(W8, g)
    <3> HIDE DEF g, h, v
    <3>1. Low(W8, h) = Low(W8, v)
      BY <1>1, <2>5, <2>7, <2>9, LowFewer
    <3>2. QED BY <2>8, <3>1
  <2>11. Low(W8, z) = Low(W8, y)
    <3>1. CASE src \in {Reg(x) : x \in Gpr}
      <4>1. PICK x \in Gpr : src = Reg(x)
        BY <3>1
      <4>2. y = cpu.gpr[x] /\ z = one.gpr[x]
        BY <4>1, RegSource
      <4>3. CASE x = d
        BY <2>10, <4>2, <4>3
      <4>4. CASE x # d
        BY <2>7, <4>2, <4>4
      <4>5. QED BY <4>3, <4>4
    <3>2. CASE src \in {Imm(i) : i \in Int}
      BY <3>2, RegSource
    <3>3. QED BY <3>1, <3>2 DEF Sources
  <2>12. Low(W8, b) = Low(W8, AluOn("imul", W8, g, y))
    <3> HIDE DEF g, h, y, z
    <3>1. b = Low(W16, h) * Low(W16, z)
          /\ AluOn("imul", W8, g, y) = Low(W8, g) * Low(W8, y)
      BY DEF AluOn, Alu
    <3>2. /\ Low(W8, Low(W16, h)) = Low(W8, h) /\ Low(W8, Low(W16, z)) = Low(W8, z)
          /\ Low(W8, Low(W8, g)) = Low(W8, g) /\ Low(W8, Low(W8, y)) = Low(W8, y)
      <4>1. W8 \in 0 .. W8
        BY <1>1
      <4>2. QED BY <1>1, <2>5, <4>1, LowOfLow
    <3>3. /\ Low(W16, h) \in Int /\ Low(W16, z) \in Int /\ Low(W8, g) \in Int
          /\ Low(W8, y) \in Int
      BY <1>1, <2>5, LowRange
    <3>4. QED BY <1>1, <2>10, <2>11, <3>1, <3>2, <3>3, LowArithmetic
  <2>13. Does(one, u, {}, d, W8, b)
    <3> HIDE DEF one, u, b
    <3>1. QED BY <1>1, <2>4, <2>6, <2>9, FewerSet
  <2>14. Does(one, u, {}, d, W8, AluOn("imul", W8, g, y))
    BY <2>12, <2>13, Revalue
  <2>15. Does(cpu, s \o u, {}, d, W8, AluOn("imul", W8, g, y))
    <3> HIDE DEF s, u, v, g, y
    <3>1. QED BY <2>3, <2>4, <2>14, ThenCode
  <2>16. QED BY <1>3, <2>1, <2>15
<1>4. QED BY <1>2, <1>3

-----------------------------------------------------------------------------
(* The operations of the emulator compute what those of the processor do.   *)
LEMMA FieldLow ==
    ASSUME NEW t \in IntTypes, NEW x \in Int
    PROVE  /\ Field(t, x) \in Int
           /\ Low(Width(t), Field(t, x)) = Low(Width(t), x)
<1>1. Width(t) \in 1 .. W64 /\ Width(t) \in 0 .. W64
  BY TypeWidth
<1>2. Low(Width(t), x) \in Int /\ Low(Width(t), Low(Width(t), x)) = Low(Width(t), x)
  BY <1>1, LowRange, LowId
<1>3. ToSigned(Width(t), x) \in Int /\ Low(Width(t), ToSigned(Width(t), x)) = Low(Width(t), x)
  BY <1>1, SignedLow
<1>4. QED BY <1>2, <1>3 DEF Field

(* Signed and unsigned types of the same width.                             *)
LEMMA TypesOfWidth ==
    \A t \in IntTypes : /\ Unsigned(t) \in UnsignedTypes /\ Unsigned(t) \in IntTypes
                        /\ SignedOf(t) \in SignedTypes /\ SignedOf(t) \in IntTypes
                        /\ SignedOf(t) \notin UnsignedTypes
                        /\ Width(Unsigned(t)) = Width(t) /\ Width(SignedOf(t)) = Width(t)
<1> SUFFICES ASSUME NEW t \in IntTypes
             PROVE  /\ Unsigned(t) \in UnsignedTypes /\ Unsigned(t) \in IntTypes
                    /\ SignedOf(t) \in SignedTypes /\ SignedOf(t) \in IntTypes
                    /\ SignedOf(t) \notin UnsignedTypes
                    /\ Width(Unsigned(t)) = Width(t) /\ Width(SignedOf(t)) = Width(t)
  OBVIOUS
<1>1. CASE t \in {"UINT8", "INT8"}
  BY <1>1 DEF IntTypes, UnsignedTypes, SignedTypes, Unsigned, SignedOf, Width
<1>2. CASE t \in {"UINT16", "INT16"}
  BY <1>2 DEF IntTypes, UnsignedTypes, SignedTypes, Unsigned, SignedOf, Width
<1>3. CASE t \in {"UINT32", "INT32"}
  BY <1>3 DEF IntTypes, UnsignedTypes, SignedTypes, Unsigned, SignedOf, Width
<1>4. CASE t \in {"UINT64", "INT64"}
  BY <1>4 DEF IntTypes, UnsignedTypes, SignedTypes, Unsigned, SignedOf, Width
<1>5. QED BY <1>1, <1>2, <1>3, <1>4 DEF IntTypes, UnsignedTypes, SignedTypes

(* Sums, differences, products, negation.                                   *)
LEMMA AluArithmetic ==
    ASSUME NEW w \in Widths, NEW x \in Int, NEW y \in Int, NEW u \in Int, NEW v \in Int,
           Low(w, x) = Low(w, u), Low(w, y) = Low(w, v)
    PROVE  /\ Low(w, AluOn("add", w, x, y)) = Low(w, op_("add", u, v))
           /\ Low(w, AluOn("sub", w, x, y)) = Low(w, op_("sub", u, v))
           /\ Low(w, AluOn("imul", w, x, y)) = Low(w, op_("mul", u, v))
           /\ Low(w, AluOn("neg", w, x, y)) = Low(w, op_neg(u))
<1> DEFINE a == Low(w, x)
           b == Low(w, y)
<1>1. w \in 0 .. W64 /\ w \in 0 .. w
  BY WidthsInRange
<1>2. a \in Int /\ b \in Int /\ Low(w, a) = Low(w, u) /\ Low(w, b) = Low(w, v)
  BY <1>1, LowRange, LowOfLow
<1> HIDE DEF a, b
<1>3. /\ Low(w, a + b) = Low(w, u + v)
      /\ Low(w, a - b) = Low(w, u - v)
      /\ Low(w, a * b) = Low(w, u * v)
  BY <1>1, <1>2, LowArithmetic
<1>4. Low(w, 2 ^ w - a) = Low(w, -u)
  <2>1. 2 ^ w \in Int /\ -u \in Int /\ -a \in Int /\ 2 ^ w - a \in Int /\ 0 \in Int
        /\ -a = 0 - a /\ -u = 0 - u
    BY <1>1, <1>2, Power
  <2>2. 2 ^ w - a = -a + 2 ^ w * 1
    BY <1>2, <2>1
  <2>3. Low(w, 2 ^ w - a) = Low(w, -a)
    BY <1>1, <2>1, <2>2, LowSame
  <2>4. Low(w, 0 - a) = Low(w, 0 - u)
    <3> DEFINE zero == 0
    <3>1. zero \in Int /\ Low(w, zero) \in Int
      BY <1>1, LowRange
    <3> HIDE DEF zero
    <3>2. Low(w, zero - a) = Low(w, zero - u)
      BY <1>1, <1>2, <3>1, LowArithmetic
    <3>3. QED BY <3>2 DEF zero
  <2>5. QED BY <2>1, <2>3, <2>4
<1>5. /\ AluOn("add", w, x, y) = a + b /\ AluOn("sub", w, x, y) = a - b
      /\ AluOn("imul", w, x, y) = a * b /\ AluOn("neg", w, x, y) = 2 ^ w - a
  BY DEF AluOn, Alu, a, b
<1>6. op_("add", u, v) = u + v /\ op_("sub", u, v) = u - v /\ op_("mul", u, v) = u * v
      /\ op_neg(u) = -u
  BY DEF op_, op_neg
<1>7. QED BY <1>3, <1>4, <1>5, <1>6

(* Bitwise operations.                                                      *)
LEMMA AluLogic ==
    ASSUME NEW w \in Widths, NEW x \in Int, NEW y \in Int, NEW u \in Int, NEW v \in Int,
           Low(w, x) = Low(w, u), Low(w, y) = Low(w, v)
    PROVE  /\ Low(w, AluOn("and", w, x, y)) = Low(w, op_("band", u, v))
           /\ Low(w, AluOn("or", w, x, y)) = Low(w, op_("bor", u, v))
           /\ Low(w, AluOn("xor", w, x, y)) = Low(w, op_("bxor", u, v))
           /\ Low(w, AluOn("not", w, x, y)) = Low(w, op_bnot(u))
<1> DEFINE a == Low(w, x)
           b == Low(w, y)
           c == Low(W64, u)
           d == Low(W64, v)
<1>1. w \in 0 .. W64 /\ w \in 0 .. w /\ W64 \in 0 .. W64
  BY WidthsInRange, Power
<1>2. /\ a \in Int /\ b \in Int /\ Low(w, a) = Low(w, u) /\ Low(w, b) = Low(w, v)
      /\ c \in Int /\ d \in Int /\ Low(w, c) = Low(w, u) /\ Low(w, d) = Low(w, v)
  BY <1>1, LowRange, LowOfLow
<1> HIDE DEF a, b, c, d
<1>3. /\ Low(w, BitAnd(a, b)) = Low(w, BitAnd(c, d))
      /\ Low(w, BitOr(a, b)) = Low(w, BitOr(c, d))
      /\ Low(w, BitXor(a, b)) = Low(w, BitXor(c, d))
  BY <1>1, <1>2, LowLogic
<1>4. Low(w, 2 ^ w - 1 - a) = Low(w, 2 ^ W64 - 1 - c)
  <2>1. PICK k \in Nat \ {0} : 2 ^ W64 = 2 ^ w * k
    BY <1>1, Power
  <2> DEFINE m == 2 ^ w
             e == m - 1
             f == m * k - 1
  <2>2. m \in Int /\ e \in Int /\ f \in Int
    BY <1>1, Power
  <2>3. f = e + m * (k - 1) /\ k - 1 \in Int
    BY <2>2
  <2> HIDE DEF e, f
  <2>4. Low(w, e) = Low(w, f)
    BY <1>1, <2>2, <2>3, LowSame
  <2>5. Low(w, e - a) = Low(w, f - c)
    BY <1>1, <1>2, <2>2, <2>4, LowArithmetic
  <2>6. QED BY <2>1, <2>5 DEF e, f
<1>5. /\ AluOn("and", w, x, y) = BitAnd(a, b) /\ AluOn("or", w, x, y) = BitOr(a, b)
      /\ AluOn("xor", w, x, y) = BitXor(a, b) /\ AluOn("not", w, x, y) = 2 ^ w - 1 - a
  BY DEF AluOn, Alu, a, b
<1>6. op_("band", u, v) = BitAnd(c, d) /\ op_("bor", u, v) = BitOr(c, d)
      /\ op_("bxor", u, v) = BitXor(c, d) /\ op_bnot(u) = 2 ^ W64 - 1 - c
  BY DEF op_, op_bnot, Bits, c, d
<1>7. QED BY <1>3, <1>4, <1>5, <1>6

(* Shifts by a count that C defines.                                        *)
ShiftWidth(w) == IF w = W64 THEN W64 ELSE W32

(* A count that C defines is not changed by the processor.                  *)
LEMMA CountExact ==
    ASSUME NEW w \in Widths, NEW y \in Int, NEW k \in 0 .. ShiftWidth(w) - 1,
           Low(W8, y) = Low(W8, k)
    PROVE  CountOf(w, y) = k
<1>1. W8 \in 0 .. W64 /\ W8 \in 1 .. W64 /\ W64 \in Nat \ {0} /\ W32 \in Nat \ {0} /\ W32 < W64
  BY WidthAssumption
<1>2. W64 <= 2 ^ (W8 - 1) /\ 2 ^ W8 = 2 * 2 ^ (W8 - 1) /\ 2 ^ (W8 - 1) \in Nat
  <2>1. W8 - 1 \in 0 .. W64
    BY <1>1
  <2>2. QED BY <1>1, <2>1, Power, CountAssumption
<1>3. k \in 0 .. 2 ^ W8 - 1 /\ k \in Int
  BY <1>1, <1>2 DEF ShiftWidth
<1>4. Low(W8, k) = k
  BY <1>1, <1>3, LowId
<1> DEFINE m == ShiftWidth(w)
<1>5. m \in Nat \ {0} /\ k \in 0 .. m - 1
  BY <1>1 DEF ShiftWidth
<1> HIDE DEF m
<1>6. k = m * 0 + k /\ 0 \in Int
  BY <1>5
<1>7. k % m = k
  BY <1>3, <1>5, <1>6, ModUnique
<1>8. QED BY <1>4, <1>7 DEF CountOf, ShiftWidth, m

(* Shifts left by such a count.                                             *)
LEMMA AluShift ==
    ASSUME NEW w \in Widths, NEW x \in Int, NEW y \in Int, NEW k \in 0 .. ShiftWidth(w) - 1,
           Low(W8, y) = Low(W8, k), NEW u \in Int, Low(w, x) = Low(w, u)
    PROVE  Low(w, AluOn("shl", w, x, y)) = Low(w, op_("sll", u, k))
<1>1. CountOf(w, y) = k
  BY CountExact
<1>2. w \in 0 .. W64 /\ w \in 0 .. w /\ w \in 1 .. W64
  BY WidthsInRange
<1>3. 2 ^ k \in Int
  <2>1. k \in 0 .. W64
    BY WidthAssumption DEF ShiftWidth
  <2>2. QED BY <2>1, Power
<1>4. Low(w, x) \in Int /\ Low(w, Low(w, x)) = Low(w, u)
  BY <1>2, LowRange, LowOfLow
<1>5. Low(w, Low(w, x) * 2 ^ k) = Low(w, u * 2 ^ k)
  <2> DEFINE a == Low(w, x)
             h == 2 ^ k
  <2>1. a \in Int /\ h \in Int /\ Low(w, h) \in Int /\ Low(w, a) = Low(w, u)
    BY <1>2, <1>3, <1>4, LowRange
  <2> HIDE DEF a, h
  <2>2. Low(w, a * h) = Low(w, u * h)
    BY <1>2, <2>1, LowArithmetic
  <2>3. QED BY <2>2 DEF a, h
<1>6. AluOn("shl", w, x, y) = Low(w, x) * 2 ^ k
  BY <1>1 DEF AluOn, Alu
<1>7. op_("sll", u, k) = u * 2 ^ k
  BY DEF op_
<1>8. QED BY <1>5, <1>6, <1>7

(* Shifts right, of the low bits or of the signed reading.                  *)
LEMMA AluShiftRight ==
    ASSUME NEW w \in Widths, NEW x \in Int, NEW y \in Int, NEW k \in 0 .. ShiftWidth(w) - 1,
           Low(W8, y) = Low(W8, k)
    PROVE  /\ AluOn("shr", w, x, y) = op_("srl", Low(w, x), k)
           /\ AluOn("sar", w, x, y) = op_("sra", ToSigned(w, x), k)
<1>1. CountOf(w, y) = k
  BY CountExact
<1>2. w \in 1 .. W64
  BY WidthsInRange
<1>3. ToSigned(w, Low(w, x)) = ToSigned(w, x)
  BY <1>2, SignedLow
<1>4. AluOn("shr", w, x, y) = op_("srl", Low(w, x), k)
  BY <1>1 DEF AluOn, Alu, op_
<1>5. AluOn("sar", w, x, y) = op_("sra", ToSigned(w, x), k)
  BY <1>1, <1>3 DEF AluOn, Alu, op_
<1>6. QED BY <1>4, <1>5

-----------------------------------------------------------------------------
(* What the emitters emit.  u and v are what the emulator holds in the      *)
(* registers that are x and y of the processor, at the width of the type.   *)
LEMMA MoreScratch ==
    ASSUME NEW cpu, NEW s, NEW X, NEW Y, NEW d, NEW w, NEW v, Does(cpu, s, X, d, w, v), X \subseteq Y
    PROVE  Does(cpu, s, Y, d, w, v)
BY DEF Does, Sets

(* emit_add and the like, for every aliasing of their registers.            *)
LEMMA CommutativeEmitters ==
    ASSUME NEW cpu \in Ready, NEW t \in IntTypes, NEW d \in Gpr, NEW x \in Gpr, NEW y \in Gpr,
           NEW u \in Int, NEW v \in Int,
           Low(Width(t), cpu.gpr[x]) = Low(Width(t), u),
           Low(Width(t), cpu.gpr[y]) = Low(Width(t), v)
    PROVE  /\ Does(cpu, emit_add(t, d, x, y), {}, d, Width(t), op_("add", u, v))
           /\ Does(cpu, emit_mul(t, d, x, y), {}, d, Width(t), op_("mul", u, v))
           /\ Does(cpu, emit_band(t, d, x, y), {}, d, Width(t), op_("band", u, v))
           /\ Does(cpu, emit_bor(t, d, x, y), {}, d, Width(t), op_("bor", u, v))
           /\ Does(cpu, emit_bxor(t, d, x, y), {}, d, Width(t), op_("bxor", u, v))
<1> DEFINE w == Width(t)
           a == cpu.gpr[x]
           b == cpu.gpr[y]
           o == one_src(d, x, y)
<1>1. a \in Int /\ b \in Int /\ w \in Widths /\ o \in Gpr
  BY GprInt, TypeWidth DEF Ready, one_src
<1>2. /\ Low(w, AluOn("add", w, a, b)) = Low(w, op_("add", u, v))
      /\ Low(w, AluOn("imul", w, a, b)) = Low(w, op_("mul", u, v))
  BY <1>1, AluArithmetic
<1>3. /\ Low(w, AluOn("and", w, a, b)) = Low(w, op_("band", u, v))
      /\ Low(w, AluOn("or", w, a, b)) = Low(w, op_("bor", u, v))
      /\ Low(w, AluOn("xor", w, a, b)) = Low(w, op_("bxor", u, v))
  BY <1>1, AluLogic
<1>4. \A op \in Commutative : Does(cpu, emit_one_src(t, d, x, y) \o RR(op, t, d, o), {}, d, w,
                                   AluOn(op, w, a, b))
  BY OneSrcCode
<1>5. Does(cpu, emit_mul(t, d, x, y), {}, d, w, AluOn("imul", w, a, b))
  <2>1. \A c \in Ready : Does(c, imul(t, d, Reg(o)), {}, d, w, AluOn("imul", w, c.gpr[d], c.gpr[o]))
    <3>1. Reg(o) \in Sources /\ \A g : Val(g, Reg(o)) = g[o]
      BY <1>1, RegSource
    <3>2. QED BY <3>1, ImulCode
  <2>2. "imul" \in Commutative
    BY DEF Commutative
  <2>3. QED BY <2>1, <2>2, OneSrcThen DEF emit_mul
<1>6. /\ Does(cpu, emit_add(t, d, x, y), {}, d, w, AluOn("add", w, a, b))
      /\ Does(cpu, emit_band(t, d, x, y), {}, d, w, AluOn("and", w, a, b))
      /\ Does(cpu, emit_bor(t, d, x, y), {}, d, w, AluOn("or", w, a, b))
      /\ Does(cpu, emit_bxor(t, d, x, y), {}, d, w, AluOn("xor", w, a, b))
  BY <1>4 DEF Commutative, emit_add, emit_band, emit_bor, emit_bxor
<1> HIDE DEF w, a, b
<1>7. QED BY <1>2, <1>3, <1>5, <1>6, Revalue DEF w

(* emit_addi and the like.                                                  *)
LEMMA ImmediateEmitters ==
    ASSUME NEW cpu \in Ready, NEW t \in IntTypes, NEW d \in Gpr, NEW x \in Gpr, NEW i \in Int,
           NEW u \in Int, Low(Width(t), cpu.gpr[x]) = Low(Width(t), u)
    PROVE  /\ Does(cpu, emit_addi(t, d, x, i), {}, d, Width(t), op_("add", u, i))
           /\ Does(cpu, emit_subi(t, d, x, i), {}, d, Width(t), op_("sub", u, i))
           /\ Does(cpu, emit_muli(t, d, x, i), {}, d, Width(t), op_("mul", u, i))
           /\ Does(cpu, emit_bandi(t, d, x, i), {}, d, Width(t), op_("band", u, i))
           /\ Does(cpu, emit_bori(t, d, x, i), {}, d, Width(t), op_("bor", u, i))
           /\ Does(cpu, emit_bxori(t, d, x, i), {}, d, Width(t), op_("bxor", u, i))
           /\ Does(cpu, emit_neg(t, d, x), {}, d, Width(t), op_neg(u))
           /\ Does(cpu, emit_bnot(t, d, x), {}, d, Width(t), op_bnot(u))
<1> DEFINE w == Width(t)
           a == cpu.gpr[x]
<1>1. a \in Int /\ w \in Widths /\ 0 \in Int /\ Low(w, i) \in Int /\ Low(w, 0) \in Int
  BY GprInt, TypeWidth, LowRange DEF Ready
<1>2. ASSUME NEW k \in Int
      PROVE  /\ Low(w, AluOn("add", w, a, k)) = Low(w, op_("add", u, k))
             /\ Low(w, AluOn("sub", w, a, k)) = Low(w, op_("sub", u, k))
             /\ Low(w, AluOn("imul", w, a, k)) = Low(w, op_("mul", u, k))
             /\ Low(w, AluOn("neg", w, a, k)) = Low(w, op_neg(u))
  BY <1>1, AluArithmetic
<1>3. ASSUME NEW k \in Int
      PROVE  /\ Low(w, AluOn("and", w, a, k)) = Low(w, op_("band", u, k))
             /\ Low(w, AluOn("or", w, a, k)) = Low(w, op_("bor", u, k))
             /\ Low(w, AluOn("xor", w, a, k)) = Low(w, op_("bxor", u, k))
             /\ Low(w, AluOn("not", w, a, k)) = Low(w, op_bnot(u))
  BY <1>1, AluLogic
<1>4. \A op \in AluOps, k \in Int : Does(cpu, emit_src(d, x) \o RI(op, t, d, k), {}, d, w,
                                         AluOn(op, w, a, k))
  BY SrcImmediateCode
<1>5. Does(cpu, emit_muli(t, d, x, i), {}, d, w, AluOn("imul", w, a, i))
  <2>1. \A c \in Ready : Does(c, imul(t, d, Imm(i)), {}, d, w, AluOn("imul", w, c.gpr[d], i))
    <3>1. Imm(i) \in Sources /\ \A g : Val(g, Imm(i)) = i
      BY RegSource
    <3>2. QED BY <3>1, ImulCode
  <2>2. "imul" \in AluOps
    BY DEF AluOps
  <2>3. QED BY <2>1, <2>2, SrcThen DEF emit_muli
<1>6. /\ Does(cpu, emit_addi(t, d, x, i), {}, d, w, AluOn("add", w, a, i))
      /\ Does(cpu, emit_subi(t, d, x, i), {}, d, w, AluOn("sub", w, a, i))
      /\ Does(cpu, emit_bandi(t, d, x, i), {}, d, w, AluOn("and", w, a, i))
      /\ Does(cpu, emit_bori(t, d, x, i), {}, d, w, AluOn("or", w, a, i))
      /\ Does(cpu, emit_bxori(t, d, x, i), {}, d, w, AluOn("xor", w, a, i))
      /\ Does(cpu, emit_neg(t, d, x), {}, d, w, AluOn("neg", w, a, 0))
      /\ Does(cpu, emit_bnot(t, d, x), {}, d, w, AluOn("not", w, a, 0))
  BY <1>1, <1>4 DEF AluOps, emit_addi, emit_subi, emit_bandi, emit_bori, emit_bxori, emit_neg,
                    emit_bnot, emit_neg_dst, One
<1> HIDE DEF w, a
<1>7. QED BY <1>1, <1>2, <1>3, <1>5, <1>6, Revalue DEF w

(* emit_sub, negating if the destination is the second source.              *)
LEMMA SubEmitter ==
    ASSUME NEW cpu \in Ready, NEW t \in IntTypes, NEW d \in Gpr, NEW x \in Gpr, NEW y \in Gpr,
           NEW u \in Int, NEW v \in Int,
           Low(Width(t), cpu.gpr[x]) = Low(Width(t), u),
           Low(Width(t), cpu.gpr[y]) = Low(Width(t), v)
    PROVE  Does(cpu, emit_sub(t, d, x, y), {}, d, Width(t), op_("sub", u, v))
<1> DEFINE w == Width(t)
           a == cpu.gpr[x]
           b == cpu.gpr[y]
<1>1. a \in Int /\ b \in Int /\ w \in Widths /\ w \in 0 .. W64 /\ "sub" \in AluOps /\ "xor" \in AluOps
      /\ cpu \in Cpus
  BY GprInt, TypeWidth DEF Ready, AluOps
<1>2. Low(w, AluOn("sub", w, a, b)) = Low(w, op_("sub", u, v))
  <2>1. Low(w, a) = Low(w, u) /\ Low(w, b) = Low(w, v)
    OBVIOUS
  <2> HIDE DEF w, a, b
  <2>2. /\ Low(w, AluOn("add", w, a, b)) = Low(w, op_("add", u, v))
        /\ Low(w, AluOn("sub", w, a, b)) = Low(w, op_("sub", u, v))
        /\ Low(w, AluOn("imul", w, a, b)) = Low(w, op_("mul", u, v))
        /\ Low(w, AluOn("neg", w, a, b)) = Low(w, op_neg(u))
    BY <1>1, <2>1, AluArithmetic
  <2>3. QED BY <2>2
<1>3. CASE d = x /\ d = y
  <2>1. Does(cpu, emit_sub(t, d, x, y), {}, d, w, AluOn("xor", w, cpu.gpr[d], cpu.gpr[d]))
    BY <1>1, <1>3, RegisterCode DEF emit_sub, emit_zero
  <2>2. Low(w, AluOn("xor", w, a, a)) = Low(w, op_("sub", u, v))
    <3>1. AluOn("xor", w, a, a) = BitXor(Low(w, a), Low(w, a))
      BY DEF AluOn, Alu
    <3>2. Low(w, a) \in Int
      BY <1>1, LowRange
    <3>3. Low(w, BitXor(Low(w, a), Low(w, a))) = 0
      BY <1>1, <3>2, LogicConstants
    <3>4. Low(w, op_("sub", u, v)) = 0
      <4>1. op_("sub", u, v) = u - v
        BY DEF op_
      <4>2. Low(w, u - v) = Low(w, u - u)
        BY <1>1, <1>3, LowArithmetic
      <4>3. u - u = 0 /\ 0 \in 0 .. 2 ^ w - 1
        BY <1>1, Power
      <4>4. Low(w, 0) = 0
        BY <1>1, <4>3, LowId
      <4>5. QED BY <4>1, <4>2, <4>3, <4>4
    <3>5. QED BY <3>1, <3>3, <3>4
  <2> HIDE DEF w
  <2>3. QED BY <1>3, <2>1, <2>2, Revalue DEF w
<1>4. CASE d = x /\ d # y
  <2>1. Does(cpu, emit_sub(t, d, x, y), {}, d, w, AluOn("sub", w, a, b))
    BY <1>1, <1>4, RegisterCode DEF emit_sub
  <2> HIDE DEF w, a, b
  <2>2. QED BY <1>2, <2>1, Revalue DEF w
<1>5. CASE d # x /\ d = y
  <2> DEFINE one == Exec(cpu, emit_neg(t, d, d))
  <2>1. Does(cpu, emit_neg(t, d, d), {}, d, w, op_neg(v))
    BY <1>5, ImmediateEmitters
  <2>2. one \in Ready /\ Low(w, one.gpr[d]) = Low(w, op_neg(v)) /\ one.gpr[x] = a
    BY <1>5, <2>1, ReadyAfter DEF Does, Sets
  <2>3. op_neg(v) = -v /\ -v \in Int
    BY DEF op_neg
  <2>4. Does(one, emit_add(t, d, x, d), {}, d, w, op_("add", u, -v))
    <3> HIDE DEF one
    <3>1. QED BY <2>2, <2>3, CommutativeEmitters
  <2>5. op_("add", u, -v) = op_("sub", u, v)
    BY DEF op_
  <2>6. emit_sub(t, d, x, y) = emit_neg(t, d, d) \o emit_add(t, d, x, d)
    BY <1>5 DEF emit_sub
  <2> HIDE DEF w
  <2>7. QED BY <1>1, <2>1, <2>4, <2>5, <2>6, ThenCode DEF w
<1>6. CASE d # x /\ d # y
  <2> DEFINE one == Exec(cpu, emit_movr(t, d, x))
  <2>1. Does(cpu, emit_movr(t, d, x), {}, d, w, a)
    BY MovrCode
  <2>2. one \in Ready /\ Low(w, one.gpr[d]) = Low(w, a) /\ one.gpr[y] = b
    BY <1>6, <2>1, ReadyAfter DEF Does, Sets
  <2>3. Does(one, RR("sub", t, d, y), {}, d, w, AluOn("sub", w, one.gpr[d], one.gpr[y]))
    BY <1>1, <2>2, RegisterCode
  <2>4. AluOn("sub", w, one.gpr[d], one.gpr[y]) = AluOn("sub", w, a, b)
    <3>1. one.gpr[d] \in Int
      BY <2>2, GprInt DEF Ready
    <3> HIDE DEF one, w, a, b
    <3>2. QED BY <1>1, <2>2, <3>1, AluLow
  <2>5. emit_sub(t, d, x, y) = emit_movr(t, d, x) \o RR("sub", t, d, y)
    BY <1>6 DEF emit_sub
  <2>6. Does(cpu, emit_sub(t, d, x, y), {}, d, w, AluOn("sub", w, a, b))
    <3> HIDE DEF w, a, b
    <3>1. QED BY <1>1, <2>1, <2>3, <2>4, <2>5, ThenCode DEF w
  <2> HIDE DEF w, a, b
  <2>7. QED BY <1>2, <2>6, Revalue DEF w
<1>7. QED BY <1>3, <1>4, <1>5, <1>6

(* emit_rsubi: the negation, and then the sum.                              *)
LEMMA RsubiEmitter ==
    ASSUME NEW cpu \in Ready, NEW t \in IntTypes, NEW d \in Gpr, NEW x \in Gpr, NEW i \in Int,
           NEW u \in Int, Low(Width(t), cpu.gpr[x]) = Low(Width(t), u)
    PROVE  Does(cpu, emit_rsubi(t, d, x, i), {}, d, Width(t), op_("sub", i, u))
<1> DEFINE w == Width(t)
           one == Exec(cpu, emit_neg(t, d, x))
<1>1. Does(cpu, emit_neg(t, d, x), {}, d, w, op_neg(u))
  BY ImmediateEmitters
<1>2. one \in Ready /\ Low(w, one.gpr[d]) = Low(w, op_neg(u))
  BY <1>1, ReadyAfter DEF Does, Sets
<1>3. op_neg(u) = -u /\ -u \in Int /\ op_("add", -u, i) = op_("sub", i, u)
  BY DEF op_neg, op_
<1>4. Does(one, emit_addi(t, d, d, i), {}, d, w, op_("add", -u, i))
  <2> HIDE DEF one
  <2>1. QED BY <1>2, <1>3, ImmediateEmitters
<1>5. cpu \in Cpus
  BY DEF Ready
<1> HIDE DEF w
<1>6. QED BY <1>1, <1>3, <1>4, <1>5, ThenCode DEF w, emit_rsubi

(* The two temporaries are free registers, which rcx is not.                *)
LEMMA Temporaries ==
    /\ T0 \in R_FREE /\ T1 \in R_FREE /\ T0 # T1
    /\ R_FREE \subseteq Gpr /\ rcx \in Gpr \ R_FREE
<1>1. T0 = 14
  <2>1. 14 \in R_FREE /\ \A s \in R_FREE : s <= 14
    BY DEF R_FREE
  <2>2. T0 = CHOOSE x \in R_FREE : \A s \in R_FREE : s <= x
    BY <2>1 DEF T0, alloc_
  <2>3. T0 \in R_FREE /\ \A s \in R_FREE : s <= T0
    BY <2>1, <2>2
  <2>4. QED BY <2>1, <2>3 DEF R_FREE
<1>2. T1 = 13
  <2> DEFINE F == R_FREE \ {T0}
  <2>1. 13 \in F /\ \A s \in F : s <= 13
    BY <1>1 DEF R_FREE
  <2>2. T1 = CHOOSE x \in F : \A s \in F : s <= x
    BY <2>1 DEF T1, alloc_
  <2>3. T1 \in F /\ \A s \in F : s <= T1
    BY <2>1, <2>2
  <2>4. QED BY <2>1, <2>3 DEF R_FREE
<1>3. QED BY <1>1, <1>2 DEF R_FREE, Gpr, rcx

(* The complement of a number, and another: bandn.                          *)
LEMMA NotThenAnd ==
    ASSUME NEW u \in Int, NEW v \in Int
    PROVE  /\ op_bnot(u) \in Int
           /\ op_("band", op_bnot(u), v) = op_("bandn", u, v)
<1>1. W64 \in 0 .. W64 /\ 2 ^ W64 \in Nat
  BY Power
<1>2. Low(W64, u) \in 0 .. 2 ^ W64 - 1
  BY <1>1, LowRange
<1>3. op_bnot(u) \in 0 .. 2 ^ W64 - 1
  BY <1>1, <1>2 DEF op_bnot, Bits
<1>4. Bits(op_bnot(u)) = op_bnot(u)
  BY <1>1, <1>3, LowId DEF Bits
<1>5. op_("band", op_bnot(u), v) = BitAnd(Bits(op_bnot(u)), Bits(v))
      /\ op_("bandn", u, v) = BitAnd(2 ^ W64 - 1 - Bits(u), Bits(v))
      /\ op_bnot(u) = 2 ^ W64 - 1 - Bits(u)
  BY DEF op_, op_bnot
<1>6. QED BY <1>1, <1>3, <1>4, <1>5

(* The complement of the first source in a temporary.                       *)
LEMMA NotInT0 ==
    ASSUME NEW cpu \in Ready, NEW t \in IntTypes, NEW x \in Gpr,
           NEW u \in Int, Low(Width(t), cpu.gpr[x]) = Low(Width(t), u)
    PROVE  Does(cpu, emit_mov(t, T0, x) \o emit_bnot(t, T0, T0), {}, T0, Width(t), op_bnot(u))
<1> DEFINE w == Width(t)
           one == Exec(cpu, emit_mov(t, T0, x))
<1>1. w \in Widths /\ T0 \in Gpr /\ cpu \in Cpus
  BY TypeWidth, Temporaries DEF Ready
<1>2. Does(cpu, emit_mov(t, T0, x), {}, T0, w, cpu.gpr[x])
  BY <1>1, SrcCode DEF emit_mov
<1>3. one \in Ready /\ Low(w, one.gpr[T0]) = Low(w, u)
  BY <1>2, ReadyAfter DEF Does, Sets
<1>4. Does(one, emit_bnot(t, T0, T0), {}, T0, w, op_bnot(u))
  <2> HIDE DEF one
  <2>1. QED BY <1>1, <1>3, ImmediateEmitters
<1> HIDE DEF w
<1>5. QED BY <1>1, <1>2, <1>4, ThenCode DEF w

(* emit_bandni.                                                             *)
LEMMA BandniEmitter ==
    ASSUME NEW cpu \in Ready, NEW t \in IntTypes, NEW d \in Gpr, NEW x \in Gpr, NEW i \in Int,
           NEW u \in Int, Low(Width(t), cpu.gpr[x]) = Low(Width(t), u)
    PROVE  Does(cpu, emit_bandni(t, d, x, i), R_FREE, d, Width(t), op_("bandn", u, i))
<1> DEFINE w == Width(t)
           s == emit_mov(t, T0, x) \o emit_bnot(t, T0, T0)
           one == Exec(cpu, s)
<1>1. Does(cpu, s, {}, T0, w, op_bnot(u))
  BY NotInT0
<1>2. one \in Ready /\ Low(w, one.gpr[T0]) = Low(w, op_bnot(u))
  BY <1>1, ReadyAfter DEF Does, Sets
<1>3. T0 \in Gpr /\ T0 \in R_FREE /\ cpu \in Cpus
  BY Temporaries DEF Ready
<1>4. Does(one, emit_bandi(t, d, T0, i), {}, d, w, op_("band", op_bnot(u), i))
  <2> HIDE DEF one
  <2>1. QED BY <1>2, <1>3, NotThenAnd, ImmediateEmitters
<1> HIDE DEF w, s
<1>5. Does(cpu, s \o emit_bandi(t, d, T0, i), R_FREE, d, w, op_("band", op_bnot(u), i))
  BY <1>1, <1>3, <1>4, ThenCode
<1>6. QED BY <1>5, NotThenAnd DEF emit_bandni, s, w

(* emit_bandn.                                                              *)
LEMMA BandnEmitter ==
    ASSUME NEW cpu \in Ready, NEW t \in IntTypes, NEW d \in Gpr, NEW x \in Gpr,
           NEW y \in Gpr \ R_FREE, NEW u \in Int, NEW v \in Int,
           Low(Width(t), cpu.gpr[x]) = Low(Width(t), u),
           Low(Width(t), cpu.gpr[y]) = Low(Width(t), v)
    PROVE  Does(cpu, emit_bandn(t, d, x, y), R_FREE, d, Width(t), op_("bandn", u, v))
<1> DEFINE w == Width(t)
<1>1. CASE d = x /\ d = y
  <2> DEFINE a == cpu.gpr[d]
             c == Low(W64, u)
             e == Low(W64, v)
             ones == 2 ^ W64 - 1
  <2>1. "xor" \in AluOps /\ w \in 0 .. W64 /\ W64 \in 0 .. W64 /\ a \in Int /\ ones \in Int
    BY TypeWidth, Power, GprInt DEF AluOps, Ready
  <2>2. Does(cpu, emit_bandn(t, d, x, y), {}, d, w, AluOn("xor", w, a, a))
    BY <1>1, <2>1, RegisterCode DEF emit_bandn, emit_zero
  <2>3. Low(w, AluOn("xor", w, a, a)) = 0
    <3>1. AluOn("xor", w, a, a) = BitXor(Low(w, a), Low(w, a)) /\ Low(w, a) \in Int
      BY <2>1, LowRange DEF AluOn, Alu
    <3>2. QED BY <2>1, <3>1, LogicConstants
  <2>4. Low(w, op_("bandn", u, v)) = 0
    <3>1. c \in Int /\ e \in Int /\ Low(w, c) = Low(w, u) /\ Low(w, e) = Low(w, v)
      BY <2>1, LowRange, LowOfLow
    <3>2. Low(w, e) = Low(w, c)
      BY <1>1, <3>1
    <3>3. op_("bandn", u, v) = BitAnd(ones - c, e) /\ ones - c \in Int
      BY <2>1, <3>1 DEF op_, Bits
    <3>4. Low(w, ones - c) \in Int
      BY <2>1, <3>3, LowRange
    <3>5. Low(w, BitAnd(ones - c, c)) = 0
      BY <2>1, <3>1, LogicConstants
    <3>6. Low(w, BitAnd(ones - c, e)) = Low(w, BitAnd(ones - c, c))
      <4> DEFINE b == ones - c
      <4>1. b \in Int /\ Low(w, b) \in Int
        BY <3>3, <3>4
      <4> HIDE DEF b, c, e, w
      <4>2. Low(w, BitAnd(b, e)) = Low(w, BitAnd(b, c))
        BY <2>1, <3>1, <3>2, <4>1, LowLogic
      <4>3. QED BY <4>2 DEF b
    <3>7. QED BY <3>3, <3>5, <3>6
  <2> HIDE DEF w
  <2>5. Does(cpu, emit_bandn(t, d, x, y), {}, d, w, op_("bandn", u, v))
    BY <2>2, <2>3, <2>4, Revalue
  <2>6. QED BY <2>5, MoreScratch DEF w
<1>2. CASE ~(d = x /\ d = y)
  <2> DEFINE s == emit_mov(t, T0, x) \o emit_bnot(t, T0, T0)
             one == Exec(cpu, s)
  <2>1. Does(cpu, s, {}, T0, w, op_bnot(u))
    BY NotInT0
  <2>2. T0 \in Gpr /\ T0 \in R_FREE /\ cpu \in Cpus /\ y # T0
    BY Temporaries DEF Ready
  <2>3. /\ one \in Ready /\ Low(w, one.gpr[T0]) = Low(w, op_bnot(u))
        /\ Low(w, one.gpr[y]) = Low(w, v)
    BY <2>1, <2>2, ReadyAfter DEF Does, Sets
  <2>4. Does(one, emit_band(t, d, T0, y), {}, d, w, op_("band", op_bnot(u), v))
    <3> HIDE DEF one
    <3>1. QED BY <2>2, <2>3, NotThenAnd, CommutativeEmitters
  <2> HIDE DEF w, s
  <2>5. Does(cpu, s \o emit_band(t, d, T0, y), R_FREE, d, w, op_("band", op_bnot(u), v))
    BY <2>1, <2>2, <2>4, ThenCode
  <2>6. emit_bandn(t, d, x, y) = s \o emit_band(t, d, T0, y)
    BY <1>2 DEF emit_bandn, s
  <2>7. QED BY <2>5, <2>6, NotThenAnd DEF w
<1>3. QED BY <1>1, <1>2

(* Shifts by a register leave rcx as it was.                                *)
LEMMA WholeMove ==
    ASSUME NEW cpu \in Ready, NEW d \in Gpr, NEW x \in Gpr
    PROVE  Does(cpu, << Instr("mov", W64, d, Reg(x)) >>, {}, d, W64, cpu.gpr[x])
<1>1. "mov" \in AluOps /\ W64 \in Widths /\ Reg(x) \in Sources /\ Val(cpu.gpr, Reg(x)) = cpu.gpr[x]
  BY RegSource DEF AluOps, Widths
<1>2. cpu.gpr[d] \in Int /\ cpu.gpr[x] \in Int
  BY GprInt DEF Ready
<1>3. Does(cpu, << Instr("mov", W64, d, Reg(x)) >>, {}, d, W64,
           AluOn("mov", W64, cpu.gpr[d], cpu.gpr[x]))
  BY <1>1, AluCode
<1>4. QED BY <1>1, <1>2, <1>3, MovValue, Revalue

(* What code does after code that came before it.                           *)
LEMMA ThenSets ==
    ASSUME NEW cpu, NEW s, NEW u, s \in Seq(Instrs),
           NEW X, NEW d, NEW w, NEW v, Does(Exec(cpu, s), u, X, d, w, v)
    PROVE  /\ s \o u \in Seq(Instrs)
           /\ Sets(Exec(cpu, s), Exec(cpu, s \o u), X, d, w, v)
           /\ Exec(cpu, s \o u) \in Ready
<1>1. u \in Seq(Instrs) /\ s \o u \in Seq(Instrs)
  BY DEF Does
<1>2. Exec(cpu, s \o u) = Exec(Exec(cpu, s), u)
  BY <1>1, ExecConcat
<1>3. QED BY <1>1, <1>2, ReadyAfter DEF Does

(* emit_sll and the like, unless rcx is the destination.                    *)
LEMMA ShiftEmitter ==
    ASSUME NEW cpu \in Ready, NEW t \in IntTypes, NEW op \in {"shl", "shr", "sar"},
           NEW d \in Gpr \ (R_FREE \cup {rcx}),
           NEW x \in Gpr \ R_FREE, NEW y \in Gpr \ R_FREE
    PROVE  Does(cpu, Shift(op, t, d, x, y), R_FREE, d, Width(t),
                AluOn(op, Width(t), cpu.gpr[x], cpu.gpr[y]))
<1> DEFINE w == Width(t)
           s1 == << Instr("mov", W64, T0, Reg(rcx)) >>
           s2 == s1 \o emit_movr(t, T1, x)
           s3 == s2 \o emit_movr(t, rcx, y)
           s4 == s3 \o RR(op, t, T1, rcx)
           s5 == s4 \o emit_movr(t, d, T1)
           s6 == s5 \o << Instr("mov", W64, rcx, Reg(T0)) >>
           c1 == Exec(cpu, s1)
           c2 == Exec(cpu, s2)
           c3 == Exec(cpu, s3)
           c4 == Exec(cpu, s4)
           c5 == Exec(cpu, s5)
           c6 == Exec(cpu, s6)
<1>1. /\ T0 \in Gpr /\ T1 \in Gpr /\ rcx \in Gpr /\ T0 # T1 /\ T0 # rcx /\ T1 # rcx
      /\ d # T0 /\ d # T1 /\ d # rcx /\ x # T0 /\ y # T0 /\ y # T1
      /\ T0 \in R_FREE /\ T1 \in R_FREE /\ rcx \notin R_FREE
  BY Temporaries
<1>2. op \in AluOps /\ w \in Widths /\ w \in 0 .. W64 /\ W64 \in 0 .. W64
  BY TypeWidth, Power DEF AluOps
<1>3. s1 \in Seq(Instrs) /\ Sets(cpu, c1, {}, T0, W64, cpu.gpr[rcx]) /\ c1 \in Ready
  BY <1>1, WholeMove, ReadyAfter DEF Does
<1>4. s2 \in Seq(Instrs) /\ Sets(c1, c2, {}, T1, w, c1.gpr[x]) /\ c2 \in Ready
  <2>1. Does(c1, emit_movr(t, T1, x), {}, T1, w, c1.gpr[x])
    BY <1>1, <1>3, MovrCode
  <2>2. QED BY <1>3, <2>1, ThenSets
<1>5. s3 \in Seq(Instrs) /\ Sets(c2, c3, {}, rcx, w, c2.gpr[y]) /\ c3 \in Ready
  <2>1. Does(c2, emit_movr(t, rcx, y), {}, rcx, w, c2.gpr[y])
    BY <1>1, <1>4, MovrCode
  <2> HIDE DEF s2
  <2>2. QED BY <1>4, <2>1, ThenSets
<1>6. /\ s4 \in Seq(Instrs) /\ c4 \in Ready
      /\ Sets(c3, c4, {}, T1, w, AluOn(op, w, c3.gpr[T1], c3.gpr[rcx]))
  <2>1. Does(c3, RR(op, t, T1, rcx), {}, T1, w, AluOn(op, w, c3.gpr[T1], c3.gpr[rcx]))
    BY <1>1, <1>2, <1>5, RegisterCode
  <2> HIDE DEF s3
  <2>2. QED BY <1>5, <2>1, ThenSets
<1>7. s5 \in Seq(Instrs) /\ Sets(c4, c5, {}, d, w, c4.gpr[T1]) /\ c5 \in Ready
  <2>1. Does(c4, emit_movr(t, d, T1), {}, d, w, c4.gpr[T1])
    BY <1>1, <1>6, MovrCode
  <2> HIDE DEF s4
  <2>2. QED BY <1>6, <2>1, ThenSets
<1>8. s6 \in Seq(Instrs) /\ Sets(c5, c6, {}, rcx, W64, c5.gpr[T0]) /\ c6 \in Ready
  <2>1. Does(c5, << Instr("mov", W64, rcx, Reg(T0)) >>, {}, rcx, W64, c5.gpr[T0])
    BY <1>1, <1>7, WholeMove
  <2> HIDE DEF s5
  <2>2. QED BY <1>7, <2>1, ThenSets
<1> DEFINE v == AluOn(op, w, cpu.gpr[x], cpu.gpr[y])
<1> HIDE DEF c1, c2, c3, c4, c5, c6, s1, s2, s3, s4, s5, w, v
<1>9. \A z \in Gpr \ (R_FREE \cup {d, rcx}) : c6.gpr[z] = cpu.gpr[z]
  BY <1>1, <1>3, <1>4, <1>5, <1>6, <1>7, <1>8 DEF Sets
<1>10. c6.gpr[rcx] = cpu.gpr[rcx]
  <2>1. c5.gpr[T0] = c1.gpr[T0]
    BY <1>1, <1>4, <1>5, <1>6, <1>7 DEF Sets
  <2>2. Low(W64, c6.gpr[rcx]) = Low(W64, cpu.gpr[rcx])
    BY <2>1, <1>3, <1>8 DEF Sets
  <2>3. c6.gpr[rcx] \in Word /\ cpu.gpr[rcx] \in Word
    BY <1>1, <1>8, GprInt DEF Ready
  <2>4. QED BY <1>2, <2>2, <2>3, LowId DEF Word
<1>11. Low(w, c6.gpr[d]) = Low(w, v)
  <2>1. /\ c6.gpr[d] = c5.gpr[d] /\ Low(w, c5.gpr[d]) = Low(w, c4.gpr[T1])
        /\ Low(w, c4.gpr[T1]) = Low(w, AluOn(op, w, c3.gpr[T1], c3.gpr[rcx]))
    BY <1>1, <1>6, <1>7, <1>8 DEF Sets
  <2>2. Low(w, c3.gpr[T1]) = Low(w, cpu.gpr[x])
    BY <1>1, <1>3, <1>4, <1>5 DEF Sets
  <2>3. Low(w, c3.gpr[rcx]) = Low(w, cpu.gpr[y])
    BY <1>1, <1>3, <1>4, <1>5 DEF Sets
  <2>4. /\ c3.gpr[T1] \in Int /\ c3.gpr[rcx] \in Int
        /\ cpu.gpr[x] \in Int /\ cpu.gpr[y] \in Int
    BY <1>1, <1>5, GprInt DEF Ready
  <2>5. AluOn(op, w, c3.gpr[T1], c3.gpr[rcx]) = v
    BY <1>2, <2>2, <2>3, <2>4, AluLow DEF v
  <2>6. QED BY <2>1, <2>5
<1>12. Sets(cpu, c6, R_FREE, d, w, v)
  <2>1. c6.cmp = cpu.cmp
    BY <1>3, <1>4, <1>5, <1>6, <1>7, <1>8 DEF Sets
  <2>2. \A z \in Gpr \ (R_FREE \cup {d}) : c6.gpr[z] = cpu.gpr[z]
    BY <1>9, <1>10
  <2>3. QED BY <1>8, <1>11, <2>1, <2>2 DEF Sets, Ready
<1>13. s6 = Shift(op, t, d, x, y)
  BY DEF s1, s2, s3, s4, s5, Shift
<1>14. QED BY <1>8, <1>12, <1>13 DEF Does, c6, w, v

(* Comparisons change the flags, and so are said to leave less alone.       *)
Leaves(cpu, s, d, w, v) ==
    LET new == Exec(cpu, s)
    IN  /\ s \in Seq(Instrs) /\ new \in Ready
        /\ \A z \in Gpr \ (R_FREE \cup {d}) : new.gpr[z] = cpu.gpr[z]
        /\ Low(w, new.gpr[d]) = Low(w, v)

(* Code that does something leaves the rest.                                *)
LEMMA DoesLeaves ==
    ASSUME NEW cpu, NEW s, NEW X \in SUBSET R_FREE, NEW d, NEW w, NEW v,
           Does(cpu, s, X, d, w, v)
    PROVE  Leaves(cpu, s, d, w, v)
BY DEF Does, Sets, Leaves, Ready

(* Records with one field changed, written out.                             *)
LEMMA Changed ==
    ASSUME NEW cpu \in Cpus
    PROVE  /\ cpu = [gpr |-> cpu.gpr, cmp |-> cpu.cmp, skip |-> cpu.skip]
           /\ \A f : [cpu EXCEPT !.cmp = f] = [gpr |-> cpu.gpr, cmp |-> f, skip |-> cpu.skip]
           /\ \A b : [cpu EXCEPT !.skip = b] = [gpr |-> cpu.gpr, cmp |-> cpu.cmp, skip |-> b]
BY DEF Cpus

(* A comparison sets the flags and no register.                             *)
LEMMA CompareCode ==
    ASSUME NEW cpu \in Ready, NEW w \in Widths, NEW x \in Gpr, NEW src \in Sources
    PROVE  LET s == << Instr("cmp", w, x, src) >>
               new == Exec(cpu, s)
           IN  /\ s \in Seq(Instrs) /\ new \in Ready /\ new.gpr = cpu.gpr
               /\ new.cmp = Compare(w, Low(w, cpu.gpr[x]), Low(w, Val(cpu.gpr, src)))
<1> DEFINE i == Instr("cmp", w, x, src)
           f == Compare(w, Low(w, cpu.gpr[x]), Low(w, Val(cpu.gpr, src)))
<1>1. cpu \in Cpus /\ cpu.skip = FALSE /\ cpu.gpr \in [Gpr -> Word]
  BY DEF Ready, Cpus
<1>2. i.op = "cmp" /\ i.w = w /\ i.dst = x /\ i.src = src /\ i \in Instrs
  BY DEF Instr, Instrs
<1>3. Operand(cpu.gpr, w, Reg(x)) = Low(w, cpu.gpr[x])
      /\ Operand(cpu.gpr, w, src) = Low(w, Val(cpu.gpr, src))
  BY DEF Operand, Reg, Val
<1>4. f \in Flags
  BY DEF Compare, Flags
<1>5. Compare(w, Operand(cpu.gpr, w, Reg(x)), Operand(cpu.gpr, w, src)) = f
  BY <1>3
<1> HIDE DEF i, f
<1>6. "cmp" # "bind" /\ "cmp" \notin Jumps
  BY DEF Jumps
<1>7. ExecOne(cpu, i) = [cpu EXCEPT !.cmp = f]
  BY <1>1, <1>2, <1>5, <1>6 DEF ExecOne
<1>8. ExecOne(cpu, i) = [gpr |-> cpu.gpr, cmp |-> f, skip |-> FALSE]
  BY <1>1, <1>7, Changed
<1>9. Exec(cpu, << i >>) = ExecOne(cpu, i) /\ << i >> \in Seq(Instrs)
  BY <1>2, ExecSingle
<1>10. ExecOne(cpu, i) \in Ready
  BY <1>1, <1>4, <1>8 DEF Ready, Cpus
<1> DEFINE new == Exec(cpu, << i >>)
<1>11. << i >> \in Seq(Instrs) /\ new \in Ready /\ new.gpr = cpu.gpr /\ new.cmp = f
  BY <1>8, <1>9, <1>10
<1> HIDE DEF new
<1>12. QED BY <1>11 DEF i, f, new

(* The jump over an instruction, and where it goes.                         *)
LEMMA SkipCode ==
    ASSUME NEW cpu \in Ready, NEW cc \in Jumps, NEW i \in Instrs, i.op \in AluOps
    PROVE  LET s == << Jump(cc) >> \o << i >> \o << Bind >>
           IN  /\ s \in Seq(Instrs)
               /\ Taken(cc, cpu.cmp) => Exec(cpu, s) = cpu
               /\ ~Taken(cc, cpu.cmp) /\ ExecOne(cpu, i) \in Ready =>
                    Exec(cpu, s) = ExecOne(cpu, i)
<1> DEFINE j == Jump(cc)
           e == Bind
           s == << j >> \o << i >> \o << e >>
           c1 == ExecOne(cpu, j)
           c2 == ExecOne(c1, i)
<1>1. cpu \in Cpus /\ cpu.skip = FALSE /\ cpu.cmp \in Flags
  BY DEF Ready, Cpus
<1>2. j.op = cc /\ e.op = "bind" /\ j \in Instrs /\ e \in Instrs
  <2>1. Imm(0) \in Sources /\ W64 \in Widths /\ 0 \in Gpr
    BY RegSource DEF Widths, Gpr
  <2>2. QED BY <2>1 DEF Jump, Bind, Instr, Instrs
<1>3. << j >> \in Seq(Instrs) /\ << i >> \in Seq(Instrs) /\ << e >> \in Seq(Instrs)
      /\ << j >> \o << i >> \in Seq(Instrs)
  BY <1>2
<1>4. s \in Seq(Instrs)
  BY <1>3
<1> HIDE DEF j, e
<1>5. Exec(cpu, s) = ExecOne(c2, e)
  <2> DEFINE sj == << j >>
             si == << i >>
             se == << e >>
  <2>1. sj \in Seq(Instrs) /\ si \in Seq(Instrs) /\ se \in Seq(Instrs)
        /\ sj \o si \in Seq(Instrs)
    BY <1>3
  <2>2. Exec(cpu, sj) = c1 /\ Exec(c1, si) = c2 /\ Exec(c2, se) = ExecOne(c2, e)
    BY ExecSingle
  <2> HIDE DEF sj, si, se, c1, c2
  <2>3. Exec(cpu, sj \o si) = c2
    BY <2>1, <2>2, ExecConcat
  <2> DEFINE two == sj \o si
  <2>4. Exec(cpu, two \o se) = ExecOne(c2, e)
    <3>1. two \in Seq(Instrs) /\ Exec(cpu, two) = c2
      BY <2>1, <2>3
    <3> HIDE DEF two
    <3>2. Exec(cpu, two \o se) = Exec(Exec(cpu, two), se)
      BY <2>1, <3>1, ExecConcat
    <3>3. QED BY <2>2, <3>1, <3>2
  <2>5. QED BY <2>4 DEF sj, si, se, two
<1>6. i.op # "bind" /\ cc # "bind" /\ cc # "cmp" /\ "bind" \notin Jumps /\ "cmp" \notin Jumps
  BY DEF AluOps, Jumps
<1>7. Taken(cc, cpu.cmp) \in BOOLEAN
  BY <1>1 DEF Taken, Jumps, Flags
<1>8. c1 = [gpr |-> cpu.gpr, cmp |-> cpu.cmp, skip |-> Taken(cc, cpu.cmp)]
  <2> DEFINE b == Taken(cc, cpu.cmp)
  <2> HIDE DEF b
  <2>1. ExecOne(cpu, j) = [cpu EXCEPT !.skip = b]
    <3>1. j.op = cc /\ cc \in Jumps /\ cpu.skip = FALSE /\ cc # "bind"
      BY <1>1, <1>2, <1>6
    <3>2. ExecOne(cpu, j) = [cpu EXCEPT !.skip = Taken(j.op, cpu.cmp)]
      BY <1>6, <3>1 DEF ExecOne
    <3>3. QED BY <3>1, <3>2 DEF b
  <2>2. QED BY <1>1, <2>1, Changed DEF b
<1> HIDE DEF c1, s
<1>9. CASE Taken(cc, cpu.cmp)
  <2>1. c1.skip = TRUE /\ c1 = [gpr |-> cpu.gpr, cmp |-> cpu.cmp, skip |-> TRUE]
    BY <1>8, <1>9
  <2>2. c2 = c1
    BY <1>6, <2>1 DEF ExecOne
  <2> HIDE DEF c2
  <2>3. ExecOne(c2, e) = [c2 EXCEPT !.skip = FALSE]
    BY <1>2, <1>6 DEF ExecOne
  <2>4. ExecOne(c2, e) = cpu
    <3>1. c2 \in Cpus /\ c2.skip = TRUE /\ c2.gpr = cpu.gpr /\ c2.cmp = cpu.cmp
      BY <1>1, <2>1, <2>2 DEF Cpus
    <3>2. QED BY <1>1, <2>3, <3>1, Changed
  <2>5. QED BY <1>4, <1>5, <1>9, <2>4 DEF s, j, e
<1>10. CASE ~Taken(cc, cpu.cmp)
  <2>1. c1 = cpu
    <3>1. Taken(cc, cpu.cmp) = FALSE
      BY <1>7, <1>10
    <3>2. c1 = [gpr |-> cpu.gpr, cmp |-> cpu.cmp, skip |-> FALSE]
      BY <1>8, <3>1
    <3>3. QED BY <1>1, <3>2, Changed
  <2>2. ASSUME ExecOne(cpu, i) \in Ready
        PROVE  ExecOne(c2, e) = ExecOne(cpu, i)
    <3>1. c2 = ExecOne(cpu, i)
      BY <2>1
    <3>2. c2 \in Cpus /\ c2.skip = FALSE
      BY <2>2, <3>1 DEF Ready
    <3> HIDE DEF c2
    <3>3. ExecOne(c2, e) = [c2 EXCEPT !.skip = FALSE]
      BY <1>2, <1>6 DEF ExecOne
    <3>4. QED BY <3>1, <3>2, <3>3, Changed
  <2>3. QED BY <1>4, <1>5, <1>10, <2>2 DEF s, j, e
<1>11. QED BY <1>9, <1>10

(* dst is 0 if the jump is taken, and -1 else.                              *)
LEMMA MoveccCode ==
    ASSUME NEW cpu \in Ready, NEW t \in IntTypes, NEW d \in Gpr, NEW cc,
           SkipUnless(cc, t) \in Jumps
    PROVE  Leaves(cpu, emit_movecc(cc, t, d), d, Width(t),
                  IF Taken(SkipUnless(cc, t), cpu.cmp) THEN 0 ELSE -1)
<1> DEFINE w == Width(t)
           jump == SkipUnless(cc, t)
           i == Instr("dec", w, d, Imm(0))
           s1 == emit_movi(t, d, 0)
           s2 == << Jump(jump) >> \o << i >> \o << Bind >>
           c1 == Exec(cpu, s1)
           c2 == Exec(c1, s2)
<1>1. w \in Widths /\ w \in 0 .. W64 /\ "mov" \in AluOps /\ "dec" \in AluOps /\ 0 \in Int
      /\ -1 \in Int
  BY TypeWidth DEF AluOps
<1>2. cpu.gpr[d] \in Int
  BY GprInt DEF Ready
<1>3. Does(cpu, s1, {}, d, w, 0)
  <2>1. Does(cpu, s1, {}, d, w, AluOn("mov", w, cpu.gpr[d], 0))
    BY <1>1, ImmediateCode DEF emit_movi
  <2>2. Low(w, AluOn("mov", w, cpu.gpr[d], 0)) = Low(w, 0)
    <3> HIDE DEF w
    <3>1. QED BY <1>1, <1>2, MovValue
  <2>3. QED BY <2>1, <2>2, Revalue
<1>4. /\ s1 \in Seq(Instrs) /\ c1 \in Ready /\ c1 \in Cpus /\ c1.skip = FALSE /\ c1.cmp = cpu.cmp
      /\ \A z \in Gpr \ {d} : c1.gpr[z] = cpu.gpr[z]
      /\ Low(w, c1.gpr[d]) = Low(w, 0)
  BY <1>3, ReadyAfter DEF Does, Sets
<1>5. i \in Instrs /\ i.op = "dec"
      /\ Sets(c1, ExecOne(c1, i), {}, d, w, AluOn("dec", w, c1.gpr[d], 0))
  <2>1. Imm(0) \in Sources /\ Val(c1.gpr, Imm(0)) = 0
    BY <1>1, RegSource
  <2> HIDE DEF c1, w
  <2>2. QED BY <1>1, <1>4, <2>1, AluStep DEF Instr
<1>6. /\ s2 \in Seq(Instrs)
      /\ Taken(jump, cpu.cmp) => c2 = c1
      /\ ~Taken(jump, cpu.cmp) => c2 = ExecOne(c1, i)
  <2>1. ExecOne(c1, i) \in Ready
    BY <1>5 DEF Sets, Ready
  <2> HIDE DEF c1, i
  <2>2. QED BY <1>1, <1>4, <1>5, <2>1, SkipCode
<1> HIDE DEF c1, i, s1
<1>7. /\ c2 \in Ready /\ \A z \in Gpr \ (R_FREE \cup {d}) : c2.gpr[z] = cpu.gpr[z]
      /\ Low(w, c2.gpr[d]) = Low(w, IF Taken(jump, cpu.cmp) THEN 0 ELSE -1)
  <2> HIDE DEF c2, w, jump
  <2>1. CASE Taken(jump, cpu.cmp)
    BY <1>4, <1>6, <2>1
  <2>2. CASE ~Taken(jump, cpu.cmp)
    <3>1. Sets(c1, c2, {}, d, w, AluOn("dec", w, c1.gpr[d], 0))
      BY <1>5, <1>6, <2>2
    <3>2. AluOn("dec", w, c1.gpr[d], 0) = -1
      <4>1. 0 \in 0 .. 2 ^ w - 1
        BY <1>1, Power
      <4>2. Low(w, 0) = 0
        BY <1>1, <4>1, LowId
      <4>3. AluOn("dec", w, c1.gpr[d], 0) = Low(w, c1.gpr[d]) - 1
        BY DEF AluOn, Alu
      <4>4. QED BY <1>4, <4>2, <4>3
    <3>3. QED BY <1>4, <2>2, <3>1, <3>2 DEF Sets, Ready
  <2>3. QED BY <2>1, <2>2
<1>8. s1 \o s2 \in Seq(Instrs) /\ Exec(cpu, s1 \o s2) = c2
  <2> HIDE DEF s2
  <2>1. QED BY <1>4, <1>6, ExecConcat DEF c1
<1>9. emit_movecc(cc, t, d) = s1 \o s2
  <2>1. << Jump(jump) >> \in Seq(Instrs) /\ << i >> \in Seq(Instrs) /\ << Bind >> \in Seq(Instrs)
    <3>1. Jump(jump) \in Instrs /\ Bind \in Instrs
      <4>1. Imm(0) \in Sources /\ W64 \in Widths /\ 0 \in Gpr
        BY RegSource DEF Widths, Gpr
      <4>2. QED BY <4>1 DEF Jump, Bind, Instr, Instrs
    <3>2. QED BY <1>5, <3>1
  <2>2. emit_movecc(cc, t, d) = s1 \o << Jump(jump) >> \o << i >> \o << Bind >>
    BY DEF emit_movecc, emit_dec, One, RI, s1, i
  <2>3. QED BY <1>4, <2>1, <2>2
<1> HIDE DEF s2, w, jump
<1>10. QED BY <1>7, <1>8, <1>9 DEF Leaves, c2, w, jump

(* The processor compares what the emulator compares.                       *)
LEMMA CompareMeaning ==
    ASSUME NEW t \in IntTypes, NEW op \in CompareOps,
           NEW a \in Int, NEW b \in Int, NEW u \in Int, NEW v \in Int,
           Low(Width(t), a) = Low(Width(t), u), Low(Width(t), b) = Low(Width(t), v)
    PROVE  LET w == Width(t)
               jump == SkipUnless(Conditions[op], t)
           IN  /\ op \in DOMAIN Conditions
               /\ jump \in Jumps
               /\ op_(op, Field(t, u), Field(t, v))
                     = IF Taken(jump, Compare(w, Low(w, a), Low(w, b))) THEN 0 ELSE -1
<1> DEFINE w == Width(t)
           x == Field(t, u)
           y == Field(t, v)
           f == Compare(w, Low(w, a), Low(w, b))
           jump == SkipUnless(Conditions[op], t)
<1>1. w \in 1 .. W64 /\ w \in 0 .. W64
  BY TypeWidth
<1>2. x \in Int /\ y \in Int
  BY FieldLow
<1>3. f.eq <=> x = y
  <2>1. f.eq <=> Low(w, a) = Low(w, b)
    BY DEF Compare
  <2>2. x = y <=> Low(w, u) = Low(w, v)
    <3>1. CASE t \in UnsignedTypes
      BY <3>1 DEF Field
    <3>2. CASE t \notin UnsignedTypes
      <4>1. x = ToSigned(w, u) /\ y = ToSigned(w, v)
        BY <3>2 DEF Field
      <4> HIDE DEF w
      <4>2. QED BY <1>1, <4>1, SignedSame
    <3>3. QED BY <3>1, <3>2
  <2>3. QED BY <2>1, <2>2
<1>4. t \in UnsignedTypes => (f.below <=> x < y)
  BY DEF Compare, Field
<1>5. t \notin UnsignedTypes => (f.less <=> x < y)
  <2>1. f.less <=> ToSigned(w, Low(w, a)) < ToSigned(w, Low(w, b))
    BY DEF Compare
  <2>2. ToSigned(w, Low(w, a)) = ToSigned(w, u) /\ ToSigned(w, Low(w, b)) = ToSigned(w, v)
    BY <1>1, SignedLow
  <2>3. QED BY <2>1, <2>2 DEF Field
<1> HIDE DEF f, x, y
<1>6. /\ t \in UnsignedTypes => ((f.below \/ f.eq) <=> x <= y)
      /\ t \notin UnsignedTypes => ((f.less \/ f.eq) <=> x <= y)
  BY <1>2, <1>3, <1>4, <1>5
<1>7. f.eq \in BOOLEAN /\ f.below \in BOOLEAN /\ f.less \in BOOLEAN
  BY DEF f, Compare
<1>8. /\ Conditions["cmpeq"] = "EQ" /\ Conditions["cmpne"] = "NEQ" /\ Conditions["cmplt"] = "LT"
      /\ Conditions["cmple"] = "LE" /\ Conditions["cmpgt"] = "GT" /\ Conditions["cmpge"] = "GE"
      /\ DOMAIN Conditions = CompareOps
  BY DEF Conditions, CompareOps
<1>9. op \in DOMAIN Conditions /\ jump \in Jumps
      /\ op_(op, x, y) = IF Taken(jump, f) THEN 0 ELSE -1
  <2>1. CASE op = "cmpeq"
    <3>1. jump = "jne"
      BY <1>8, <2>1 DEF SkipUnless
    <3> HIDE DEF jump
    <3>2. QED BY <1>2, <1>3, <1>8, <2>1, <3>1 DEF Jumps, Taken, op_, True, CompareOps
  <2>2. CASE op = "cmpne"
    <3>1. jump = "je"
      BY <1>8, <2>2 DEF SkipUnless
    <3> HIDE DEF jump
    <3>2. QED BY <1>2, <1>3, <1>8, <2>2, <3>1 DEF Jumps, Taken, op_, True, CompareOps
  <2>3. CASE op = "cmplt"
    <3>1. jump = IF t \in UnsignedTypes THEN "jae" ELSE "jge"
      BY <1>8, <2>3 DEF SkipUnless
    <3> HIDE DEF jump
    <3>2. QED BY <1>2, <1>3, <1>4, <1>5, <1>7, <1>8, <2>3, <3>1 DEF Jumps, Taken, op_, True, CompareOps
  <2>4. CASE op = "cmple"
    <3>1. jump = IF t \in UnsignedTypes THEN "ja" ELSE "jg"
      BY <1>8, <2>4 DEF SkipUnless
    <3> HIDE DEF jump
    <3>2. Taken(jump, f) <=> ~(x <= y)
      <4>1. CASE t \in UnsignedTypes
        BY <1>6, <3>1, <4>1 DEF Taken
      <4>2. CASE t \notin UnsignedTypes
        BY <1>6, <3>1, <4>2 DEF Taken
      <4>3. QED BY <4>1, <4>2
    <3>3. op_(op, x, y) = IF x <= y THEN -1 ELSE 0
      BY <2>4 DEF op_, True
    <3>4. op_(op, x, y) = IF Taken(jump, f) THEN 0 ELSE -1
      BY <1>2, <3>2, <3>3
    <3>5. QED BY <1>8, <3>1, <3>4 DEF Jumps, CompareOps
  <2>5. CASE op = "cmpgt"
    <3>1. jump = IF t \in UnsignedTypes THEN "jbe" ELSE "jle"
      BY <1>8, <2>5 DEF SkipUnless
    <3> HIDE DEF jump
    <3>2. Taken(jump, f) <=> x <= y
      <4>1. CASE t \in UnsignedTypes
        BY <1>6, <3>1, <4>1 DEF Taken
      <4>2. CASE t \notin UnsignedTypes
        BY <1>6, <3>1, <4>2 DEF Taken
      <4>3. QED BY <4>1, <4>2
    <3>3. op_(op, x, y) = IF x > y THEN -1 ELSE 0
      BY <2>5 DEF op_, True
    <3>4. op_(op, x, y) = IF Taken(jump, f) THEN 0 ELSE -1
      BY <1>2, <3>2, <3>3
    <3>5. QED BY <1>8, <3>1, <3>4 DEF Jumps, CompareOps
  <2>6. CASE op = "cmpge"
    <3>1. jump = IF t \in UnsignedTypes THEN "jb" ELSE "jl"
      BY <1>8, <2>6 DEF SkipUnless
    <3> HIDE DEF jump
    <3>2. Taken(jump, f) <=> x < y
      <4>1. CASE t \in UnsignedTypes
        BY <1>4, <1>5, <3>1, <4>1 DEF Taken
      <4>2. CASE t \notin UnsignedTypes
        BY <1>4, <1>5, <3>1, <4>2 DEF Taken
      <4>3. QED BY <4>1, <4>2
    <3>3. op_(op, x, y) = IF x >= y THEN -1 ELSE 0
      BY <2>6 DEF op_, True
    <3>4. op_(op, x, y) = IF Taken(jump, f) THEN 0 ELSE -1
      BY <1>2, <3>2, <3>3
    <3>5. QED BY <1>8, <3>1, <3>4 DEF Jumps, CompareOps
  <2>7. QED BY <2>1, <2>2, <2>3, <2>4, <2>5, <2>6 DEF CompareOps
<1>10. QED BY <1>9 DEF f, x, y

(* A comparison and then the selection of 0 or -1.                          *)
LEMMA CompareThen ==
    ASSUME NEW cpu \in Ready, NEW t \in IntTypes, NEW d \in Gpr, NEW op \in CompareOps,
           NEW x \in Gpr, NEW src \in Sources, NEW u \in Int, NEW v \in Int,
           Low(Width(t), cpu.gpr[x]) = Low(Width(t), u),
           Low(Width(t), Val(cpu.gpr, src)) = Low(Width(t), v)
    PROVE  Leaves(cpu, << Instr("cmp", Width(t), x, src) >> \o emit_movecc(Conditions[op], t, d),
                  d, Width(t), op_(op, Field(t, u), Field(t, v)))
<1> DEFINE w == Width(t)
           s1 == << Instr("cmp", w, x, src) >>
           s2 == emit_movecc(Conditions[op], t, d)
           c1 == Exec(cpu, s1)
           jump == SkipUnless(Conditions[op], t)
           a == cpu.gpr[x]
           b == Val(cpu.gpr, src)
           val == op_(op, Field(t, u), Field(t, v))
<1>1. w \in Widths /\ a \in Int /\ b \in Int
  <2>1. cpu.gpr \in [Gpr -> Word]
    BY DEF Ready, Cpus
  <2>2. QED BY <2>1, TypeWidth, GprInt, SourceValue DEF Ready
<1>2. /\ s1 \in Seq(Instrs) /\ c1 \in Ready /\ c1.gpr = cpu.gpr
      /\ c1.cmp = Compare(w, Low(w, a), Low(w, b))
  BY <1>1, CompareCode
<1>3. jump \in Jumps /\ val = IF Taken(jump, Compare(w, Low(w, a), Low(w, b))) THEN 0 ELSE -1
  <2> HIDE DEF a, b
  <2>1. Low(w, a) = Low(w, u) /\ Low(w, b) = Low(w, v)
    BY DEF a, b
  <2>2. QED BY <1>1, <2>1, CompareMeaning
<1>4. Leaves(c1, s2, d, w, val)
  <2> HIDE DEF c1, val
  <2>1. QED BY <1>2, <1>3, MoveccCode
<1>5. /\ s2 \in Seq(Instrs) /\ Exec(c1, s2) \in Ready
      /\ \A z \in Gpr \ (R_FREE \cup {d}) : Exec(c1, s2).gpr[z] = cpu.gpr[z]
      /\ Low(w, Exec(c1, s2).gpr[d]) = Low(w, val)
  BY <1>2, <1>4 DEF Leaves
<1>6. s1 \o s2 \in Seq(Instrs) /\ Exec(cpu, s1 \o s2) = Exec(c1, s2)
  <2> HIDE DEF s1, s2
  <2>1. QED BY <1>2, <1>5, ExecConcat DEF c1
<1> HIDE DEF s1, s2, w, val, c1
<1>7. Leaves(cpu, s1 \o s2, d, w, val)
  BY <1>5, <1>6 DEF Leaves
<1>8. QED BY <1>7 DEF s1, s2, w, val

(* emit_cmpeq and the like: -1 if the comparison holds, 0 else.             *)
LEMMA CompareEmitters ==
    ASSUME NEW cpu \in Ready, NEW t \in IntTypes, NEW d \in Gpr, NEW op \in CompareOps,
           NEW x \in Gpr, NEW u \in Int, Low(Width(t), cpu.gpr[x]) = Low(Width(t), u)
    PROVE  /\ \A y \in Gpr, v \in Int : Low(Width(t), cpu.gpr[y]) = Low(Width(t), v) =>
                  Leaves(cpu, emit_cmpcc(Conditions[op], t, d, x, y),
                         d, Width(t), op_(op, Field(t, u), Field(t, v)))
           /\ \A i \in Int :
                  Leaves(cpu, emit_cmpcci(Conditions[op], t, d, x, i),
                         d, Width(t), op_(op, Field(t, u), Field(t, i)))
<1>1. ASSUME NEW y \in Gpr, NEW v \in Int, Low(Width(t), cpu.gpr[y]) = Low(Width(t), v)
      PROVE  Leaves(cpu, emit_cmpcc(Conditions[op], t, d, x, y),
                    d, Width(t), op_(op, Field(t, u), Field(t, v)))
  <2>1. Reg(y) \in Sources /\ Val(cpu.gpr, Reg(y)) = cpu.gpr[y]
    BY RegSource
  <2>2. QED BY <1>1, <2>1, CompareThen DEF emit_cmpcc, emit_cmp, RR
<1>2. ASSUME NEW i \in Int
      PROVE  Leaves(cpu, emit_cmpcci(Conditions[op], t, d, x, i),
                    d, Width(t), op_(op, Field(t, u), Field(t, i)))
  <2>1. Imm(i) \in Sources /\ Val(cpu.gpr, Imm(i)) = i
    BY RegSource
  <2>2. QED BY <2>1, CompareThen DEF emit_cmpcci, emit_cmpi, RI
<1>3. QED BY <1>1, <1>2

(* Shifts, by a register or by an immediate.                                *)
LEMMA FieldOfCount ==
    ASSUME NEW t \in IntTypes, NEW k \in 0 .. ShiftWidth(Width(t)) - 1
    PROVE  /\ \A x \in Int : Low(Width(t), x) = k => Field(t, x) = k
           /\ Low(W8, k) = k
<1> DEFINE w == Width(t)
<1>1. w \in 0 .. W64 /\ w \in 1 .. W64 /\ W8 - 1 \in 0 .. W64 /\ w - 1 \in 0 .. W64 /\ W8 - 1 <= w - 1
      /\ W8 \in 1 .. W64 /\ W8 \in 0 .. W64
  BY TypeWidth, WidthAssumption
<1>2. k \in Int /\ k < 2 ^ (W8 - 1) /\ k >= 0
  BY WidthAssumption, CountAssumption DEF ShiftWidth
<1>3. 2 ^ (W8 - 1) <= 2 ^ (w - 1) /\ 2 ^ (w - 1) \in Nat
  <2>1. PICK j \in Nat \ {0} : 2 ^ (w - 1) = 2 ^ (W8 - 1) * j
    BY <1>1, Power
  <2> DEFINE m == 2 ^ (W8 - 1)
             h == 2 ^ (w - 1)
  <2>2. m \in Nat /\ h \in Nat
    BY <1>1, Power
  <2>3. h = m * j
    BY <2>1
  <2> HIDE DEF m, h
  <2>4. m <= h
    BY <2>2, <2>3
  <2>5. QED BY <2>2, <2>4 DEF m, h
<1>4. ASSUME NEW x \in Int, Low(w, x) = k
      PROVE  Field(t, x) = k
  <2>1. k < 2 ^ (w - 1)
    <3> DEFINE m == 2 ^ (W8 - 1)
               h == 2 ^ (w - 1)
    <3>1. m \in Int /\ h \in Int /\ m <= h /\ k < m
      BY <1>1, <1>2, <1>3, Power
    <3> HIDE DEF m, h
    <3>2. k < h
      BY <1>2, <3>1
    <3>3. QED BY <3>2 DEF h
  <2>2. ToSigned(w, x) = k
    BY <1>1, <1>4, <2>1, SignedLow
  <2>3. QED BY <1>4, <2>2 DEF Field
<1>5. Low(W8, k) = k
  <2>1. 2 ^ W8 = 2 * 2 ^ (W8 - 1) /\ 2 ^ (W8 - 1) \in Nat
    BY <1>1, Power
  <2>2. k \in 0 .. 2 ^ W8 - 1
    <3> DEFINE m == 2 ^ (W8 - 1)
    <3> HIDE DEF m
    <3>1. m \in Nat /\ k < m /\ k \in Int /\ k >= 0
      BY <1>2, <2>1 DEF m
    <3>2. k \in 0 .. 2 * m - 1
      BY <3>1
    <3>3. QED BY <2>1, <3>2 DEF m
  <2>3. QED BY <1>1, <2>2, LowId
<1>6. QED BY <1>4, <1>5

(* emit_sll, emit_srl and emit_sra compute the shifts of the emulator.      *)
LEMMA ShiftEmitters ==
    ASSUME NEW cpu \in Ready, NEW t \in IntTypes, NEW d \in Gpr \ (R_FREE \cup {rcx}),
           NEW x \in Gpr \ R_FREE, NEW y \in Gpr \ R_FREE,
           NEW u \in Int, NEW k \in 0 .. ShiftWidth(Width(t)) - 1,
           Low(Width(t), cpu.gpr[x]) = Low(Width(t), u),
           Low(Width(t), cpu.gpr[y]) = k
    PROVE  /\ Does(cpu, emit_sll(t, d, x, y), R_FREE, d, Width(t), op_("sll", Low(Width(t), u), k))
           /\ Does(cpu, emit_srl(t, d, x, y), R_FREE, d, Width(t), op_("srl", Low(Width(t), u), k))
           /\ Does(cpu, emit_sra(t, d, x, y), R_FREE, d, Width(t), op_("sra", ToSigned(Width(t), u), k))
<1> DEFINE w == Width(t)
           a == cpu.gpr[x]
           b == cpu.gpr[y]
<1>1. a \in Int /\ b \in Int /\ w \in Widths /\ w \in 0 .. W64 /\ w \in 1 .. W64 /\ W8 \in 0 .. w
  BY GprInt, TypeWidth DEF Ready
<1>2. Low(W8, b) = Low(W8, k)
  <2>1. Low(W8, Low(w, b)) = Low(W8, b)
    BY <1>1, LowOfLow
  <2>2. QED BY <2>1
<1>3. Low(w, u) \in Int /\ Low(w, Low(w, u)) = Low(w, u)
  BY <1>1, LowRange, LowId
<1>4. /\ Low(w, AluOn("shl", w, a, b)) = Low(w, op_("sll", Low(w, u), k))
      /\ AluOn("shr", w, a, b) = op_("srl", Low(w, u), k)
      /\ AluOn("sar", w, a, b) = op_("sra", ToSigned(w, u), k)
  <2>1. Low(w, a) = Low(w, u) /\ ToSigned(w, a) = ToSigned(w, u)
    BY <1>1, SignedSame
  <2>2. k \in 0 .. ShiftWidth(w) - 1
    OBVIOUS
  <2> HIDE DEF w, a, b
  <2> DEFINE z == Low(w, u)
  <2>3. z \in Int /\ Low(w, a) = Low(w, z)
    BY <1>3, <2>1
  <2> HIDE DEF z
  <2>4. /\ Low(w, AluOn("shl", w, a, b)) = Low(w, op_("sll", z, k))
        /\ AluOn("shr", w, a, b) = op_("srl", Low(w, a), k)
        /\ AluOn("sar", w, a, b) = op_("sra", ToSigned(w, a), k)
    BY <1>1, <1>2, <2>2, <2>3, AluShift, AluShiftRight
  <2>5. QED BY <2>1, <2>4 DEF z
<1>5. \A op \in {"shl", "shr", "sar"} :
         Does(cpu, Shift(op, t, d, x, y), R_FREE, d, w, AluOn(op, w, a, b))
  BY ShiftEmitter
<1> HIDE DEF a, b
<1>6. /\ Does(cpu, emit_sll(t, d, x, y), R_FREE, d, w, AluOn("shl", w, a, b))
      /\ Does(cpu, emit_srl(t, d, x, y), R_FREE, d, w, AluOn("shr", w, a, b))
      /\ Does(cpu, emit_sra(t, d, x, y), R_FREE, d, w, AluOn("sar", w, a, b))
  BY <1>5 DEF emit_sll, emit_srl, emit_sra
<1> HIDE DEF w
<1>7. QED BY <1>4, <1>6, Revalue DEF w

(* emit_slli, emit_srli and emit_srai do.                                   *)
LEMMA ShiftImmEmitters ==
    ASSUME NEW cpu \in Ready, NEW t \in IntTypes, NEW d \in Gpr, NEW x \in Gpr,
           NEW u \in Int, NEW k \in 0 .. ShiftWidth(Width(t)) - 1,
           Low(Width(t), cpu.gpr[x]) = Low(Width(t), u)
    PROVE  /\ Does(cpu, emit_slli(t, d, x, k), {}, d, Width(t), op_("sll", Field(t, u), k))
           /\ Does(cpu, emit_srli(t, d, x, k), {}, d, Width(t), op_("srl", Low(Width(t), u), k))
           /\ Does(cpu, emit_srai(t, d, x, k), {}, d, Width(t), op_("sra", ToSigned(Width(t), u), k))
<1> DEFINE w == Width(t)
           a == cpu.gpr[x]
<1>1. a \in Int /\ k \in Int /\ w \in Widths /\ w \in 0 .. W64 /\ w \in 1 .. W64
      /\ {"shl", "shr", "sar"} \subseteq AluOps
  BY GprInt, TypeWidth DEF Ready, AluOps
<1>2. /\ Low(w, AluOn("shl", w, a, k)) = Low(w, op_("sll", Field(t, u), k))
      /\ AluOn("shr", w, a, k) = op_("srl", Low(w, u), k)
      /\ AluOn("sar", w, a, k) = op_("sra", ToSigned(w, u), k)
  <2>1. Low(w, a) = Low(w, u) /\ ToSigned(w, a) = ToSigned(w, u)
    BY <1>1, SignedSame
  <2>2. k \in 0 .. ShiftWidth(w) - 1
    OBVIOUS
  <2>3. Field(t, u) \in Int /\ Low(w, a) = Low(w, Field(t, u))
    BY <2>1, FieldLow
  <2> HIDE DEF w, a
  <2> DEFINE z == Field(t, u)
             y == k
  <2>4. /\ w \in Widths /\ a \in Int /\ y \in Int /\ k \in 0 .. ShiftWidth(w) - 1
        /\ Low(W8, y) = Low(W8, k) /\ z \in Int /\ Low(w, a) = Low(w, z)
    BY <1>1, <2>2, <2>3
  <2> HIDE DEF y, z
  <2>5. /\ Low(w, AluOn("shl", w, a, y)) = Low(w, op_("sll", z, k))
        /\ AluOn("shr", w, a, y) = op_("srl", Low(w, a), k)
        /\ AluOn("sar", w, a, y) = op_("sra", ToSigned(w, a), k)
    <3>1. Low(w, AluOn("shl", w, a, y)) = Low(w, op_("sll", z, k))
      BY <2>4, AluShift
    <3>2. QED BY <2>4, <3>1, AluShiftRight
  <2>6. QED BY <2>1, <2>5 DEF y, z
<1>3. \A op \in {"shl", "shr", "sar"} :
         Does(cpu, emit_src(d, x) \o RI(op, t, d, k), {}, d, w, AluOn(op, w, a, k))
  BY <1>1, SrcImmediateCode
<1> HIDE DEF a
<1>4. /\ Does(cpu, emit_slli(t, d, x, k), {}, d, w, AluOn("shl", w, a, k))
      /\ Does(cpu, emit_srli(t, d, x, k), {}, d, w, AluOn("shr", w, a, k))
      /\ Does(cpu, emit_srai(t, d, x, k), {}, d, w, AluOn("sar", w, a, k))
  BY <1>3 DEF emit_slli, emit_srli, emit_srai
<1> HIDE DEF w
<1>5. QED BY <1>2, <1>4, Revalue DEF w

-----------------------------------------------------------------------------
(* The emulator: numbers, and what it assigns.                              *)
LEMMA OpInt ==
    ASSUME NEW x \in Int, NEW y \in Int
    PROVE  /\ op_neg(x) \in Int /\ op_bnot(x) \in Int
           /\ \A op \in {"add", "sub", "mul", "bor", "band", "bandn", "bxor"} \cup CompareOps :
                op_(op, x, y) \in Int
           /\ y \in 0 .. W64 => \A op \in ShiftOps : op_(op, x, y) \in Int
<1>1. W64 \in 0 .. W64 /\ 2 ^ W64 \in Int
  BY Power
<1>2. Bits(x) \in Int /\ Bits(y) \in Int
  BY <1>1, LowRange DEF Bits
<1>3. op_neg(x) \in Int /\ op_bnot(x) \in Int
  BY <1>1, <1>2 DEF op_neg, op_bnot
<1>4. ASSUME NEW op \in {"add", "sub", "mul", "bor", "band", "bandn", "bxor"}
      PROVE  op_(op, x, y) \in Int
  <2> DEFINE a == Bits(x)
             b == Bits(y)
             e == 2 ^ W64 - 1 - a
  <2>1. a \in Int /\ b \in Int /\ e \in Int
    BY <1>1, <1>2
  <2> HIDE DEF a, b, e
  <2>2. BitAnd(a, b) \in Int /\ BitOr(a, b) \in Int /\ BitXor(a, b) \in Int /\ BitAnd(e, b) \in Int
    BY <2>1, LogicRange
  <2>3. op = "add" => op_(op, x, y) = x + y
    BY DEF op_
  <2>4. op = "sub" => op_(op, x, y) = x - y
    BY DEF op_
  <2>5. op = "mul" => op_(op, x, y) = x * y
    BY DEF op_
  <2>6. op = "bor" => op_(op, x, y) = BitOr(a, b)
    BY DEF op_, a, b
  <2>7. op = "band" => op_(op, x, y) = BitAnd(a, b)
    BY DEF op_, a, b
  <2>8. op = "bandn" => op_(op, x, y) = BitAnd(e, b)
    BY DEF op_, a, b, e
  <2>9. op = "bxor" => op_(op, x, y) = BitXor(a, b)
    BY DEF op_, a, b
  <2>10. QED BY <2>2, <2>3, <2>4, <2>5, <2>6, <2>7, <2>8, <2>9
<1>5. ASSUME NEW op \in CompareOps
      PROVE  op_(op, x, y) \in Int
  BY <1>5 DEF CompareOps, op_, True
<1>6. ASSUME y \in 0 .. W64, NEW op \in ShiftOps
      PROVE  op_(op, x, y) \in Int
  <2> DEFINE m == 2 ^ y
  <2>1. m \in Nat \ {0}
    BY <1>6, Power
  <2>2. op_(op, x, y) = IF op = "sll" THEN x * m ELSE x \div m
    BY DEF ShiftOps, op_
  <2> HIDE DEF m
  <2>3. x * m \in Int /\ x \div m \in Int
    BY <2>1, ModRange
  <2>4. QED BY <2>2, <2>3
<1>7. QED BY <1>3, <1>4, <1>5, <1>6

(* What the emulator assigns: the field, and the bits above it kept.        *)
LEMMA AssignEffect ==
    ASSUME NEW f \in [Regs -> Word], NEW out \in IntTypes, NEW d \in Regs, NEW v \in Int
    PROVE  /\ Assign(f, out, d, v) \in [Regs -> Word]
           /\ \A x \in Regs \ {d} : Assign(f, out, d, v)[x] = f[x]
           /\ Low(Width(out), Assign(f, out, d, v)[d]) = Low(Width(out), v)
<1> DEFINE w == Width(out)
           z == f[d] - Low(w, f[d]) + Low(w, v)
<1>1. w \in 0 .. W64 /\ f[d] \in Word
  BY TypeWidth
<1>2. z \in Word /\ Low(w, z) = Low(w, v)
  <2> HIDE DEF w
  <2>1. QED BY <1>1, LowReplaced DEF w
<1>3. Assign(f, out, d, v) = [f EXCEPT ![d] = z]
  BY DEF Assign, PutField
<1> HIDE DEF z, w
<1>4. QED BY <1>2, <1>3 DEF w

(* Code s and the emulator's step from f to new do the same to register d,  *)
(* at the width of t, and leave the others alone.                           *)
Computes(cpu, s, t, d, f, new) ==
    /\ s \in Seq(Instrs) /\ Exec(cpu, s) \in Ready
    /\ \A z \in Gpr \ (R_FREE \cup {d}) : Exec(cpu, s).gpr[z] = cpu.gpr[z]
    /\ new \in [Regs -> Word]
    /\ \A x \in Regs \ {d} : new[x] = f[x]
    /\ Low(Width(t), Exec(cpu, s).gpr[d]) = Low(Width(t), new[d])

(* Code that leaves the emulator's value computes it.                       *)
LEMMA LeavesComputes ==
    ASSUME NEW cpu, NEW s, NEW t \in IntTypes, NEW out \in IntTypes, Width(out) = Width(t),
           NEW d \in Regs, NEW f \in [Regs -> Word], NEW v \in Int,
           Leaves(cpu, s, d, Width(t), v)
    PROVE  Computes(cpu, s, t, d, f, Assign(f, out, d, v))
<1> DEFINE new == Assign(f, out, d, v)
<1>1. /\ new \in [Regs -> Word] /\ \A x \in Regs \ {d} : new[x] = f[x]
      /\ Low(Width(out), new[d]) = Low(Width(out), v)
  BY AssignEffect
<1> HIDE DEF new
<1>2. Computes(cpu, s, t, d, f, new)
  BY <1>1 DEF Leaves, Computes
<1>3. QED BY <1>2 DEF new

(* The same of code that leaves the flags alone.                            *)
LEMMA DoesComputes ==
    ASSUME NEW cpu, NEW s, NEW X \in SUBSET R_FREE, NEW t \in IntTypes,
           NEW out \in IntTypes, Width(out) = Width(t),
           NEW d \in Regs, NEW f \in [Regs -> Word], NEW v \in Int,
           Does(cpu, s, X, d, Width(t), v)
    PROVE  Computes(cpu, s, t, d, f, Assign(f, out, d, v))
BY DoesLeaves, LeavesComputes

(* The registers an instruction reads hold the same for both machines, in   *)
(* the bits that it reads.                                                  *)
Agrees(cpu, c, f) ==
    /\ c \in Instructions /\ Reads(c) \cup Writes(c) \subseteq Regs
    /\ cpu \in Ready /\ f \in [Regs -> Word]
    /\ \A x \in Reads(c) : Low(Width(c.type), cpu.gpr[x]) = Low(Width(c.type), f[x])

(* The names of comparisons with and without an immediate.                  *)
LEMMA CompareNames ==
    /\ DOMAIN Conditions = CompareOps /\ DOMAIN ConditionsI = CompareImmOps
    /\ \A op \in CompareImmOps : CmpI[op] \in CompareOps /\ ConditionsI[op] = Conditions[CmpI[op]]
<1>1. DOMAIN Conditions = CompareOps /\ DOMAIN ConditionsI = CompareImmOps
  BY DEF Conditions, ConditionsI, CompareOps, CompareImmOps
<1>2. ASSUME NEW op \in CompareImmOps
      PROVE  CmpI[op] \in CompareOps /\ ConditionsI[op] = Conditions[CmpI[op]]
  BY DEF CmpI, ConditionsI, Conditions, CompareOps, CompareImmOps
<1>3. QED BY <1>1, <1>2

(* The operands: numbers that the emulator reads, whatever the field's sign.*)
LEMMA Operands ==
    ASSUME NEW cpu, NEW c, NEW f, Agrees(cpu, c, f)
    PROVE  LET t == c.type
               w == Width(t)
           IN  /\ cpu \in Ready /\ f \in [Regs -> Word] /\ Regs \subseteq Gpr \ R_FREE
               /\ t \in IntTypes /\ Unsigned(t) \in IntTypes /\ SignedOf(t) \in IntTypes
               /\ Width(Unsigned(t)) = w /\ Width(SignedOf(t)) = w
               /\ c.rd \in Gpr /\ c.ri \in Gpr /\ c.rj \in Gpr /\ c.imm \in Int
               /\ \A x \in Reads(c) :
                     /\ x \in Regs /\ x \in Gpr /\ x \notin R_FREE /\ f[x] \in Int
                     /\ Field(t, f[x]) \in Int /\ Low(w, cpu.gpr[x]) = Low(w, Field(t, f[x]))
                     /\ Field(Unsigned(t), f[x]) \in Int
                     /\ Low(w, cpu.gpr[x]) = Low(w, Field(Unsigned(t), f[x]))
<1> DEFINE t == c.type
           w == Width(t)
<1>1. c \in Instructions /\ t \in IntTypes /\ c.rd \in Gpr /\ c.ri \in Gpr /\ c.rj \in Gpr /\ c.imm \in Int
  BY DEF Agrees, Instructions
<1>2. cpu \in Ready /\ f \in [Regs -> Word] /\ Reads(c) \subseteq Regs
      /\ \A x \in Reads(c) : Low(w, cpu.gpr[x]) = Low(w, f[x])
  BY DEF Agrees
<1>3. Regs \subseteq Gpr \ R_FREE
  BY RegsAssumption
<1>4. /\ Unsigned(t) \in IntTypes /\ SignedOf(t) \in IntTypes
      /\ Width(Unsigned(t)) = w /\ Width(SignedOf(t)) = w
  BY <1>1, TypesOfWidth
<1>5. ASSUME NEW x \in Reads(c)
      PROVE  /\ x \in Regs /\ x \in Gpr /\ x \notin R_FREE /\ f[x] \in Int
             /\ Field(t, f[x]) \in Int /\ Low(w, cpu.gpr[x]) = Low(w, Field(t, f[x]))
             /\ Field(Unsigned(t), f[x]) \in Int
             /\ Low(w, cpu.gpr[x]) = Low(w, Field(Unsigned(t), f[x]))
  <2>1. x \in Regs /\ x \in Gpr /\ x \notin R_FREE /\ f[x] \in Word
    BY <1>2, <1>3
  <2>2. f[x] \in Int
    BY <2>1, Power DEF Word
  <2> DEFINE a == f[x]
             ut == Unsigned(t)
  <2>3. Field(t, a) \in Int /\ Low(Width(t), Field(t, a)) = Low(Width(t), a)
    BY <1>1, <2>2, FieldLow
  <2>4. Field(ut, a) \in Int /\ Low(Width(ut), Field(ut, a)) = Low(Width(ut), a)
    <3> HIDE DEF ut, a
    <3>1. ut \in IntTypes /\ a \in Int
      BY <1>4, <2>2 DEF ut, a
    <3>2. QED BY <3>1, FieldLow
  <2>5. QED BY <1>2, <1>4, <2>1, <2>2, <2>3, <2>4
<1>6. QED BY <1>1, <1>2, <1>3, <1>4, <1>5

(* The registers that the kinds of instructions read.                       *)
LEMMA ReadsOf ==
    ASSUME NEW c
    PROVE  /\ c.op \in BinaryOps => Reads(c) = {c.ri, c.rj}
           /\ c.op \in UnaryOps \cup ImmOps => Reads(c) = {c.ri}
           /\ c.op \in {"jz", "jnz", "ret"} => Reads(c) = {c.rd}
<1>1. c.op \in BinaryOps => Reads(c) = {c.ri, c.rj}
  BY DEF Reads, BinaryOps, UnaryOps, ImmOps, ShiftOps, ShiftImmOps, CompareOps, CompareImmOps
<1>2. c.op \in UnaryOps \cup ImmOps => Reads(c) = {c.ri}
  BY DEF Reads, BinaryOps, UnaryOps, ImmOps, ShiftOps, ShiftImmOps, CompareOps, CompareImmOps
<1>3. c.op \in {"jz", "jnz", "ret"} => Reads(c) = {c.rd}
  BY DEF Reads, BinaryOps, UnaryOps, ImmOps, ShiftOps, ShiftImmOps, CompareOps, CompareImmOps
<1>4. QED BY <1>1, <1>2, <1>3

-----------------------------------------------------------------------------
(* Instruction by instruction: what is emitted computes what is emulated.   *)
LEMMA BinaryInstructions ==
    ASSUME NEW cpu, NEW c, NEW f, Agrees(cpu, c, f), c.rd \in Regs,
           c.op \in {"add", "sub", "rsub", "mul", "band", "bandn", "bor", "bxor"}
    PROVE  Computes(cpu, emit_instruction(c, c.type), c.type, c.rd, f, emulate_one(c, c.type, f))
<1> DEFINE t == c.type
           d == c.rd
           i == c.ri
           j == c.rj
           ut == Unsigned(t)
           a == Field(t, f[i])
           b == Field(t, f[j])
           ua == Field(ut, f[i])
           ub == Field(ut, f[j])
<1>1. i \in Reads(c) /\ j \in Reads(c)
  BY ReadsOf DEF BinaryOps
<1>2. /\ cpu \in Ready /\ f \in [Regs -> Word] /\ t \in IntTypes /\ ut \in IntTypes
      /\ Width(ut) = Width(t) /\ d \in Gpr /\ d \in Regs
      /\ i \in Gpr /\ j \in Gpr /\ j \in Gpr \ R_FREE
      /\ a \in Int /\ b \in Int /\ ua \in Int /\ ub \in Int
      /\ Low(Width(t), cpu.gpr[i]) = Low(Width(t), a) /\ Low(Width(t), cpu.gpr[j]) = Low(Width(t), b)
      /\ Low(Width(t), cpu.gpr[i]) = Low(Width(t), ua) /\ Low(Width(t), cpu.gpr[j]) = Low(Width(t), ub)
  BY <1>1, Operands
<1>3. /\ op_("add", a, b) \in Int /\ op_("sub", a, b) \in Int /\ op_("sub", b, a) \in Int
      /\ op_("mul", a, b) \in Int /\ op_("band", ua, ub) \in Int /\ op_("bandn", ua, ub) \in Int
      /\ op_("bor", ua, ub) \in Int /\ op_("bxor", ua, ub) \in Int
  BY <1>2, OpInt
<1>4. c.op \notin CompareOps /\ c.op \notin CompareImmOps
  BY DEF CompareOps, CompareImmOps
<1>5. CASE c.op = "add"
  <2>1. emit_instruction(c, t) = emit_add(t, d, i, j)
    BY <1>4, <1>5, CompareNames DEF emit_instruction
  <2>2. emulate_one(c, t, f) = Assign(f, t, d, op_("add", a, b))
    BY <1>4, <1>5 DEF emulate_one, emu_add, EMU_XXX_rrr, Binary
  <2>3. Does(cpu, emit_add(t, d, i, j), {}, d, Width(t), op_("add", a, b))
    <3> HIDE DEF t, a, b, ua, ub, i, j, d
    <3>1. QED BY <1>2, CommutativeEmitters
  <2> HIDE DEF t, a, b, ua, ub, i, j, d, ut
  <2>4. Computes(cpu, emit_add(t, d, i, j), t, d, f, Assign(f, t, d, op_("add", a, b)))
    BY <1>2, <1>3, <2>3, DoesComputes
  <2>5. QED BY <2>1, <2>2, <2>4 DEF t, d
<1>6. CASE c.op = "sub"
  <2>1. emit_instruction(c, t) = emit_sub(t, d, i, j)
    BY <1>4, <1>6, CompareNames DEF emit_instruction
  <2>2. emulate_one(c, t, f) = Assign(f, t, d, op_("sub", a, b))
    BY <1>4, <1>6 DEF emulate_one, emu_sub, EMU_XXX_rrr, Binary
  <2>3. Does(cpu, emit_sub(t, d, i, j), {}, d, Width(t), op_("sub", a, b))
    <3> HIDE DEF t, a, b, ua, ub, i, j, d
    <3>1. QED BY <1>2, SubEmitter
  <2> HIDE DEF t, a, b, ua, ub, i, j, d, ut
  <2>4. Computes(cpu, emit_sub(t, d, i, j), t, d, f, Assign(f, t, d, op_("sub", a, b)))
    BY <1>2, <1>3, <2>3, DoesComputes
  <2>5. QED BY <2>1, <2>2, <2>4 DEF t, d
<1>7. CASE c.op = "rsub"
  <2>1. emit_instruction(c, t) = emit_sub(t, d, j, i)
    BY <1>4, <1>7, CompareNames DEF emit_instruction, emit_rsub
  <2>2. emulate_one(c, t, f) = Assign(f, t, d, op_("sub", b, a))
    BY <1>4, <1>7 DEF emulate_one, emu_rsub, EMU_XXX_rrr, Binary
  <2>3. Does(cpu, emit_sub(t, d, j, i), {}, d, Width(t), op_("sub", b, a))
    <3> HIDE DEF t, a, b, ua, ub, i, j, d
    <3>1. QED BY <1>2, SubEmitter
  <2> HIDE DEF t, a, b, ua, ub, i, j, d, ut
  <2>4. Computes(cpu, emit_sub(t, d, j, i), t, d, f, Assign(f, t, d, op_("sub", b, a)))
    BY <1>2, <1>3, <2>3, DoesComputes
  <2>5. QED BY <2>1, <2>2, <2>4 DEF t, d
<1>8. CASE c.op = "mul"
  <2>1. emit_instruction(c, t) = emit_mul(t, d, i, j)
    BY <1>4, <1>8, CompareNames DEF emit_instruction
  <2>2. emulate_one(c, t, f) = Assign(f, t, d, op_("mul", a, b))
    BY <1>4, <1>8 DEF emulate_one, emu_mul, EMU_XXX_rrr, Binary
  <2>3. Does(cpu, emit_mul(t, d, i, j), {}, d, Width(t), op_("mul", a, b))
    <3> HIDE DEF t, a, b, ua, ub, i, j, d
    <3>1. QED BY <1>2, CommutativeEmitters
  <2> HIDE DEF t, a, b, ua, ub, i, j, d, ut
  <2>4. Computes(cpu, emit_mul(t, d, i, j), t, d, f, Assign(f, t, d, op_("mul", a, b)))
    BY <1>2, <1>3, <2>3, DoesComputes
  <2>5. QED BY <2>1, <2>2, <2>4 DEF t, d
<1>9. CASE c.op = "band"
  <2>1. emit_instruction(c, t) = emit_band(t, d, i, j)
    BY <1>4, <1>9, CompareNames DEF emit_instruction
  <2>2. emulate_one(c, t, f) = Assign(f, ut, d, op_("band", ua, ub))
    BY <1>4, <1>9 DEF emulate_one, emu_band, TFURdij, Binary
  <2>3. Does(cpu, emit_band(t, d, i, j), {}, d, Width(t), op_("band", ua, ub))
    <3> HIDE DEF t, a, b, ua, ub, i, j, d
    <3>1. QED BY <1>2, CommutativeEmitters
  <2> HIDE DEF t, a, b, ua, ub, i, j, d, ut
  <2>4. Computes(cpu, emit_band(t, d, i, j), t, d, f, Assign(f, ut, d, op_("band", ua, ub)))
    BY <1>2, <1>3, <2>3, DoesComputes
  <2>5. QED BY <2>1, <2>2, <2>4 DEF t, d
<1>10. CASE c.op = "bandn"
  <2>1. emit_instruction(c, t) = emit_bandn(t, d, i, j)
    BY <1>4, <1>10, CompareNames DEF emit_instruction
  <2>2. emulate_one(c, t, f) = Assign(f, ut, d, op_("bandn", ua, ub))
    BY <1>4, <1>10 DEF emulate_one, emu_bandn, TFURdij, Binary
  <2>3. Does(cpu, emit_bandn(t, d, i, j), R_FREE, d, Width(t), op_("bandn", ua, ub))
    <3> HIDE DEF t, a, b, ua, ub, i, j, d
    <3>1. QED BY <1>2, BandnEmitter
  <2> HIDE DEF t, a, b, ua, ub, i, j, d, ut
  <2>4. Computes(cpu, emit_bandn(t, d, i, j), t, d, f, Assign(f, ut, d, op_("bandn", ua, ub)))
    BY <1>2, <1>3, <2>3, DoesComputes
  <2>5. QED BY <2>1, <2>2, <2>4 DEF t, d
<1>11. CASE c.op = "bor"
  <2>1. emit_instruction(c, t) = emit_bor(t, d, i, j)
    BY <1>4, <1>11, CompareNames DEF emit_instruction
  <2>2. emulate_one(c, t, f) = Assign(f, ut, d, op_("bor", ua, ub))
    BY <1>4, <1>11 DEF emulate_one, emu_bor, TFURdij, Binary
  <2>3. Does(cpu, emit_bor(t, d, i, j), {}, d, Width(t), op_("bor", ua, ub))
    <3> HIDE DEF t, a, b, ua, ub, i, j, d
    <3>1. QED BY <1>2, CommutativeEmitters
  <2> HIDE DEF t, a, b, ua, ub, i, j, d, ut
  <2>4. Computes(cpu, emit_bor(t, d, i, j), t, d, f, Assign(f, ut, d, op_("bor", ua, ub)))
    BY <1>2, <1>3, <2>3, DoesComputes
  <2>5. QED BY <2>1, <2>2, <2>4 DEF t, d
<1>12. CASE c.op = "bxor"
  <2>1. emit_instruction(c, t) = emit_bxor(t, d, i, j)
    BY <1>4, <1>12, CompareNames DEF emit_instruction
  <2>2. emulate_one(c, t, f) = Assign(f, ut, d, op_("bxor", ua, ub))
    BY <1>4, <1>12 DEF emulate_one, emu_bxor, TFURdij, Binary
  <2>3. Does(cpu, emit_bxor(t, d, i, j), {}, d, Width(t), op_("bxor", ua, ub))
    <3> HIDE DEF t, a, b, ua, ub, i, j, d
    <3>1. QED BY <1>2, CommutativeEmitters
  <2> HIDE DEF t, a, b, ua, ub, i, j, d, ut
  <2>4. Computes(cpu, emit_bxor(t, d, i, j), t, d, f, Assign(f, ut, d, op_("bxor", ua, ub)))
    BY <1>2, <1>3, <2>3, DoesComputes
  <2>5. QED BY <2>1, <2>2, <2>4 DEF t, d
<1>13. QED BY <1>5, <1>6, <1>7, <1>8, <1>9, <1>10, <1>11, <1>12

(* mov, neg and bnot.                                                       *)
LEMMA UnaryInstructions ==
    ASSUME NEW cpu, NEW c, NEW f, Agrees(cpu, c, f), c.rd \in Regs, c.op \in {"mov", "neg", "bnot"}
    PROVE  Computes(cpu, emit_instruction(c, c.type), c.type, c.rd, f, emulate_one(c, c.type, f))
<1> DEFINE t == c.type
           d == c.rd
           i == c.ri
           ut == Unsigned(t)
           a == Field(t, f[i])
           ua == Field(ut, f[i])
<1>1. i \in Reads(c)
  BY ReadsOf DEF UnaryOps
<1>2. /\ cpu \in Ready /\ f \in [Regs -> Word] /\ t \in IntTypes /\ ut \in IntTypes
      /\ Width(ut) = Width(t) /\ d \in Gpr /\ d \in Regs /\ i \in Gpr
      /\ a \in Int /\ ua \in Int
      /\ Low(Width(t), cpu.gpr[i]) = Low(Width(t), a) /\ Low(Width(t), cpu.gpr[i]) = Low(Width(t), ua)
  BY <1>1, Operands
<1>3. op_neg(a) \in Int /\ op_bnot(ua) \in Int
  BY <1>2, OpInt
<1>4. c.op \notin CompareOps /\ c.op \notin CompareImmOps
  BY DEF CompareOps, CompareImmOps
<1>5. CASE c.op = "mov"
  <2>1. emit_instruction(c, t) = emit_movr(t, d, i)
    BY <1>4, <1>5, CompareNames DEF emit_instruction
  <2>2. emulate_one(c, t, f) = Assign(f, t, d, a)
    BY <1>4, <1>5 DEF emulate_one, emu_mov, TFRdi_mov
  <2>3. Does(cpu, emit_movr(t, d, i), {}, d, Width(t), a)
    <3>1. Does(cpu, emit_movr(t, d, i), {}, d, Width(t), cpu.gpr[i])
      BY <1>2, MovrCode
    <3>2. QED BY <1>2, <3>1, Revalue
  <2> HIDE DEF t, a, ua, i, d, ut
  <2>4. Computes(cpu, emit_movr(t, d, i), t, d, f, Assign(f, t, d, a))
    BY <1>2, <1>3, <2>3, DoesComputes
  <2>5. QED BY <2>1, <2>2, <2>4 DEF t, d
<1>6. CASE c.op = "neg"
  <2>1. emit_instruction(c, t) = emit_neg(t, d, i)
    BY <1>4, <1>6, CompareNames DEF emit_instruction
  <2>2. emulate_one(c, t, f) = Assign(f, t, d, op_neg(a))
    BY <1>4, <1>6 DEF emulate_one, emu_neg, TFRdi_neg
  <2>3. Does(cpu, emit_neg(t, d, i), {}, d, Width(t), op_neg(a))
    <3> HIDE DEF t, a, ua, i, d
    <3>1. 0 \in Int
      OBVIOUS
    <3>2. QED BY <1>2, <3>1, ImmediateEmitters
  <2> HIDE DEF t, a, ua, i, d, ut
  <2>4. Computes(cpu, emit_neg(t, d, i), t, d, f, Assign(f, t, d, op_neg(a)))
    BY <1>2, <1>3, <2>3, DoesComputes
  <2>5. QED BY <2>1, <2>2, <2>4 DEF t, d
<1>7. CASE c.op = "bnot"
  <2>1. emit_instruction(c, t) = emit_bnot(t, d, i)
    BY <1>4, <1>7, CompareNames DEF emit_instruction
  <2>2. emulate_one(c, t, f) = Assign(f, ut, d, op_bnot(ua))
    BY <1>4, <1>7 DEF emulate_one, emu_bnot, TFURdi
  <2>3. Does(cpu, emit_bnot(t, d, i), {}, d, Width(t), op_bnot(ua))
    <3> HIDE DEF t, a, ua, i, d
    <3>1. 0 \in Int
      OBVIOUS
    <3>2. QED BY <1>2, <3>1, ImmediateEmitters
  <2> HIDE DEF t, a, ua, i, d, ut
  <2>4. Computes(cpu, emit_bnot(t, d, i), t, d, f, Assign(f, ut, d, op_bnot(ua)))
    BY <1>2, <1>3, <2>3, DoesComputes
  <2>5. QED BY <2>1, <2>2, <2>4 DEF t, d
<1>8. QED BY <1>5, <1>6, <1>7

(* movi.                                                                    *)
LEMMA MoviInstruction ==
    ASSUME NEW cpu, NEW c, NEW f, Agrees(cpu, c, f), c.rd \in Regs, c.op = "movi"
    PROVE  Computes(cpu, emit_instruction(c, c.type), c.type, c.rd, f, emulate_one(c, c.type, f))
<1> DEFINE t == c.type
           d == c.rd
           m == c.imm
           w == Width(t)
<1>1. /\ cpu \in Ready /\ f \in [Regs -> Word] /\ t \in IntTypes /\ d \in Gpr /\ d \in Regs /\ m \in Int
      /\ w \in Widths
  BY Operands, TypeWidth
<1>2. emit_instruction(c, t) = emit_movi(t, d, m)
  BY CompareNames DEF emit_instruction, CompareOps, CompareImmOps
<1>3. emulate_one(c, t, f) = Assign(f, t, d, m)
  BY DEF emulate_one, emu_movi, TFRdimm12, CompareOps, CompareImmOps
<1>4. Does(cpu, emit_movi(t, d, m), {}, d, w, m)
  <2>1. "mov" \in AluOps /\ cpu.gpr[d] \in Int
    BY <1>1, GprInt DEF AluOps, Ready
  <2>2. Does(cpu, emit_movi(t, d, m), {}, d, w, AluOn("mov", w, cpu.gpr[d], m))
    BY <1>1, <2>1, ImmediateCode DEF emit_movi
  <2> HIDE DEF t, d, m, w
  <2>3. Low(w, AluOn("mov", w, cpu.gpr[d], m)) = Low(w, m)
    BY <1>1, <2>1, MovValue
  <2>4. QED BY <2>2, <2>3, Revalue
<1> HIDE DEF t, d, m
<1>5. Computes(cpu, emit_movi(t, d, m), t, d, f, Assign(f, t, d, m))
  BY <1>1, <1>4, DoesComputes
<1>6. QED BY <1>2, <1>3, <1>5 DEF t, d

(* addi and the like.                                                       *)
LEMMA ImmInstructions ==
    ASSUME NEW cpu, NEW c, NEW f, Agrees(cpu, c, f), c.rd \in Regs,
           c.op \in {"addi", "subi", "rsubi", "muli", "bandi", "bandni", "bori", "bxori"}
    PROVE  Computes(cpu, emit_instruction(c, c.type), c.type, c.rd, f, emulate_one(c, c.type, f))
<1> DEFINE t == c.type
           d == c.rd
           i == c.ri
           m == c.imm
           a == Field(t, f[i])
<1>1. i \in Reads(c)
  BY ReadsOf DEF ImmOps
<1>2. /\ cpu \in Ready /\ f \in [Regs -> Word] /\ t \in IntTypes
      /\ d \in Gpr /\ d \in Regs /\ i \in Gpr /\ m \in Int /\ a \in Int
      /\ Low(Width(t), cpu.gpr[i]) = Low(Width(t), a)
  BY <1>1, Operands
<1>3. /\ op_("add", a, m) \in Int /\ op_("sub", a, m) \in Int /\ op_("sub", m, a) \in Int
      /\ op_("mul", a, m) \in Int /\ op_("band", a, m) \in Int /\ op_("bandn", a, m) \in Int
      /\ op_("bor", a, m) \in Int /\ op_("bxor", a, m) \in Int
  BY <1>2, OpInt
<1>4. c.op \notin CompareOps /\ c.op \notin CompareImmOps
  BY DEF CompareOps, CompareImmOps
<1>5. CASE c.op = "addi"
  <2>1. emit_instruction(c, t) = emit_addi(t, d, i, m)
    BY <1>4, <1>5, CompareNames DEF emit_instruction
  <2>2. emulate_one(c, t, f) = Assign(f, t, d, op_("add", a, m))
    BY <1>4, <1>5 DEF emulate_one, emu_addi, EMU_XXS_rrb, BinaryImm
  <2> HIDE DEF t, a, i, d, m
  <2>3. Does(cpu, emit_addi(t, d, i, m), {}, d, Width(t), op_("add", a, m))
    BY <1>2, ImmediateEmitters
  <2>4. Computes(cpu, emit_addi(t, d, i, m), t, d, f, Assign(f, t, d, op_("add", a, m)))
    BY <1>2, <1>3, <2>3, DoesComputes
  <2>5. QED BY <2>1, <2>2, <2>4 DEF t, d
<1>6. CASE c.op = "subi"
  <2>1. emit_instruction(c, t) = emit_subi(t, d, i, m)
    BY <1>4, <1>6, CompareNames DEF emit_instruction
  <2>2. emulate_one(c, t, f) = Assign(f, t, d, op_("sub", a, m))
    BY <1>4, <1>6 DEF emulate_one, emu_subi, EMU_XXS_rrb, BinaryImm
  <2> HIDE DEF t, a, i, d, m
  <2>3. Does(cpu, emit_subi(t, d, i, m), {}, d, Width(t), op_("sub", a, m))
    BY <1>2, ImmediateEmitters
  <2>4. Computes(cpu, emit_subi(t, d, i, m), t, d, f, Assign(f, t, d, op_("sub", a, m)))
    BY <1>2, <1>3, <2>3, DoesComputes
  <2>5. QED BY <2>1, <2>2, <2>4 DEF t, d
<1>7. CASE c.op = "rsubi"
  <2>1. emit_instruction(c, t) = emit_rsubi(t, d, i, m)
    BY <1>4, <1>7, CompareNames DEF emit_instruction
  <2>2. emulate_one(c, t, f) = Assign(f, t, d, op_("sub", m, a))
    BY <1>4, <1>7 DEF emulate_one, emu_rsubi, TFRd8i
  <2> HIDE DEF t, a, i, d, m
  <2>3. Does(cpu, emit_rsubi(t, d, i, m), {}, d, Width(t), op_("sub", m, a))
    BY <1>2, RsubiEmitter
  <2>4. Computes(cpu, emit_rsubi(t, d, i, m), t, d, f, Assign(f, t, d, op_("sub", m, a)))
    BY <1>2, <1>3, <2>3, DoesComputes
  <2>5. QED BY <2>1, <2>2, <2>4 DEF t, d
<1>8. CASE c.op = "muli"
  <2>1. emit_instruction(c, t) = emit_muli(t, d, i, m)
    BY <1>4, <1>8, CompareNames DEF emit_instruction
  <2>2. emulate_one(c, t, f) = Assign(f, t, d, op_("mul", a, m))
    BY <1>4, <1>8 DEF emulate_one, emu_muli, EMU_XXS_rrb, BinaryImm
  <2> HIDE DEF t, a, i, d, m
  <2>3. Does(cpu, emit_muli(t, d, i, m), {}, d, Width(t), op_("mul", a, m))
    BY <1>2, ImmediateEmitters
  <2>4. Computes(cpu, emit_muli(t, d, i, m), t, d, f, Assign(f, t, d, op_("mul", a, m)))
    BY <1>2, <1>3, <2>3, DoesComputes
  <2>5. QED BY <2>1, <2>2, <2>4 DEF t, d
<1>9. CASE c.op = "bandi"
  <2>1. emit_instruction(c, t) = emit_bandi(t, d, i, m)
    BY <1>4, <1>9, CompareNames DEF emit_instruction
  <2>2. emulate_one(c, t, f) = Assign(f, t, d, op_("band", a, m))
    BY <1>4, <1>9 DEF emulate_one, emu_bandi, EMU_XXS_rrb, BinaryImm
  <2> HIDE DEF t, a, i, d, m
  <2>3. Does(cpu, emit_bandi(t, d, i, m), {}, d, Width(t), op_("band", a, m))
    BY <1>2, ImmediateEmitters
  <2>4. Computes(cpu, emit_bandi(t, d, i, m), t, d, f, Assign(f, t, d, op_("band", a, m)))
    BY <1>2, <1>3, <2>3, DoesComputes
  <2>5. QED BY <2>1, <2>2, <2>4 DEF t, d
<1>10. CASE c.op = "bandni"
  <2>1. emit_instruction(c, t) = emit_bandni(t, d, i, m)
    BY <1>4, <1>10, CompareNames DEF emit_instruction
  <2>2. emulate_one(c, t, f) = Assign(f, t, d, op_("bandn", a, m))
    BY <1>4, <1>10 DEF emulate_one, emu_bandni, EMU_XXS_rrb, BinaryImm
  <2> HIDE DEF t, a, i, d, m
  <2>3. Does(cpu, emit_bandni(t, d, i, m), R_FREE, d, Width(t), op_("bandn", a, m))
    BY <1>2, BandniEmitter
  <2>4. Computes(cpu, emit_bandni(t, d, i, m), t, d, f, Assign(f, t, d, op_("bandn", a, m)))
    BY <1>2, <1>3, <2>3, DoesComputes
  <2>5. QED BY <2>1, <2>2, <2>4 DEF t, d
<1>11. CASE c.op = "bori"
  <2>1. emit_instruction(c, t) = emit_bori(t, d, i, m)
    BY <1>4, <1>11, CompareNames DEF emit_instruction
  <2>2. emulate_one(c, t, f) = Assign(f, t, d, op_("bor", a, m))
    BY <1>4, <1>11 DEF emulate_one, emu_bori, EMU_XXS_rrb, BinaryImm
  <2> HIDE DEF t, a, i, d, m
  <2>3. Does(cpu, emit_bori(t, d, i, m), {}, d, Width(t), op_("bor", a, m))
    BY <1>2, ImmediateEmitters
  <2>4. Computes(cpu, emit_bori(t, d, i, m), t, d, f, Assign(f, t, d, op_("bor", a, m)))
    BY <1>2, <1>3, <2>3, DoesComputes
  <2>5. QED BY <2>1, <2>2, <2>4 DEF t, d
<1>12. CASE c.op = "bxori"
  <2>1. emit_instruction(c, t) = emit_bxori(t, d, i, m)
    BY <1>4, <1>12, CompareNames DEF emit_instruction
  <2>2. emulate_one(c, t, f) = Assign(f, t, d, op_("bxor", a, m))
    BY <1>4, <1>12 DEF emulate_one, emu_bxori, EMU_XXS_rrb, BinaryImm
  <2> HIDE DEF t, a, i, d, m
  <2>3. Does(cpu, emit_bxori(t, d, i, m), {}, d, Width(t), op_("bxor", a, m))
    BY <1>2, ImmediateEmitters
  <2>4. Computes(cpu, emit_bxori(t, d, i, m), t, d, f, Assign(f, t, d, op_("bxor", a, m)))
    BY <1>2, <1>3, <2>3, DoesComputes
  <2>5. QED BY <2>1, <2>2, <2>4 DEF t, d
<1>13. QED BY <1>5, <1>6, <1>7, <1>8, <1>9, <1>10, <1>11, <1>12

(* Shifts by a register: what they compute, unless rcx is written.          *)
LEMMA ShiftInstructions ==
    ASSUME NEW cpu, NEW c, NEW f, Agrees(cpu, c, f), c.rd \in Regs, c.op \in ShiftOps,
           Low(Width(c.type), f[c.rj]) \in 0 .. ShiftWidth(Width(c.type)) - 1
    PROVE  /\ emulate_one(c, c.type, f) \in [Regs -> Word]
           /\ c.rd # rcx =>
                Computes(cpu, emit_instruction(c, c.type), c.type, c.rd, f, emulate_one(c, c.type, f))
<1> DEFINE t == c.type
           d == c.rd
           i == c.ri
           j == c.rj
           ut == Unsigned(t)
           st == SignedOf(t)
           w == Width(t)
           u == f[i]
           k == Low(w, f[j])
<1>1. i \in Reads(c) /\ j \in Reads(c)
  BY ReadsOf DEF BinaryOps
<1>2. /\ cpu \in Ready /\ f \in [Regs -> Word] /\ t \in IntTypes /\ ut \in IntTypes /\ st \in IntTypes
      /\ Width(ut) = w /\ Width(st) = w /\ d \in Gpr /\ d \in Regs /\ d \in Gpr \ R_FREE
      /\ i \in Gpr \ R_FREE /\ j \in Gpr \ R_FREE /\ u \in Int /\ f[j] \in Int
      /\ k \in 0 .. ShiftWidth(w) - 1
  BY <1>1, Operands
<1>3. Low(w, cpu.gpr[i]) = Low(w, u) /\ Low(w, cpu.gpr[j]) = k
  BY <1>1 DEF Agrees
<1>4. /\ Field(ut, u) = Low(w, u) /\ Field(ut, f[j]) = k
      /\ Field(st, u) = ToSigned(w, u) /\ Field(st, f[j]) = k
  <2>1. ut \in UnsignedTypes /\ st \notin UnsignedTypes
    BY <1>2, TypesOfWidth
  <2>2. Field(st, f[j]) = k
    <3> DEFINE y == f[j]
    <3>1. y \in Int /\ k \in 0 .. ShiftWidth(Width(st)) - 1 /\ Low(Width(st), y) = k
      BY <1>2
    <3> HIDE DEF k, st, y
    <3>2. Field(st, y) = k
      BY <1>2, <3>1, FieldOfCount
    <3>3. QED BY <3>2 DEF y
  <2>3. QED BY <1>2, <2>1, <2>2 DEF Field
<1>5. Low(w, u) \in Int /\ ToSigned(w, u) \in Int
  BY <1>2, TypeWidth, LowRange, SignedLow
<1>6. k \in Int /\ k \in 0 .. W64
  BY <1>2, WidthAssumption DEF ShiftWidth
<1>7. /\ op_("sll", Low(w, u), k) \in Int /\ op_("srl", Low(w, u), k) \in Int
      /\ op_("sra", ToSigned(w, u), k) \in Int
  <2> DEFINE x == Low(w, u)
             y == ToSigned(w, u)
  <2>1. x \in Int /\ y \in Int
    BY <1>5
  <2> HIDE DEF x, y, k
  <2>2. op_("sll", x, k) \in Int /\ op_("srl", x, k) \in Int /\ op_("sra", y, k) \in Int
    BY <1>6, <2>1, OpInt DEF ShiftOps
  <2>3. QED BY <2>2 DEF x, y
<1>8. ASSUME d # rcx
      PROVE  /\ Does(cpu, emit_sll(t, d, i, j), R_FREE, d, w, op_("sll", Low(w, u), k))
             /\ Does(cpu, emit_srl(t, d, i, j), R_FREE, d, w, op_("srl", Low(w, u), k))
             /\ Does(cpu, emit_sra(t, d, i, j), R_FREE, d, w, op_("sra", ToSigned(w, u), k))
  <2> HIDE DEF t, d, i, j, u, k
  <2>1. d \in Gpr \ (R_FREE \cup {rcx})
    BY <1>2, <1>8
  <2>2. QED BY <1>2, <1>3, <2>1, ShiftEmitters
<1>9. c.op \notin CompareOps /\ c.op \notin CompareImmOps
  BY DEF CompareOps, CompareImmOps, ShiftOps
<1>10. CASE c.op = "sll"
  <2>1. emit_instruction(c, t) = emit_sll(t, d, i, j)
    BY <1>9, <1>10, CompareNames DEF emit_instruction
  <2>2. emulate_one(c, t, f) = Assign(f, ut, d, op_("sll", Field(ut, u), Field(ut, f[j])))
    BY <1>9, <1>10 DEF emulate_one, emu_sll, TUFURdij, Binary
  <2> HIDE DEF t, d, i, j, u, k, ut, st, w
  <2>3. d # rcx => Computes(cpu, emit_sll(t, d, i, j), t, d, f, Assign(f, ut, d, op_("sll", Low(w, u), k)))
    BY <1>2, <1>7, <1>8, DoesComputes DEF w
  <2>4. Assign(f, ut, d, op_("sll", Low(w, u), k)) \in [Regs -> Word]
    BY <1>2, <1>7, AssignEffect
  <2>5. QED BY <1>4, <2>1, <2>2, <2>3, <2>4 DEF t, d
<1>11. CASE c.op = "srl"
  <2>1. emit_instruction(c, t) = emit_srl(t, d, i, j)
    BY <1>9, <1>11, CompareNames DEF emit_instruction
  <2>2. emulate_one(c, t, f) = Assign(f, ut, d, op_("srl", Field(ut, u), Field(ut, f[j])))
    BY <1>9, <1>11 DEF emulate_one, emu_srl, TUFURdij, Binary
  <2> HIDE DEF t, d, i, j, u, k, ut, st, w
  <2>3. d # rcx => Computes(cpu, emit_srl(t, d, i, j), t, d, f, Assign(f, ut, d, op_("srl", Low(w, u), k)))
    BY <1>2, <1>7, <1>8, DoesComputes DEF w
  <2>4. Assign(f, ut, d, op_("srl", Low(w, u), k)) \in [Regs -> Word]
    BY <1>2, <1>7, AssignEffect
  <2>5. QED BY <1>4, <2>1, <2>2, <2>3, <2>4 DEF t, d
<1>12. CASE c.op = "sra"
  <2>1. emit_instruction(c, t) = emit_sra(t, d, i, j)
    BY <1>9, <1>12, CompareNames DEF emit_instruction
  <2>2. emulate_one(c, t, f) = Assign(f, st, d, op_("sra", Field(st, u), Field(st, f[j])))
    BY <1>9, <1>12 DEF emulate_one, emu_sra, TIFIRdij, Binary
  <2> HIDE DEF t, d, i, j, u, k, ut, st, w
  <2>3. d # rcx => Computes(cpu, emit_sra(t, d, i, j), t, d, f, Assign(f, st, d, op_("sra", ToSigned(w, u), k)))
    BY <1>2, <1>7, <1>8, DoesComputes DEF w
  <2>4. Assign(f, st, d, op_("sra", ToSigned(w, u), k)) \in [Regs -> Word]
    BY <1>2, <1>7, AssignEffect
  <2>5. QED BY <1>4, <2>1, <2>2, <2>3, <2>4 DEF t, d
<1>13. QED BY <1>10, <1>11, <1>12 DEF ShiftOps

(* Shifts by an immediate.                                                  *)
LEMMA ShiftImmInstructions ==
    ASSUME NEW cpu, NEW c, NEW f, Agrees(cpu, c, f), c.rd \in Regs, c.op \in ShiftImmOps,
           c.imm \in 0 .. ShiftWidth(Width(c.type)) - 1
    PROVE  Computes(cpu, emit_instruction(c, c.type), c.type, c.rd, f, emulate_one(c, c.type, f))
<1> DEFINE t == c.type
           d == c.rd
           i == c.ri
           k == c.imm
           ut == Unsigned(t)
           st == SignedOf(t)
           w == Width(t)
           u == f[i]
<1>1. i \in Reads(c)
  BY ReadsOf DEF ImmOps
<1>2. /\ cpu \in Ready /\ f \in [Regs -> Word] /\ t \in IntTypes /\ ut \in IntTypes /\ st \in IntTypes
      /\ Width(ut) = w /\ Width(st) = w /\ d \in Gpr /\ d \in Regs
      /\ i \in Gpr /\ u \in Int /\ k \in 0 .. ShiftWidth(w) - 1
  BY <1>1, Operands
<1>3. Low(w, cpu.gpr[i]) = Low(w, u)
  BY <1>1 DEF Agrees
<1>4. Field(ut, u) = Low(w, u) /\ Field(st, u) = ToSigned(w, u)
  <2>1. ut \in UnsignedTypes /\ st \notin UnsignedTypes
    BY <1>2, TypesOfWidth
  <2>2. QED BY <1>2, <2>1 DEF Field
<1>5. Low(w, u) \in Int /\ ToSigned(w, u) \in Int /\ Field(t, u) \in Int
  BY <1>2, TypeWidth, LowRange, SignedLow, FieldLow
<1>6. k \in Int /\ k \in 0 .. W64
  BY <1>2, WidthAssumption DEF ShiftWidth
<1>7. /\ op_("sll", Field(t, u), k) \in Int /\ op_("srl", Low(w, u), k) \in Int
      /\ op_("sra", ToSigned(w, u), k) \in Int
  <2> DEFINE x == Low(w, u)
             y == ToSigned(w, u)
             z == Field(t, u)
  <2>1. x \in Int /\ y \in Int /\ z \in Int
    BY <1>5
  <2> HIDE DEF x, y, z, k
  <2>2. op_("sll", z, k) \in Int /\ op_("srl", x, k) \in Int /\ op_("sra", y, k) \in Int
    BY <1>6, <2>1, OpInt DEF ShiftOps
  <2>3. QED BY <2>2 DEF x, y, z
<1>8. /\ Does(cpu, emit_slli(t, d, i, k), {}, d, w, op_("sll", Field(t, u), k))
      /\ Does(cpu, emit_srli(t, d, i, k), {}, d, w, op_("srl", Low(w, u), k))
      /\ Does(cpu, emit_srai(t, d, i, k), {}, d, w, op_("sra", ToSigned(w, u), k))
  <2> HIDE DEF t, d, i, u, k
  <2>1. QED BY <1>2, <1>3, ShiftImmEmitters
<1>9. c.op \notin CompareOps /\ c.op \notin CompareImmOps
  BY DEF CompareOps, CompareImmOps, ShiftImmOps
<1>10. CASE c.op = "slli"
  <2>1. emit_instruction(c, t) = emit_slli(t, d, i, k)
    BY <1>9, <1>10, CompareNames DEF emit_instruction
  <2>2. emulate_one(c, t, f) = Assign(f, t, d, op_("sll", Field(t, u), k))
    BY <1>9, <1>10 DEF emulate_one, emu_slli, EMU_XXS_rrb, BinaryImm
  <2> HIDE DEF t, d, i, u, k, ut, st, w
  <2>3. Computes(cpu, emit_slli(t, d, i, k), t, d, f, Assign(f, t, d, op_("sll", Field(t, u), k)))
    BY <1>2, <1>7, <1>8, DoesComputes DEF w
  <2>4. QED BY <1>4, <2>1, <2>2, <2>3 DEF t, d
<1>11. CASE c.op = "srli"
  <2>1. emit_instruction(c, t) = emit_srli(t, d, i, k)
    BY <1>9, <1>11, CompareNames DEF emit_instruction
  <2>2. emulate_one(c, t, f) = Assign(f, ut, d, op_("srl", Field(ut, u), k))
    BY <1>9, <1>11 DEF emulate_one, emu_srli, TFURdi8, BinaryImm
  <2> HIDE DEF t, d, i, u, k, ut, st, w
  <2>3. Computes(cpu, emit_srli(t, d, i, k), t, d, f, Assign(f, ut, d, op_("srl", Low(w, u), k)))
    BY <1>2, <1>7, <1>8, DoesComputes DEF w
  <2>4. QED BY <1>4, <2>1, <2>2, <2>3 DEF t, d
<1>12. CASE c.op = "srai"
  <2>1. emit_instruction(c, t) = emit_srai(t, d, i, k)
    BY <1>9, <1>12, CompareNames DEF emit_instruction
  <2>2. emulate_one(c, t, f) = Assign(f, st, d, op_("sra", Field(st, u), k))
    BY <1>9, <1>12 DEF emulate_one, emu_srai, TFIRdi8, BinaryImm
  <2> HIDE DEF t, d, i, u, k, ut, st, w
  <2>3. Computes(cpu, emit_srai(t, d, i, k), t, d, f, Assign(f, st, d, op_("sra", ToSigned(w, u), k)))
    BY <1>2, <1>7, <1>8, DoesComputes DEF w
  <2>4. QED BY <1>4, <2>1, <2>2, <2>3 DEF t, d
<1>13. QED BY <1>10, <1>11, <1>12 DEF ShiftImmOps

(* Comparisons, with a register or with an immediate.                       *)
LEMMA CompareInstructions ==
    ASSUME NEW cpu, NEW c, NEW f, Agrees(cpu, c, f), c.rd \in Regs, c.op \in CompareOps \cup CompareImmOps
    PROVE  Computes(cpu, emit_instruction(c, c.type), c.type, c.rd, f, emulate_one(c, c.type, f))
<1> DEFINE t == c.type
           d == c.rd
           i == c.ri
           j == c.rj
           m == c.imm
           st == SignedOf(t)
           w == Width(t)
           u == f[i]
           a == Field(t, u)
<1>1. i \in Reads(c)
  BY ReadsOf DEF BinaryOps, ImmOps
<1>2. /\ cpu \in Ready /\ f \in [Regs -> Word] /\ t \in IntTypes /\ st \in IntTypes
      /\ Width(st) = w /\ d \in Gpr /\ d \in Regs /\ i \in Gpr /\ j \in Gpr /\ m \in Int
      /\ u \in Int /\ a \in Int
  BY <1>1, Operands
<1>3. Low(w, cpu.gpr[i]) = Low(w, u)
  BY <1>1 DEF Agrees
<1>4. CASE c.op \in CompareOps
  <2> DEFINE v == f[j]
             x == op_(c.op, a, Field(t, v))
  <2>1. j \in Reads(c)
    BY <1>4, ReadsOf DEF BinaryOps
  <2>2. Low(w, cpu.gpr[j]) = Low(w, v) /\ v \in Int /\ Field(t, v) \in Int
    BY <2>1, Operands DEF Agrees
  <2>3. emit_instruction(c, t) = emit_cmpcc(Conditions[c.op], t, d, i, j)
    BY <1>4, CompareNames DEF emit_instruction, CompareOps, CompareImmOps
  <2>4. emulate_one(c, t, f) = Assign(f, st, d, x)
    BY <1>4 DEF emulate_one, emu_cmp, TFIRdij, Binary, CompareOps, CompareImmOps
  <2>5. x \in Int
    BY <1>2, <1>4, <2>2, OpInt
  <2>6. Leaves(cpu, emit_cmpcc(Conditions[c.op], t, d, i, j), d, w, x)
    <3> HIDE DEF t, d, i, j, u, v
    <3>1. QED BY <1>2, <1>3, <1>4, <2>2, CompareEmitters
  <2> HIDE DEF t, d, i, j, st, x, w
  <2>7. Computes(cpu, emit_cmpcc(Conditions[c.op], t, d, i, j), t, d, f, Assign(f, st, d, x))
    BY <1>2, <2>5, <2>6, LeavesComputes DEF w
  <2>8. QED BY <2>3, <2>4, <2>7 DEF t, d
<1>5. CASE c.op \in CompareImmOps
  <2> DEFINE op == CmpI[c.op]
             x == op_(op, a, Field(t, m))
  <2>1. op \in CompareOps /\ ConditionsI[c.op] = Conditions[op]
    BY <1>5, CompareNames
  <2>2. Field(t, m) \in Int
    BY <1>2, FieldLow
  <2>3. emit_instruction(c, t) = emit_cmpcci(Conditions[op], t, d, i, m)
    <3>1. emit_instruction(c, t) = emit_cmpcci(ConditionsI[c.op], t, d, i, m)
      BY <1>5, CompareNames DEF emit_instruction, CompareOps, CompareImmOps
    <3>2. QED BY <2>1, <3>1
  <2>4. emulate_one(c, t, f) = Assign(f, st, d, x)
    BY <1>5 DEF emulate_one, emu_cmpi, srx_di8, BinaryImm, CompareOps, CompareImmOps
  <2>5. x \in Int
    <3> HIDE DEF op
    <3>1. QED BY <1>2, <2>1, <2>2, OpInt
  <2>6. Leaves(cpu, emit_cmpcci(Conditions[op], t, d, i, m), d, w, x)
    <3> HIDE DEF t, d, i, u, m, op
    <3>1. QED BY <1>2, <1>3, <2>1, CompareEmitters
  <2> HIDE DEF t, d, i, m, st, x, w, op
  <2>7. Computes(cpu, emit_cmpcci(Conditions[op], t, d, i, m), t, d, f, Assign(f, st, d, x))
    BY <1>2, <2>5, <2>6, LeavesComputes DEF w
  <2>8. QED BY <2>3, <2>4, <2>7 DEF t, d
<1>6. QED BY <1>4, <1>5

(* What C defines, of register file f.                                      *)
Defined(c, f) ==
    /\ c.op \in ShiftOps => Low(Width(c.type), f[c.rj]) \in 0 .. ShiftWidth(Width(c.type)) - 1
    /\ c.op \in ShiftImmOps => c.imm \in 0 .. ShiftWidth(Width(c.type)) - 1

Others == {"nop", "ret"} \cup JumpOps

(* Every instruction: the emulator's result is a register file, and the     *)
(* code computes it, except for the shift whose destination is the count's  *)
(* register.                                                                *)
LEMMA InstructionCode ==
    ASSUME NEW cpu, NEW c, NEW f, Agrees(cpu, c, f), Defined(c, f), c.op \notin Others
    PROVE  /\ Writes(c) = {c.rd} /\ c.rd \in Regs
           /\ emulate_one(c, c.type, f) \in [Regs -> Word]
           /\ ~(c.op \in ShiftOps /\ c.rd = rcx) =>
                Computes(cpu, emit_instruction(c, c.type), c.type, c.rd, f, emulate_one(c, c.type, f))
<1> DEFINE Good == Computes(cpu, emit_instruction(c, c.type), c.type, c.rd, f,
                            emulate_one(c, c.type, f))
<1>1. c.op \in Operations /\ Writes(c) \subseteq Regs
  BY DEF Agrees, Instructions
<1>2. c.op \in BinaryOps \cup UnaryOps \cup ImmOps \cup {"movi"}
  BY <1>1 DEF Operations, Others
<1>3. Writes(c) = {c.rd} /\ c.rd \in Regs
  BY <1>1, <1>2 DEF Writes
<1>4. CASE c.op \in {"add", "sub", "rsub", "mul", "band", "bandn", "bor", "bxor"}
  <2>1. Good
    BY <1>3, <1>4, BinaryInstructions
  <2>2. QED BY <1>3, <2>1 DEF Computes
<1>5. CASE c.op \in UnaryOps
  <2>1. Good
    BY <1>3, <1>5, UnaryInstructions DEF UnaryOps
  <2>2. QED BY <1>3, <2>1 DEF Computes
<1>6. CASE c.op = "movi"
  <2>1. Good
    BY <1>3, <1>6, MoviInstruction
  <2>2. QED BY <1>3, <2>1 DEF Computes
<1>7. CASE c.op \in {"addi", "subi", "rsubi", "muli", "bandi", "bandni", "bori", "bxori"}
  <2>1. Good
    BY <1>3, <1>7, ImmInstructions
  <2>2. QED BY <1>3, <2>1 DEF Computes
<1>8. CASE c.op \in ShiftOps
  <2>1. emulate_one(c, c.type, f) \in [Regs -> Word] /\ (c.rd # rcx => Good)
    BY <1>3, <1>8, ShiftInstructions DEF Defined
  <2>2. QED BY <1>3, <1>8, <2>1
<1>9. CASE c.op \in ShiftImmOps
  <2>1. Good
    BY <1>3, <1>9, ShiftImmInstructions DEF Defined
  <2>2. QED BY <1>3, <2>1 DEF Computes
<1>10. CASE c.op \in CompareOps \cup CompareImmOps
  <2>1. Good
    BY <1>3, <1>10, CompareInstructions
  <2>2. QED BY <1>3, <2>1 DEF Computes
<1>11. QED BY <1>2, <1>4, <1>5, <1>6, <1>7, <1>8, <1>9, <1>10 DEF BinaryOps, ImmOps

-----------------------------------------------------------------------------
(* Whatever the registers hold, the processor stays a processor: code is    *)
(* made of its instructions.                                                *)
Code == Seq(Instrs)

(* Pieces put together are code.                                            *)
LEMMA CodePieces ==
    /\ << >> \in Code
    /\ \A s, u \in Code : s \o u \in Code
    /\ \A i \in Instrs : << i >> \in Code
BY DEF Code

(* Single instructions are code.                                            *)
LEMMA CodeOne ==
    ASSUME NEW op \in AluOps \cup {"cmp"}, NEW t \in IntTypes, NEW d \in Gpr
    PROVE  /\ \A x \in Gpr : RR(op, t, d, x) \in Code
           /\ \A i \in Int : RI(op, t, d, i) \in Code
<1>1. Width(t) \in Widths
  BY TypeWidth
<1>2. ASSUME NEW src \in Sources
      PROVE  << Instr(op, Width(t), d, src) >> \in Code
  <2>1. Instr(op, Width(t), d, src) \in Instrs
    BY <1>1 DEF Instr, Instrs
  <2>2. QED BY <2>1, CodePieces
<1>3. QED BY <1>2, RegSource DEF RR, RI

(* Moves are.                                                               *)
LEMMA CodeMoves ==
    ASSUME NEW t \in IntTypes, NEW d \in Gpr, NEW x \in Gpr
    PROVE  /\ << Instr("mov", W64, d, Reg(x)) >> \in Code
           /\ emit_src(d, x) \in Code /\ emit_mov(t, d, x) \in Code /\ emit_movr(t, d, x) \in Code
<1>1. W64 \in Widths /\ "mov" \in AluOps
  BY DEF Widths, AluOps
<1>2. Instr("mov", W64, d, Reg(x)) \in Instrs
  BY <1>1, RegSource DEF Instr, Instrs
<1>3. << Instr("mov", W64, d, Reg(x)) >> \in Code
  BY <1>2, CodePieces
<1>4. RR("mov", t, d, x) \in Code
  BY <1>1, CodeOne
<1>5. QED BY <1>3, <1>4, CodePieces DEF emit_src, emit_mov, emit_movr

(* Products are.                                                            *)
LEMMA CodeImul ==
    ASSUME NEW t \in IntTypes, NEW d \in Gpr, NEW src \in Sources
    PROVE  imul(t, d, src) \in Code
<1>1. Width(t) \in Widths /\ W16 \in Widths /\ W8 \in 0 .. W64 /\ 2 ^ W8 - 1 \in Int
  BY TypeWidth, WidthAssumption, Power DEF Widths
<1>2. Imm(2 ^ W8 - 1) \in Sources
  BY <1>1, RegSource
<1>3. /\ Instr("and", W16, d, Imm(2 ^ W8 - 1)) \in Instrs
      /\ Instr("imul", W16, d, src) \in Instrs
      /\ Instr("imul", Width(t), d, src) \in Instrs
  BY <1>1, <1>2 DEF Instr, Instrs, AluOps
<1>4. QED BY <1>3 DEF imul, Code

(* A comparison with a jump behind it is.                                   *)
LEMMA CodeJump ==
    ASSUME NEW cc \in {"EQ", "NEQ", "LT", "LE", "GT", "GE"}, NEW t \in IntTypes, NEW d \in Gpr
    PROVE  emit_movecc(cc, t, d) \in Code
<1>1. SkipUnless(cc, t) \in Jumps
  BY DEF SkipUnless, Jumps
<1>2. Jump(SkipUnless(cc, t)) \in Instrs /\ Bind \in Instrs
  <2>1. Imm(0) \in Sources /\ W64 \in Widths /\ 0 \in Gpr
    BY RegSource DEF Widths, Gpr
  <2> DEFINE jump == SkipUnless(cc, t)
  <2> HIDE DEF jump
  <2>2. jump \in Jumps
    BY <1>1 DEF jump
  <2>3. QED BY <2>1, <2>2 DEF Jump, Bind, Instr, Instrs, jump
<1>3. emit_movi(t, d, 0) \in Code /\ emit_dec(t, d) \in Code
  <2>1. "mov" \in AluOps /\ "dec" \in AluOps /\ 0 \in Int
    BY DEF AluOps
  <2>2. QED BY <2>1, CodeOne DEF emit_movi, emit_dec, One
<1>4. QED BY <1>2, <1>3, CodePieces DEF emit_movecc

(* What the emitters with two sources emit is code.                         *)
LEMMA CodeEmitters ==
    ASSUME NEW t \in IntTypes, NEW d \in Gpr, NEW x \in Gpr, NEW y \in Gpr
    PROVE  /\ emit_neg(t, d, x) \in Code /\ emit_bnot(t, d, x) \in Code
           /\ emit_add(t, d, x, y) \in Code /\ emit_mul(t, d, x, y) \in Code
           /\ emit_band(t, d, x, y) \in Code /\ emit_bor(t, d, x, y) \in Code
           /\ emit_bxor(t, d, x, y) \in Code
           /\ \A op \in {"shl", "shr", "sar"} : Shift(op, t, d, x, y) \in Code
<1> DEFINE o == one_src(d, x, y)
<1>1. o \in Gpr /\ 0 \in Int /\ {"neg", "not", "add", "and", "or", "xor"} \subseteq AluOps \cup {"cmp"}
  BY DEF one_src, AluOps
<1>2. emit_src(d, x) \in Code /\ emit_one_src(t, d, x, y) \in Code
  BY CodeMoves, CodePieces DEF emit_one_src
<1>3. /\ \A op \in {"neg", "not"} : One(op, t, d) \in Code
      /\ \A op \in {"add", "and", "or", "xor"} : RR(op, t, d, o) \in Code
  BY <1>1, CodeOne DEF One
<1>4. emit_neg(t, d, x) \in Code /\ emit_bnot(t, d, x) \in Code
  BY <1>2, <1>3, CodePieces DEF emit_neg, emit_bnot, emit_neg_dst
<1>5. /\ emit_add(t, d, x, y) \in Code /\ emit_band(t, d, x, y) \in Code
      /\ emit_bor(t, d, x, y) \in Code /\ emit_bxor(t, d, x, y) \in Code
  <2>1. \A op \in {"add", "and", "or", "xor"} : emit_one_src(t, d, x, y) \o RR(op, t, d, o) \in Code
    BY <1>2, <1>3, CodePieces
  <2>2. QED BY <2>1 DEF emit_add, emit_band, emit_bor, emit_bxor
<1>6. emit_mul(t, d, x, y) \in Code
  <2>1. Reg(o) \in Sources
    BY <1>1, RegSource
  <2>2. imul(t, d, Reg(o)) \in Code
    BY <2>1, CodeImul
  <2>3. QED BY <1>2, <2>2, CodePieces DEF emit_mul
<1>7. ASSUME NEW op \in {"shl", "shr", "sar"}
      PROVE  Shift(op, t, d, x, y) \in Code
  <2>1. T0 \in Gpr /\ T1 \in Gpr /\ rcx \in Gpr
    BY Temporaries
  <2>2. /\ << Instr("mov", W64, T0, Reg(rcx)) >> \in Code
        /\ emit_movr(t, T1, x) \in Code /\ emit_movr(t, rcx, y) \in Code
        /\ emit_movr(t, d, T1) \in Code
        /\ << Instr("mov", W64, rcx, Reg(T0)) >> \in Code
    BY <2>1, CodeMoves
  <2>3. RR(op, t, T1, rcx) \in Code
    <3>1. op \in AluOps \cup {"cmp"}
      BY DEF AluOps
    <3>2. QED BY <2>1, <3>1, CodeOne
  <2>4. QED BY <2>2, <2>3, CodePieces DEF Shift
<1>8. QED BY <1>4, <1>5, <1>6, <1>7

(* What the emitters with an immediate emit is.                             *)
LEMMA CodeImmEmitters ==
    ASSUME NEW t \in IntTypes, NEW d \in Gpr, NEW x \in Gpr, NEW k \in Int
    PROVE  /\ emit_addi(t, d, x, k) \in Code /\ emit_subi(t, d, x, k) \in Code
           /\ emit_muli(t, d, x, k) \in Code /\ emit_rsubi(t, d, x, k) \in Code
           /\ emit_bandi(t, d, x, k) \in Code /\ emit_bori(t, d, x, k) \in Code
           /\ emit_bxori(t, d, x, k) \in Code /\ emit_bandni(t, d, x, k) \in Code
           /\ emit_slli(t, d, x, k) \in Code /\ emit_srli(t, d, x, k) \in Code
           /\ emit_srai(t, d, x, k) \in Code
<1>1. ASSUME NEW u \in Gpr, NEW op \in {"add", "sub", "and", "or", "xor", "shl", "shr", "sar"}
      PROVE  emit_src(d, u) \o RI(op, t, d, k) \in Code
  <2>1. op \in AluOps \cup {"cmp"}
    BY DEF AluOps
  <2>2. RI(op, t, d, k) \in Code /\ emit_src(d, u) \in Code
    BY <2>1, CodeOne, CodeMoves
  <2>3. QED BY <2>2, CodePieces
<1>2. \A u \in Gpr : /\ emit_addi(t, d, u, k) \in Code /\ emit_subi(t, d, u, k) \in Code
                     /\ emit_bandi(t, d, u, k) \in Code /\ emit_bori(t, d, u, k) \in Code
                     /\ emit_bxori(t, d, u, k) \in Code /\ emit_slli(t, d, u, k) \in Code
                     /\ emit_srli(t, d, u, k) \in Code /\ emit_srai(t, d, u, k) \in Code
  BY <1>1 DEF emit_addi, emit_subi, emit_bandi, emit_bori, emit_bxori, emit_slli, emit_srli, emit_srai
<1>3. emit_muli(t, d, x, k) \in Code
  <2>1. imul(t, d, Imm(k)) \in Code /\ emit_src(d, x) \in Code
    BY RegSource, CodeImul, CodeMoves
  <2>2. QED BY <2>1, CodePieces DEF emit_muli
<1>4. emit_rsubi(t, d, x, k) \in Code
  BY <1>2, CodeEmitters, CodePieces DEF emit_rsubi
<1>5. emit_bandni(t, d, x, k) \in Code
  <2>1. T0 \in Gpr
    BY Temporaries
  <2>2. emit_mov(t, T0, x) \in Code /\ emit_bnot(t, T0, T0) \in Code
    BY <2>1, CodeMoves, CodeEmitters
  <2>3. QED BY <1>2, <2>1, <2>2, CodePieces DEF emit_bandni
<1>6. QED BY <1>2, <1>3, <1>4, <1>5

(* What sub and bandn emit is.                                              *)
LEMMA CodeLongEmitters ==
    ASSUME NEW t \in IntTypes, NEW d \in Gpr, NEW x \in Gpr, NEW y \in Gpr
    PROVE  emit_sub(t, d, x, y) \in Code /\ emit_bandn(t, d, x, y) \in Code
<1>1. {"sub", "xor"} \subseteq AluOps \cup {"cmp"} /\ T0 \in Gpr
  BY Temporaries DEF AluOps
<1>2. RR("sub", t, d, y) \in Code /\ emit_zero(t, d) \in Code /\ emit_movr(t, d, x) \in Code
  BY <1>1, CodeOne, CodeMoves DEF emit_zero
<1>3. emit_neg(t, d, d) \in Code /\ emit_add(t, d, x, d) \in Code
  BY CodeEmitters
<1>4. emit_neg(t, d, d) \o emit_add(t, d, x, d) \in Code
      /\ emit_movr(t, d, x) \o RR("sub", t, d, y) \in Code
  BY <1>2, <1>3, CodePieces
<1>5. emit_sub(t, d, x, y) \in Code
  BY <1>2, <1>4 DEF emit_sub
<1>6. emit_mov(t, T0, x) \in Code /\ emit_bnot(t, T0, T0) \in Code /\ emit_band(t, d, T0, y) \in Code
  BY <1>1, CodeMoves, CodeEmitters
<1>7. emit_mov(t, T0, x) \o emit_bnot(t, T0, T0) \o emit_band(t, d, T0, y) \in Code
  BY <1>6, CodePieces
<1>8. emit_bandn(t, d, x, y) \in Code
  BY <1>2, <1>7 DEF emit_bandn
<1>9. QED BY <1>5, <1>8

(* Every instruction is emitted as code.                                    *)
LEMMA InstructionTyped ==
    ASSUME NEW c \in Instructions
    PROVE  /\ c.op \notin JumpOps \cup {"ret"} => emit_instruction(c, c.type) \in Code
           /\ emit_cmpi(c.type, c.rd, 0) \in Code
<1> DEFINE t == c.type
           d == c.rd
           i == c.ri
           j == c.rj
           m == c.imm
           e == emit_instruction(c, t)
<1>1. t \in IntTypes /\ d \in Gpr /\ i \in Gpr /\ j \in Gpr /\ m \in Int /\ 0 \in Int
      /\ c.op \in Operations
  BY DEF Instructions
<1>2. emit_cmpi(t, d, 0) \in Code
  <2>1. "cmp" \in AluOps \cup {"cmp"}
    OBVIOUS
  <2>2. QED BY <1>1, <2>1, CodeOne DEF emit_cmpi
<1>3. ASSUME c.op \in {"add", "sub", "rsub", "mul", "band", "bandn", "bor", "bxor"} \cup ShiftOps
      PROVE  e \in Code
  <2>1. /\ emit_add(t, d, i, j) \in Code /\ emit_mul(t, d, i, j) \in Code
        /\ emit_band(t, d, i, j) \in Code /\ emit_bor(t, d, i, j) \in Code
        /\ emit_bxor(t, d, i, j) \in Code
        /\ \A op \in {"shl", "shr", "sar"} : Shift(op, t, d, i, j) \in Code
    BY <1>1, CodeEmitters
  <2>2. /\ emit_sub(t, d, i, j) \in Code /\ emit_sub(t, d, j, i) \in Code
        /\ emit_bandn(t, d, i, j) \in Code
    BY <1>1, CodeLongEmitters
  <2>3. e \in {emit_add(t, d, i, j), emit_sub(t, d, i, j), emit_sub(t, d, j, i), emit_mul(t, d, i, j),
               emit_band(t, d, i, j), emit_bandn(t, d, i, j), emit_bor(t, d, i, j),
               emit_bxor(t, d, i, j), emit_sll(t, d, i, j), emit_srl(t, d, i, j), emit_sra(t, d, i, j)}
    BY <1>3, CompareNames DEF emit_instruction, emit_rsub, ShiftOps, CompareOps, CompareImmOps
  <2>4. emit_sll(t, d, i, j) \in Code /\ emit_srl(t, d, i, j) \in Code /\ emit_sra(t, d, i, j) \in Code
    BY <2>1 DEF emit_sll, emit_srl, emit_sra
  <2> HIDE DEF e, t, d, i, j
  <2>5. QED BY <2>1, <2>2, <2>3, <2>4
<1>4. ASSUME c.op \in {"nop", "movi"} \cup UnaryOps
      PROVE  e \in Code
  <2>1. /\ << >> \in Code /\ emit_movr(t, d, i) \in Code
        /\ emit_neg(t, d, i) \in Code /\ emit_bnot(t, d, i) \in Code
    BY <1>1, CodePieces, CodeMoves, CodeEmitters
  <2>2. emit_movi(t, d, m) \in Code
    <3>1. "mov" \in AluOps \cup {"cmp"}
      BY DEF AluOps
    <3>2. QED BY <1>1, <3>1, CodeOne DEF emit_movi
  <2>3. e \in {<< >>, emit_movr(t, d, i), emit_movi(t, d, m), emit_neg(t, d, i), emit_bnot(t, d, i)}
    BY <1>4, CompareNames DEF emit_instruction, UnaryOps, CompareOps, CompareImmOps
  <2> HIDE DEF e
  <2>4. QED BY <2>1, <2>2, <2>3
<1>5. ASSUME c.op \in {"addi", "subi", "rsubi", "muli", "bandi", "bandni", "bori", "bxori"} \cup ShiftImmOps
      PROVE  e \in Code
  <2>1. e \in {emit_addi(t, d, i, m), emit_subi(t, d, i, m), emit_rsubi(t, d, i, m),
               emit_muli(t, d, i, m), emit_bandi(t, d, i, m), emit_bandni(t, d, i, m),
               emit_bori(t, d, i, m), emit_bxori(t, d, i, m), emit_slli(t, d, i, m),
               emit_srli(t, d, i, m), emit_srai(t, d, i, m)}
    BY <1>5, CompareNames DEF emit_instruction, ShiftImmOps, CompareOps, CompareImmOps
  <2> HIDE DEF e, t, d, i, m
  <2>2. QED BY <1>1, <2>1, CodeImmEmitters
<1>6. ASSUME c.op \in CompareOps \cup CompareImmOps
      PROVE  e \in Code
  <2>1. /\ \A op \in CompareOps : Conditions[op] \in {"EQ", "NEQ", "LT", "LE", "GT", "GE"}
        /\ \A op \in CompareImmOps : ConditionsI[op] \in {"EQ", "NEQ", "LT", "LE", "GT", "GE"}
    BY DEF Conditions, ConditionsI, CompareOps, CompareImmOps
  <2>2. emit_cmp(t, i, j) \in Code /\ emit_cmpi(t, i, m) \in Code
    <3>1. "cmp" \in AluOps \cup {"cmp"}
      OBVIOUS
    <3>2. QED BY <1>1, <3>1, CodeOne DEF emit_cmpi, emit_cmp
  <2>3. c.op \in CompareOps => e = emit_cmp(t, i, j) \o emit_movecc(Conditions[c.op], t, d)
    BY CompareNames DEF emit_instruction, emit_cmpcc, CompareOps, CompareImmOps
  <2>4. c.op \in CompareImmOps => e = emit_cmpi(t, i, m) \o emit_movecc(ConditionsI[c.op], t, d)
    BY CompareNames DEF emit_instruction, emit_cmpcci, CompareOps, CompareImmOps
  <2>5. /\ c.op \in CompareOps => emit_movecc(Conditions[c.op], t, d) \in Code
        /\ c.op \in CompareImmOps => emit_movecc(ConditionsI[c.op], t, d) \in Code
    BY <1>1, <2>1, CodeJump
  <2> HIDE DEF e, t, i, j, m, d
  <2>6. QED BY <1>6, <2>2, <2>3, <2>4, <2>5, CodePieces
<1>7. c.op \notin JumpOps \cup {"ret"} => e \in Code
  BY <1>1, <1>3, <1>4, <1>5, <1>6 DEF Operations, BinaryOps, ImmOps
<1>8. QED BY <1>2, <1>7

(* Code takes a processor to a processor, whatever its flags.               *)
LEMMA ExecTyped ==
    ASSUME NEW cpu \in Cpus, NEW s \in Code
    PROVE  Exec(cpu, s) \in Cpus
<1>1. ASSUME NEW c \in Cpus, NEW i \in Instrs
      PROVE  ExecOne(c, i) \in Cpus
  <2>1. c.gpr \in [Gpr -> Word] /\ c.cmp \in Flags /\ c.skip \in BOOLEAN
    BY DEF Cpus
  <2>2. i.op \in AluOps \cup Jumps \cup {"cmp", "bind"} /\ i.w \in Widths /\ i.dst \in Gpr /\ i.src \in Sources
    BY DEF Instrs
  <2>3. "bind" \notin Jumps /\ "cmp" \notin Jumps /\ "bind" \notin AluOps /\ "cmp" \notin AluOps
        /\ AluOps \cap Jumps = {}
    BY DEF Jumps, AluOps
  <2>4. CASE i.op = "bind"
    <3>1. ExecOne(c, i) = [c EXCEPT !.skip = FALSE]
      BY <2>3, <2>4 DEF ExecOne
    <3>2. QED BY <2>1, <3>1, Changed DEF Cpus
  <2>5. CASE i.op # "bind" /\ c.skip
    <3>1. ExecOne(c, i) = c
      BY <2>3, <2>5 DEF ExecOne
    <3>2. QED BY <3>1
  <2>6. CASE i.op \in Jumps /\ ~c.skip
    <3> DEFINE b == Taken(i.op, c.cmp)
    <3>1. b \in BOOLEAN
      BY <2>1, <2>6 DEF Taken, Jumps, Flags
    <3>2. ExecOne(c, i) = [c EXCEPT !.skip = b]
      BY <2>3, <2>6 DEF ExecOne
    <3> HIDE DEF b
    <3>3. QED BY <2>1, <3>1, <3>2, Changed DEF Cpus
  <2>7. CASE i.op = "cmp" /\ ~c.skip
    <3> DEFINE g == Compare(i.w, Operand(c.gpr, i.w, Reg(i.dst)), Operand(c.gpr, i.w, i.src))
    <3>1. g \in Flags
      BY DEF Compare, Flags
    <3>2. ExecOne(c, i) = [c EXCEPT !.cmp = g]
      BY <2>3, <2>7 DEF ExecOne
    <3> HIDE DEF g
    <3>3. QED BY <2>1, <3>1, <3>2, Changed DEF Cpus
  <2>8. CASE i.op \in AluOps /\ ~c.skip
    <3>1. c.skip = FALSE
      BY <2>1, <2>8
    <3>2. Sets(c, ExecOne(c, Instr(i.op, i.w, i.dst, i.src)), {}, i.dst, i.w,
               AluOn(i.op, i.w, c.gpr[i.dst], Val(c.gpr, i.src)))
      BY <2>2, <2>8, <3>1, AluStep
    <3>3. Instr(i.op, i.w, i.dst, i.src) = i
      BY DEF Instr, Instrs
    <3>4. QED BY <3>2, <3>3 DEF Sets
  <2>9. QED BY <2>2, <2>4, <2>5, <2>6, <2>7, <2>8
<1>2. s \in Seq(Instrs) /\ Len(s) \in Nat
  BY DEF Code
<1>3. PICK h : Runs(h, cpu, s)
  BY <1>2, ExecTrace
<1>4. 0 .. Len(s) \subseteq {k \in 0 .. Len(s) : h[k] \in Cpus}
  <2> DEFINE U == {k \in 0 .. Len(s) : h[k] \in Cpus}
  <2>1. 0 \in U
    BY <1>2, <1>3 DEF Runs
  <2>2. ASSUME NEW k \in 1 .. Len(s), k - 1 \in U
        PROVE  k \in U
    <3>1. h[k] = ExecOne(h[k - 1], s[k]) /\ s[k] \in Instrs
      BY <1>2, <1>3 DEF Runs
    <3>2. QED BY <1>1, <2>2, <3>1
  <2> HIDE DEF U
  <2>3. 0 .. Len(s) \subseteq U
    BY <1>2, <2>1, <2>2, UpTo
  <2>4. QED BY <2>3 DEF U
<1>5. QED BY <1>2, <1>3, <1>4 DEF Runs

-----------------------------------------------------------------------------
(* The two machines.                                                        *)
LEMMA Position ==
    ASSUME code \in Programs, NEW q \in 0 .. n - 1
    PROVE  /\ n \in Nat /\ q + 1 \in 1 .. Len(code)
           /\ At(q) \in Instructions /\ Reads(At(q)) \cup Writes(At(q)) \subseteq Regs
           /\ At(q).op \in JumpOps => Target(q) \in 0 .. n - 1
           /\ Label(q) = Target(q)
<1>1. /\ code \in Seq(Instructions)
      /\ \A k \in 1 .. Len(code) :
            /\ Reads(code[k]) \cup Writes(code[k]) \subseteq Regs
            /\ code[k].op \in JumpOps => k + code[k].imm \in 0 .. Len(code) - 1
  BY ProgramsAssumption
<1>2. n \in Nat /\ q + 1 \in 1 .. Len(code)
  BY <1>1 DEF n
<1>3. At(q) \in Instructions
  BY <1>1, <1>2 DEF At
<1>4. At(q).imm \in Int
  BY <1>3 DEF Instructions
<1>5. At(q).op \in JumpOps => Target(q) \in 0 .. n - 1
  <2>1. ASSUME At(q).op \in JumpOps
        PROVE  q + 1 + At(q).imm \in 0 .. n - 1
    BY <1>1, <1>2, <2>1 DEF At, n
  <2>2. q + 1 + At(q).imm = Target(q)
    BY <1>2, <1>4 DEF Target
  <2>3. QED BY <2>1, <2>2
<1>6. QED BY <1>1, <1>2, <1>3, <1>5 DEF At, Label, Target

(* The processor before an instruction.                                     *)
LEMMA CpuReady ==
    ASSUME NEW g \in [Gpr -> Word]
    PROVE  Cpu(g) \in Ready /\ Cpu(g) \in Cpus /\ Cpu(g).gpr = g
<1>1. [eq |-> FALSE, below |-> FALSE, less |-> FALSE] \in Flags
  BY DEF Flags
<1>2. QED BY <1>1 DEF Cpu, Ready, Cpus

(* The comparison of a register with 0 before a jump.                       *)
LEMMA JumpCode ==
    ASSUME NEW g \in [Gpr -> Word], NEW t \in IntTypes, NEW d \in Gpr
    PROVE  LET cpu == Exec(Cpu(g), emit_cmpi(t, d, 0))
           IN  /\ cpu.gpr = g
               /\ Taken("je", cpu.cmp) <=> Low(Width(t), g[d]) = 0
               /\ Taken("jne", cpu.cmp) <=> Low(Width(t), g[d]) # 0
<1> DEFINE w == Width(t)
           cpu == Exec(Cpu(g), emit_cmpi(t, d, 0))
<1>1. w \in Widths /\ w \in 0 .. W64 /\ 0 \in Int
  BY TypeWidth
<1>2. Imm(0) \in Sources /\ Val(g, Imm(0)) = 0
  BY RegSource
<1>3. Low(w, 0) = 0
  <2>1. 0 \in 0 .. 2 ^ w - 1
    BY <1>1, Power
  <2>2. QED BY <1>1, <2>1, LowId
<1>4. emit_cmpi(t, d, 0) = << Instr("cmp", w, d, Imm(0)) >>
  BY DEF emit_cmpi, RI
<1>5. cpu.gpr = g /\ cpu.cmp = Compare(w, Low(w, g[d]), Low(w, 0))
  <2>1. Cpu(g) \in Ready /\ Cpu(g).gpr = g
    BY CpuReady
  <2>2. QED BY <1>1, <1>2, <1>4, <2>1, CompareCode
<1> HIDE DEF cpu
<1> DEFINE x == Low(w, g[d])
           cmp == Compare(w, x, Low(w, 0))
<1>6. cmp.eq <=> x = 0
  <2>1. cmp.eq <=> x = Low(w, 0)
    BY DEF Compare
  <2>2. QED BY <1>3, <2>1
<1>7. cpu.cmp = cmp
  BY <1>5
<1> HIDE DEF cmp, x
<1>8. (Taken("je", cmp) <=> x = 0) /\ (Taken("jne", cmp) <=> x # 0)
  BY <1>6 DEF Taken
<1>9. QED BY <1>5, <1>7, <1>8 DEF cpu, x

(* Jumps, returns and nops assign nothing.                                  *)
LEMMA NothingEmulated ==
    ASSUME NEW c, c.op \in Others, NEW f
    PROVE  emulate_one(c, c.type, f) = f
BY DEF emulate_one, Others, JumpOps, CompareOps, CompareImmOps

(* An instruction emulated yields a register file.                          *)
LEMMA EmulatedTyped ==
    ASSUME NEW c \in Instructions, Reads(c) \cup Writes(c) \subseteq Regs,
           NEW f \in [Regs -> Word], Defined(c, f)
    PROVE  emulate_one(c, c.type, f) \in [Regs -> Word]
<1>1. CASE c.op \in Others
  BY <1>1, NothingEmulated
<1>2. CASE c.op \notin Others
  <2> DEFINE g == [x \in Gpr |-> IF x \in Regs THEN f[x] ELSE 0]
  <2>1. 0 \in Word
    BY Power DEF Word
  <2>2. g \in [Gpr -> Word] /\ \A x \in Regs : g[x] = f[x]
    BY <2>1, RegsAssumption
  <2> HIDE DEF g
  <2>3. Cpu(g) \in Ready /\ Cpu(g).gpr = g
    BY <2>2, CpuReady
  <2>4. Agrees(Cpu(g), c, f)
    BY <2>2, <2>3 DEF Agrees
  <2>5. QED BY <1>2, <2>4, InstructionCode
<1>3. QED BY <1>1, <1>2

-----------------------------------------------------------------------------
(* Types.                                                                   *)
TInv == code \in Programs /\ TypeOK

(* A step of the native code keeps the types.                               *)
LEMMA NativeTyped ==
    ASSUME TInv, native
    PROVE  /\ gpr' \in [Gpr -> Word] /\ rf' \in [Regs -> Word] /\ jp' \in 0 .. n
<1> DEFINE c == At(jp)
           s == IF c.op \in {"jz", "jnz"} THEN emit_cmpi(c.type, c.rd, 0)
                ELSE IF c.op \in {"jmp", "ret"} THEN << >>
                ELSE emit_instruction(c, c.type)
           cpu == Exec(Cpu(gpr), s)
<1>1. /\ jp \in 0 .. n - 1 /\ gpr' = cpu.gpr /\ rf' = Return(c)
      /\ jp' = jp + 1 \/ (c.op \in JumpOps /\ jp' = Label(jp))
  BY DEF native, JumpOps
<1>2. code \in Programs /\ gpr \in [Gpr -> Word] /\ rf \in [Regs -> Word]
  BY DEF TInv, TypeOK
<1>3. /\ n \in Nat /\ c \in Instructions /\ Reads(c) \cup Writes(c) \subseteq Regs
      /\ c.op \in JumpOps => Label(jp) \in 0 .. n - 1
  BY <1>1, <1>2, Position
<1>4. s \in Code
  BY <1>3, InstructionTyped, CodePieces DEF JumpOps
<1>5. cpu \in Cpus
  <2> HIDE DEF s
  <2>1. Cpu(gpr) \in Cpus
    BY <1>2, CpuReady
  <2>2. QED BY <1>4, <2>1, ExecTyped
<1>6. Return(c) \in [Regs -> Word]
  <2>1. c.rd \in Gpr
    BY <1>3 DEF Instructions
  <2>2. QED BY <1>2, <2>1 DEF Return
<1> HIDE DEF cpu, c
<1>7. cpu.gpr \in [Gpr -> Word]
  BY <1>5 DEF Cpus
<1>8. jp' \in 0 .. n
  BY <1>1, <1>3
<1>9. QED BY <1>1, <1>6, <1>7, <1>8

(* A step of the emulator does.                                             *)
LEMMA EmulateTyped ==
    ASSUME TInv, emulate, ShiftDefined(At(p))
    PROVE  /\ r' \in [Regs -> Word] /\ ret' \in Regs \cup {NoReg} /\ p' \in 0 .. n
           /\ Defined(At(p), r) /\ p \in 0 .. n - 1
<1> DEFINE c == At(p)
<1>1. /\ p < n /\ r' = emulate_one(c, c.type, r) /\ ret' = (IF c.op = "ret" THEN c.rd ELSE ret)
      /\ p' = n \/ p' = p + 1 \/ (c.op \in JumpOps /\ p' = Target(p))
  BY DEF emulate, JumpOps
<1>2. code \in Programs /\ p \in 0 .. n /\ r \in [Regs -> Word] /\ ret \in Regs \cup {NoReg}
  BY DEF TInv, TypeOK
<1>3. n \in Nat /\ p \in 0 .. n - 1
  <2>1. n \in Nat
    BY <1>2, ProgramsAssumption DEF n
  <2>2. QED BY <1>1, <1>2, <2>1
<1>4. /\ c \in Instructions /\ Reads(c) \cup Writes(c) \subseteq Regs
      /\ c.op \in JumpOps => Target(p) \in 0 .. n - 1
  BY <1>2, <1>3, Position
<1>5. Defined(c, r)
  BY DEF ShiftDefined, Defined, ShiftWidth, ShiftOps, ShiftImmOps
<1>6. r' \in [Regs -> Word]
  BY <1>1, <1>2, <1>4, <1>5, EmulatedTyped
<1>7. ret' \in Regs \cup {NoReg}
  <2>1. c.op = "ret" => c.rd \in Regs
    BY <1>4, ReadsOf
  <2>2. QED BY <1>1, <1>2, <2>1
<1> HIDE DEF c
<1>8. p' \in 0 .. n
  BY <1>1, <1>3, <1>4
<1>9. QED BY <1>3, <1>5, <1>6, <1>7, <1>8 DEF c

(* The types hold initially.                                                *)
LEMMA TInvInit == Init => TInv
<1> SUFFICES ASSUME Init PROVE TInv
  OBVIOUS
<1>1. code \in Programs /\ p = 0 /\ ret = NoReg /\ r \in RegisterFiles /\ jp = NotLoaded
      /\ gpr = [x \in Gpr |-> Junk] /\ rf = r /\ agreed = [x \in Regs |-> W64]
  BY DEF Init
<1>2. n \in Nat
  BY <1>1, ProgramsAssumption DEF n
<1>3. r \in [Regs -> Word] /\ Junk \in Word
  BY <1>1, RegsAssumption
<1>4. QED BY <1>1, <1>2, <1>3 DEF TInv, TypeOK, NotLoaded

(* And every step keeps them.                                               *)
LEMMA TInvNext == TInv /\ [Next]_vars => TInv'
<1> SUFFICES ASSUME TInv, [Next]_vars PROVE TInv'
  OBVIOUS
<1>1. /\ code \in Programs /\ n \in Nat /\ p \in 0 .. n /\ jp \in -1 .. n
      /\ r \in [Regs -> Word] /\ rf \in [Regs -> Word] /\ gpr \in [Gpr -> Word]
      /\ ret \in Regs \cup {NoReg} /\ agreed \in [Regs -> {W8, W16, W32, W64}]
  BY ProgramsAssumption DEF TInv, TypeOK, n
<1>2. CASE Prolog
  <2>1. /\ gpr' = [x \in Gpr |-> IF x \in Regs THEN rf[x] ELSE gpr[x]] /\ jp' = 0
        /\ UNCHANGED <<code, p, r, ret, rf, agreed>>
    BY <1>2 DEF Prolog
  <2>2. gpr' \in [Gpr -> Word]
    BY <1>1, <2>1
  <2>3. QED BY <1>1, <2>1, <2>2 DEF TInv, TypeOK, n
<1>3. CASE Step
  <2>1. /\ ShiftDefined(At(p)) /\ emulate /\ native /\ code' = code
        /\ agreed' = [x \in Regs |-> IF x \in Writes(At(p)) THEN Width(At(p).type) ELSE agreed[x]]
    BY <1>3 DEF Step
  <2>2. /\ gpr' \in [Gpr -> Word] /\ rf' \in [Regs -> Word] /\ jp' \in 0 .. n
        /\ r' \in [Regs -> Word] /\ ret' \in Regs \cup {NoReg} /\ p' \in 0 .. n
        /\ p \in 0 .. n - 1
    BY <2>1, NativeTyped, EmulateTyped
  <2>3. Width(At(p).type) \in {W8, W16, W32, W64}
    <3>1. At(p) \in Instructions
      BY <1>1, <2>2, Position
    <3>2. At(p).type \in IntTypes
      BY <3>1 DEF Instructions
    <3>3. QED BY <3>2, TypeWidth DEF Widths
  <2>4. agreed' \in [Regs -> {W8, W16, W32, W64}]
    BY <1>1, <2>1, <2>3
  <2>5. QED BY <1>1, <2>1, <2>2, <2>4 DEF TInv, TypeOK, n
<1>4. CASE RunOn
  <2>1. native /\ UNCHANGED <<code, p, r, ret, agreed>>
    BY <1>4 DEF RunOn
  <2>2. gpr' \in [Gpr -> Word] /\ rf' \in [Regs -> Word] /\ jp' \in 0 .. n
    BY <2>1, NativeTyped
  <2>3. QED BY <1>1, <2>1, <2>2 DEF TInv, TypeOK, n
<1>5. CASE UNCHANGED vars
  BY <1>1, <1>5 DEF TInv, TypeOK, vars, n
<1>6. QED BY <1>2, <1>3, <1>4, <1>5 DEF Next

(* Both machines keep to their types, whatever the program.                 *)
THEOREM TypeCorrect == Spec => []TypeOK
<1>1. TInv => TypeOK
  BY DEF TInv
<1>2. QED BY TInvInit, TInvNext, <1>1, PTL DEF Spec

-----------------------------------------------------------------------------
(* In step.                                                                 *)
Loaded ==
    jp = NotLoaded => p = 0 /\ rf = r /\ ret = NoReg /\ agreed = [x \in Regs |-> W64]
LInv == TInv /\ Loaded /\ LockStep

(* What both machines do while the emulator runs.                           *)
LEMMA BothStep ==
    ASSUME CountKept, LInv, Step
    PROVE  LET c == At(p)
           IN  /\ jp = p /\ p \in 0 .. n - 1 /\ c \in Instructions
               /\ Writes(c) \subseteq Regs
               /\ c.op # "ret" => p' = jp'
               /\ c.op = "ret" => c.rd \in Regs /\ ret' = c.rd /\ p' = n /\ Writes(c) = {}
               /\ c.op # "ret" => ret' = ret /\ rf' = rf
               /\ rf' = Return(c)
               /\ c.op \in Others => r' = r /\ gpr' = gpr
               /\ \A x \in Regs \ Writes(c) : gpr'[x] = gpr[x] /\ r'[x] = r[x]
               /\ \A x \in Writes(c) : Low(Width(c.type), gpr'[x]) = Low(Width(c.type), r'[x])
<1> DEFINE c == At(p)
           t == c.type
           w == Width(t)
<1>1. /\ jp # NotLoaded /\ p < n /\ ShiftDefined(c) /\ ReadsAgreed(c) /\ emulate /\ native
      /\ code' = code
  BY DEF Step
<1>2. /\ TInv /\ code \in Programs /\ n \in Nat /\ p \in 0 .. n /\ gpr \in [Gpr -> Word]
      /\ r \in [Regs -> Word] /\ agreed \in [Regs -> {W8, W16, W32, W64}]
  BY ProgramsAssumption DEF LInv, TInv, TypeOK, n
<1>3. jp = p /\ \A x \in Regs : Low(agreed[x], gpr[x]) = Low(agreed[x], r[x])
  BY <1>1 DEF LInv, LockStep
<1>4. /\ p \in 0 .. n - 1 /\ Defined(c, r)
  BY <1>1, <1>2, EmulateTyped
<1>5. /\ c \in Instructions /\ Reads(c) \cup Writes(c) \subseteq Regs
      /\ c.op \in JumpOps => Target(p) \in 0 .. n - 1
      /\ Label(p) = Target(p)
  BY <1>2, <1>4, Position
<1>6. t \in IntTypes /\ c.rd \in Gpr /\ c.op \in Operations
  BY <1>5 DEF Instructions
<1>7. \A x \in Reads(c) : Low(w, gpr[x]) = Low(w, r[x])
  <2>1. ASSUME NEW x \in Reads(c)
        PROVE  Low(w, gpr[x]) = Low(w, r[x])
    <3>1. x \in Regs /\ x \in Gpr
      BY <1>5, RegsAssumption
    <3>2. agreed[x] >= w /\ agreed[x] \in Widths
      BY <1>1, <1>2, <3>1 DEF ReadsAgreed, Widths
    <3>3. agreed[x] \in 0 .. W64 /\ w \in 0 .. agreed[x]
      BY <1>6, <3>2, WidthsInRange
    <3>4. gpr[x] \in Int /\ r[x] \in Int
      <4>1. \A z \in Word : z \in Int
        BY Power DEF Word
      <4>2. QED BY <1>2, <3>1, <4>1
    <3>5. Low(agreed[x], gpr[x]) = Low(agreed[x], r[x])
      BY <1>3, <3>1
    <3> HIDE DEF w
    <3>6. QED BY <3>3, <3>4, <3>5, LowFewer
  <2>2. QED BY <2>1
<1>8. /\ r' = emulate_one(c, t, r)
      /\ ret' = (IF c.op = "ret" THEN c.rd ELSE ret)
      /\ p' = (IF c.op = "ret" THEN n
               ELSE IF \/ c.op = "jmp"
                       \/ c.op = "jz" /\ IsZero(t, r[c.rd])
                       \/ c.op = "jnz" /\ ~IsZero(t, r[c.rd])
                    THEN Target(p) ELSE p + 1)
  BY <1>1 DEF emulate
<1>9. rf' = Return(c)
  BY <1>1, <1>3 DEF native
<1>10. CASE c.op \in {"jz", "jnz"}
  <2> DEFINE cpu == Exec(Cpu(gpr), emit_cmpi(t, c.rd, 0))
  <2>1. /\ gpr' = cpu.gpr
        /\ jp' = (IF (c.op = "jz" /\ Taken("je", cpu.cmp)) \/ (c.op = "jnz" /\ Taken("jne", cpu.cmp))
                  THEN Label(p) ELSE p + 1)
    BY <1>1, <1>3, <1>10 DEF native
  <2>2. /\ cpu.gpr = gpr
        /\ Taken("je", cpu.cmp) <=> Low(w, gpr[c.rd]) = 0
        /\ Taken("jne", cpu.cmp) <=> Low(w, gpr[c.rd]) # 0
    BY <1>2, <1>6, JumpCode
  <2>3. Low(w, gpr[c.rd]) = Low(w, r[c.rd])
    BY <1>7, <1>10, ReadsOf
  <2>4. IsZero(t, r[c.rd]) <=> Low(w, gpr[c.rd]) = 0
    BY <2>3 DEF IsZero
  <2> HIDE DEF cpu
  <2>5. p' = jp'
    BY <1>5, <1>8, <1>10, <2>1, <2>2, <2>4
  <2>6. r' = r /\ c.op \in Others /\ Writes(c) = {}
    BY <1>8, <1>10, NothingEmulated DEF Others, JumpOps, Writes, BinaryOps, UnaryOps, ImmOps,
       ShiftOps, ShiftImmOps, CompareOps, CompareImmOps
  <2>7. rf' = rf /\ ret' = ret
    BY <1>8, <1>9, <1>10 DEF Return
  <2>8. QED BY <1>3, <1>4, <1>5, <1>9, <1>10, <2>1, <2>2, <2>5, <2>6, <2>7
<1>11. CASE c.op \in {"jmp", "ret"}
  <2>1. gpr' = Exec(Cpu(gpr), << >>).gpr /\ jp' = (IF c.op = "jmp" THEN Label(p) ELSE p + 1)
    BY <1>1, <1>3, <1>11 DEF native
  <2>2. gpr' = gpr
    BY <1>2, <2>1, ExecEmpty, CpuReady
  <2>3. r' = r /\ c.op \in Others /\ Writes(c) = {}
    BY <1>8, <1>11, NothingEmulated DEF Others, JumpOps, Writes, BinaryOps, UnaryOps, ImmOps,
       ShiftOps, ShiftImmOps, CompareOps, CompareImmOps
  <2>4. c.op = "ret" => c.rd \in Regs
    BY <1>5, ReadsOf
  <2>5. c.op = "jmp" => p' = jp' /\ rf' = rf /\ ret' = ret
    BY <1>5, <1>8, <1>9, <2>1 DEF Return
  <2>6. QED BY <1>3, <1>4, <1>5, <1>8, <1>9, <1>11, <2>2, <2>3, <2>4, <2>5
<1>12. CASE c.op \notin JumpOps \cup {"ret"}
  <2> DEFINE s == emit_instruction(c, t)
             cpu == Exec(Cpu(gpr), s)
  <2>1. gpr' = cpu.gpr /\ jp' = p + 1 /\ p' = p + 1 /\ rf' = rf /\ ret' = ret
    <3>1. c.op # "jz" /\ c.op # "jnz" /\ c.op # "jmp" /\ c.op # "ret"
      BY <1>12 DEF JumpOps
    <3>2. gpr' = cpu.gpr /\ jp' = p + 1
      BY <1>1, <1>3, <3>1 DEF native
    <3>3. QED BY <1>8, <1>9, <3>1, <3>2 DEF Return
  <2>2. Cpu(gpr) \in Ready /\ Cpu(gpr).gpr = gpr
    BY <1>2, CpuReady
  <2>3. CASE c.op = "nop"
    <3>1. s = << >>
      BY <2>3, CompareNames DEF emit_instruction, CompareOps, CompareImmOps
    <3>2. gpr' = gpr
      BY <2>1, <2>2, <3>1, ExecEmpty
    <3>3. r' = r /\ Writes(c) = {}
      BY <1>8, <2>3, NothingEmulated DEF Others, Writes, BinaryOps, UnaryOps, ImmOps,
         ShiftOps, ShiftImmOps, CompareOps, CompareImmOps
    <3>4. QED BY <1>3, <1>4, <1>5, <1>9, <1>12, <2>1, <3>2, <3>3
  <2>4. CASE c.op # "nop"
    <3>1. c.op \notin Others
      BY <1>12, <2>4 DEF Others
    <3>2. Agrees(Cpu(gpr), c, r)
      BY <1>2, <1>5, <1>7, <2>2 DEF Agrees
    <3>3. ~(c.op \in ShiftOps /\ c.rd = rcx)
      <4>1. p + 1 \in 1 .. Len(code) /\ code[p + 1] = c
        BY <1>2, <1>4 DEF n, At
      <4>2. QED BY <1>2, <4>1 DEF CountKept
    <3>4. Writes(c) = {c.rd} /\ c.rd \in Regs /\ Computes(Cpu(gpr), s, t, c.rd, r, emulate_one(c, t, r))
      BY <1>4, <3>1, <3>2, <3>3, InstructionCode
    <3>5. /\ \A z \in Gpr \ (R_FREE \cup {c.rd}) : gpr'[z] = gpr[z]
          /\ \A x \in Regs \ {c.rd} : r'[x] = r[x]
          /\ Low(w, gpr'[c.rd]) = Low(w, r'[c.rd])
      BY <1>8, <2>1, <2>2, <3>4 DEF Computes
    <3>6. \A x \in Regs \ {c.rd} : gpr'[x] = gpr[x]
      BY <3>5, RegsAssumption
    <3> HIDE DEF s, cpu
    <3>7. QED BY <1>3, <1>4, <1>5, <1>9, <1>12, <2>1, <3>1, <3>4, <3>5, <3>6
  <2>5. QED BY <2>3, <2>4
<1>13. QED BY <1>10, <1>11, <1>12 DEF JumpOps

(* Both machines start in step.                                             *)
LEMMA LInvInit == Init => LInv
BY TInvInit DEF Init, LInv, Loaded, LockStep, NotLoaded

(* And stay in step.                                                        *)
LEMMA LInvNext ==
    ASSUME CountKept PROVE LInv /\ [Next]_vars => LInv'
<1> SUFFICES ASSUME LInv, [Next]_vars PROVE LInv'
  OBVIOUS
<1>1. TInv'
  BY TInvNext DEF LInv
<1>2. code \in Programs /\ n \in Nat /\ p \in 0 .. n /\ jp \in -1 .. n /\ gpr \in [Gpr -> Word]
      /\ agreed \in [Regs -> {W8, W16, W32, W64}] /\ r \in [Regs -> Word]
  BY ProgramsAssumption DEF LInv, TInv, TypeOK, n
<1>3. CASE Prolog
  <2>1. /\ jp = NotLoaded /\ gpr' = [x \in Gpr |-> IF x \in Regs THEN rf[x] ELSE gpr[x]]
        /\ jp' = 0 /\ UNCHANGED <<code, p, r, ret, rf, agreed>>
    BY <1>3 DEF Prolog
  <2>2. p = 0 /\ rf = r
    BY <2>1 DEF LInv, Loaded
  <2>3. \A x \in Regs : gpr'[x] = r[x]
    BY <2>1, <2>2, RegsAssumption
  <2>4. QED BY <1>1, <2>1, <2>2, <2>3 DEF LInv, Loaded, LockStep, NotLoaded, n
<1>4. CASE Step
  <2> DEFINE c == At(p)
             w == Width(c.type)
  <2>1. /\ jp = p /\ p \in 0 .. n - 1
        /\ c.op # "ret" => p' = jp'
        /\ c.op = "ret" => p' = n
        /\ Writes(c) \subseteq Regs
        /\ \A x \in Regs \ Writes(c) : gpr'[x] = gpr[x] /\ r'[x] = r[x]
        /\ \A x \in Writes(c) : Low(w, gpr'[x]) = Low(w, r'[x])
    BY <1>4, BothStep
  <2>2. /\ agreed' = [x \in Regs |-> IF x \in Writes(c) THEN w ELSE agreed[x]]
        /\ native /\ code' = code
    BY <1>4 DEF Step
  <2>3. jp' \in 0 .. n
    BY <2>2, NativeTyped DEF LInv
  <2>4. \A x \in Regs : Low(agreed[x], gpr[x]) = Low(agreed[x], r[x])
    BY <1>2, <1>4, <2>1 DEF LInv, LockStep, Step
  <2> HIDE DEF c, w
  <2>5. \A x \in Regs : Low(agreed'[x], gpr'[x]) = Low(agreed'[x], r'[x])
    BY <2>1, <2>2, <2>4
  <2>6. n' = n
    BY <2>2 DEF n
  <2>7. p' < n => p' = jp'
    BY <1>2, <2>1
  <2>8. QED BY <1>1, <1>2, <2>3, <2>5, <2>6, <2>7 DEF LInv, Loaded, LockStep, NotLoaded
<1>5. CASE RunOn
  <2>1. p = n /\ native /\ UNCHANGED <<code, p, r, ret, agreed>>
    BY <1>5 DEF RunOn
  <2>2. jp' \in 0 .. n
    BY <2>1, NativeTyped DEF LInv
  <2>3. n' = n /\ p' = n
    BY <2>1 DEF n
  <2>4. QED BY <1>1, <1>2, <2>2, <2>3 DEF LInv, Loaded, LockStep, NotLoaded
<1>6. CASE UNCHANGED vars
  <2>1. n' = n
    BY <1>6 DEF vars, n
  <2>2. QED BY <1>1, <1>6, <2>1 DEF LInv, Loaded, LockStep, vars, NotLoaded
<1>7. QED BY <1>3, <1>4, <1>5, <1>6 DEF Next

(* In every program that shifts by no register into rcx, native code and    *)
(* emulator are at the same instruction, and their registers agree.         *)
THEOREM InStep == ASSUME CountKept PROVE Spec => []LockStep
<1>1. LInv /\ [Next]_vars => LInv'
  BY LInvNext
<1>2. LInv => LockStep
  BY DEF LInv
<1>3. QED BY LInvInit, <1>1, <1>2, PTL DEF Spec

-----------------------------------------------------------------------------
(* Results.                                                                 *)

(* What a store of the native code changes: the register it returns.        *)
LEMMA StoreChanges ==
    ASSUME native, NEW x \in Regs, rf'[x] # rf[x]
    PROVE  At(jp).op = "ret" /\ x = At(jp).rd
BY DEF native, Return

(* The register file is written when the emulator returns, at the register  *)
(* it returns, and never before.                                            *)
THEOREM StoresOnly == ASSUME CountKept PROVE Spec => StoresOnlyResult
<1> DEFINE Kept == \A x \in Regs : rf'[x] # rf[x] => p' = n /\ (x = ret' \/ p = n)
<1>1. LInv /\ [Next]_vars => LInv'
  BY LInvNext
<1>2. LInv /\ [Next]_vars => [Kept]_vars
  <2> SUFFICES ASSUME LInv, Next, NEW x \in Regs, rf'[x] # rf[x]
               PROVE  p' = n /\ (x = ret' \/ p = n)
    OBVIOUS
  <2>1. CASE Prolog
    BY <2>1 DEF Prolog
  <2>2. CASE Step
    <3>1. jp = p /\ native
      BY <2>2, BothStep DEF Step
    <3>2. At(p).op = "ret" /\ x = At(p).rd
      BY <3>1, StoreChanges
    <3>3. QED BY <2>2, <3>2, BothStep
  <2>3. CASE RunOn
    BY <2>3 DEF RunOn
  <2>4. QED BY <2>1, <2>2, <2>3 DEF Next
<1>3. QED BY LInvInit, <1>1, <1>2, PTL DEF Spec, StoresOnlyResult

(* A return of the register that was returned is behind the native code,    *)
(* and what it stored there still agrees.                                   *)
Passed(k) == code[k].op = "ret" /\ code[k].rd = ret /\ k <= jp
Returned ==
    /\ p < n => ret = NoReg
    /\ p = n /\ ret # NoReg =>
         /\ \E k \in 1 .. n : Passed(k)
         /\ Low(agreed[ret], rf[ret]) = Low(agreed[ret], r[ret])
RInv == LInv /\ Returned

(* Nothing is returned initially.                                           *)
LEMMA RInvInit == Init => RInv
<1> SUFFICES ASSUME Init PROVE RInv
  OBVIOUS
<1>1. ret = NoReg
  BY DEF Init
<1>2. QED BY <1>1, LInvInit DEF RInv, Returned

(* A value once returned stays in the register file.                        *)
LEMMA RInvNext ==
    ASSUME CountKept, ReturnsOnce PROVE RInv /\ [Next]_vars => RInv'
<1> SUFFICES ASSUME RInv, [Next]_vars PROVE RInv'
  OBVIOUS
<1>1. LInv /\ LInv'
  BY LInvNext DEF RInv
<1>2. /\ code \in Programs /\ n \in Nat /\ p \in 0 .. n /\ jp \in -1 .. n /\ n = Len(code)
      /\ rf \in [Regs -> Word] /\ gpr \in [Gpr -> Word] /\ ret \in Regs \cup {NoReg}
  BY <1>1, ProgramsAssumption DEF LInv, TInv, TypeOK, n
<1>3. CASE Prolog
  <2>1. jp = NotLoaded /\ jp' = 0 /\ UNCHANGED <<code, p, r, ret, rf, agreed>>
    BY <1>3 DEF Prolog
  <2>2. ret = NoReg
    BY <1>1, <2>1 DEF LInv, Loaded
  <2>3. n' = n
    BY <2>1 DEF n
  <2>4. QED BY <1>1, <2>1, <2>2, <2>3 DEF RInv, Returned
<1>4. CASE Step
  <2> DEFINE c == At(p)
             w == Width(c.type)
  <2>1. /\ jp = p /\ p \in 0 .. n - 1
        /\ c.op # "ret" => ret' = ret
        /\ c.op = "ret" => c.rd \in Regs /\ ret' = c.rd /\ p' = n /\ Writes(c) = {}
        /\ rf' = Return(c)
        /\ c \in Instructions
        /\ \A x \in Regs \ Writes(c) : r'[x] = r[x]
    BY <1>1, <1>4, BothStep
  <2>2. /\ agreed' = [x \in Regs |-> IF x \in Writes(c) THEN w ELSE agreed[x]]
        /\ native /\ code' = code
    BY <1>4 DEF Step
  <2>3. ret = NoReg /\ n' = n
    BY <1>2, <2>1, <2>2 DEF RInv, Returned, n
  <2>4. CASE c.op # "ret"
    BY <1>1, <2>1, <2>3, <2>4 DEF RInv, Returned
  <2>5. CASE c.op = "ret"
    <3>1. jp' = p + 1
      BY <2>1, <2>2, <2>5 DEF native
    <3>2. PICK k \in 1 .. n : k = p + 1
      BY <1>2, <2>1
    <3>3. code'[k].op = "ret" /\ code'[k].rd = ret' /\ k <= jp'
      BY <1>2, <2>1, <2>2, <2>5, <3>1, <3>2 DEF At
    <3>4. rf'[ret'] = gpr[ret'] /\ r'[ret'] = r[ret'] /\ agreed'[ret'] = agreed[ret']
      BY <1>2, <2>1, <2>2, <2>5 DEF Return
    <3>5. Low(agreed[ret'], gpr[ret']) = Low(agreed[ret'], r[ret'])
      BY <1>1, <1>2, <1>4, <2>1, <2>5 DEF LInv, LockStep, Step
    <3>6. \E j \in 1 .. n' : Passed(j)'
      BY <2>3, <3>3 DEF Passed
    <3>7. Low(agreed'[ret'], rf'[ret']) = Low(agreed'[ret'], r'[ret'])
      BY <3>4, <3>5
    <3>8. ~ (p' < n')
      BY <1>2, <2>1, <2>3, <2>5
    <3>9. QED BY <1>1, <3>6, <3>7, <3>8 DEF RInv, Returned
  <2>6. QED BY <2>4, <2>5
<1>5. CASE RunOn
  <2> DEFINE c == At(jp)
  <2>1. p = n /\ native /\ UNCHANGED <<code, p, r, ret, agreed>>
    BY <1>5 DEF RunOn
  <2>2. n' = n /\ ~ (p' < n')
    BY <1>2, <2>1 DEF n
  <2>3. CASE ret = NoReg
    BY <1>1, <2>1, <2>2, <2>3 DEF RInv, Returned
  <2>4. CASE ret # NoReg
    <3>1. PICK k \in 1 .. n : Passed(k)
      BY <2>1, <2>4 DEF RInv, Returned
    <3>2. jp \in 0 .. n - 1 /\ c = code[jp + 1] /\ jp + 1 \in 1 .. Len(code) /\ k < jp + 1
      BY <1>2, <2>1, <3>1 DEF native, At, Passed
    <3>3. /\ c.op = "ret" => c.rd # ret
          /\ c.op \in JumpOps => k <= Label(jp)
      <4>1. /\ c.op = "ret" => c.rd # code[k].rd
            /\ c.op \in JumpOps => k < (jp + 1) + c.imm + 1
        BY <1>2, <3>1, <3>2 DEF ReturnsOnce, Passed
      <4>2. c \in Instructions
        BY <1>2, <3>2, Position
      <4>3. c.imm \in Int
        BY <4>2 DEF Instructions
      <4>4. Label(jp) = jp + c.imm + 1
        BY DEF Label
      <4>5. QED BY <1>2, <3>1, <3>2, <4>1, <4>3, <4>4 DEF Passed
    <3>4. k <= jp'
      <4>1. jp' = jp + 1 \/ (c.op \in JumpOps /\ jp' = Label(jp))
        BY <2>1 DEF native, JumpOps
      <4> HIDE DEF c
      <4>2. QED BY <1>2, <3>1, <3>2, <3>3, <4>1
    <3>5. Passed(k)'
      BY <2>1, <3>1, <3>4 DEF Passed
    <3>6. rf'[ret] = rf[ret]
      <4>1. ret \in Regs
        BY <1>2, <2>4
      <4>2. QED BY <2>1, <3>3, <4>1, StoreChanges
    <3>7. Low(agreed[ret], rf[ret]) = Low(agreed[ret], r[ret])
      BY <2>1, <2>4 DEF RInv, Returned
    <3>8. QED BY <1>1, <2>1, <2>2, <3>5, <3>6, <3>7 DEF RInv, Returned
  <2>5. QED BY <2>3, <2>4
<1>6. CASE UNCHANGED vars
  BY <1>1, <1>6 DEF RInv, Returned, Passed, vars, n
<1>7. QED BY <1>3, <1>4, <1>5, <1>6 DEF Next

(* When both runs are over, the register the emulator returns agrees with   *)
(* what the native code left for it in the register file.                   *)
THEOREM ResultsAgree == ASSUME CountKept, ReturnsOnce PROVE Spec => []SameResult
<1>1. RInv /\ [Next]_vars => RInv'
  BY RInvNext
<1>2. RInv => SameResult
  BY DEF RInv, Returned, SameResult
<1>3. QED BY RInvInit, <1>1, <1>2, PTL DEF Spec
-----------------------------------------------------------------------------
(* Running on.                                                              *)

(* Once the emulator has returned, the native code is at its end as well or *)
(* has a return behind it.                                                  *)
ReturnBehind ==
    NoLoopBehindReturn /\ p = n /\ jp # NotLoaded =>
        jp = n \/ \E k \in 0 .. n - 1 : k < jp /\ At(k).op = "ret"
FInv == LInv /\ ReturnBehind

(* Where no jump behind a return leads back, running on gets further.       *)
LEMMA OnwardBehindReturn ==
    ASSUME FInv, RunOn, NoLoopBehindReturn
    PROVE  jp < jp' /\ jp \in 0 .. n - 1 /\ \E k \in 0 .. n - 1 : k < jp /\ At(k).op = "ret"
<1> DEFINE c == At(jp)
<1>1. /\ code \in Programs /\ n \in Nat /\ jp \in 0 .. n - 1 /\ p = n
      /\ jp' = jp + 1 \/ (c.op \in JumpOps /\ jp' = Label(jp))
  BY ProgramsAssumption DEF FInv, LInv, TInv, RunOn, native, JumpOps, n
<1>2. PICK k \in 0 .. n - 1 : k < jp /\ At(k).op = "ret"
  BY <1>1 DEF FInv, ReturnBehind, NotLoaded
<1>3. ASSUME c.op \in JumpOps, jp' = Label(jp)
      PROVE  jp < jp'
  <2>1. c \in Instructions
    BY <1>1, Position
  <2>2. c.imm \in Int
    BY <2>1 DEF Instructions
  <2>3. jp \notin BackwardJumps
    BY <1>1, <1>2 DEF NoLoopBehindReturn
  <2>4. ~ (c.imm < 0)
    BY <1>1, <1>3, <2>3 DEF BackwardJumps
  <2>5. jp' = jp + c.imm + 1
    BY <1>3 DEF Label
  <2> HIDE DEF c
  <2>6. QED BY <1>1, <2>2, <2>4, <2>5
<1>4. QED BY <1>1, <1>2, <1>3

(* Nothing runs on initially.                                               *)
LEMMA FInvInit == Init => FInv
BY LInvInit DEF Init, FInv, ReturnBehind

(* A return stays behind.                                                   *)
LEMMA FInvNext == ASSUME CountKept PROVE FInv /\ [Next]_vars => FInv'
<1> SUFFICES ASSUME FInv, [Next]_vars PROVE FInv'
  OBVIOUS
<1>1. LInv'
  BY LInvNext DEF FInv
<1>2. /\ code \in Programs /\ n \in Nat /\ p \in 0 .. n /\ jp \in -1 .. n
      /\ code' = code /\ n' = n /\ (NoLoopBehindReturn' <=> NoLoopBehindReturn)
      /\ \A k : At(k)' = At(k)
  <2>1. code' = code
    BY DEF Next, Prolog, Step, RunOn, vars
  <2>2. n' = n /\ \A k : At(k)' = At(k)
    BY <2>1 DEF n, At
  <2>3. QED BY <2>1, <2>2, ProgramsAssumption
            DEF NoLoopBehindReturn, BackwardJumps, FInv, LInv, TInv, TypeOK, n, At
<1> SUFFICES ASSUME NoLoopBehindReturn, p' = n, jp' # NotLoaded
             PROVE  jp' = n \/ \E k \in 0 .. n - 1 : k < jp' /\ At(k).op = "ret"
  BY <1>1, <1>2 DEF FInv, ReturnBehind
<1>3. CASE Prolog
  BY <1>3 DEF Prolog, FInv, LInv, Loaded
<1>4. CASE Step
  <2>1. /\ jp = p /\ p \in 0 .. n - 1 /\ (At(p).op # "ret" => p' = jp')
        /\ At(p).op = "ret" => jp' = p + 1
    BY <1>4, BothStep DEF FInv, Step, native
  <2>2. QED BY <1>2, <2>1
<1>5. CASE RunOn
  <2>1. jp < jp' /\ jp \in Nat /\ \E k \in 0 .. n - 1 : k < jp /\ At(k).op = "ret"
    BY <1>2, <1>5, OnwardBehindReturn
  <2>2. jp' \in 0 .. n
    BY <1>5, NativeTyped DEF RunOn, FInv, LInv
  <2>3. QED BY <1>2, <2>1, <2>2
<1>6. CASE UNCHANGED vars
  BY <1>2, <1>6 DEF FInv, ReturnBehind, vars
<1>7. QED BY <1>3, <1>4, <1>5, <1>6 DEF Next

(* The native code that runs on behind a return gets further with every     *)
(* instruction: it comes to its end after at most as many as are left.      *)
THEOREM Onward == ASSUME CountKept PROVE Spec => RunsForward
<1> DEFINE Further == p = n /\ NoLoopBehindReturn => jp' > jp
<1>1. FInv /\ [Next]_vars => FInv'
  BY FInvNext
<1>2. FInv /\ [Next]_vars => [Further]_vars
  <2> SUFFICES ASSUME FInv, Next, p = n, NoLoopBehindReturn
               PROVE  jp' > jp
    OBVIOUS
  <2>1. jp \in Int /\ p \in Int
    BY ProgramsAssumption DEF FInv, LInv, TInv, TypeOK, n
  <2>2. CASE Prolog
    BY <2>2 DEF Prolog, NotLoaded
  <2>3. CASE Step
    BY <2>1, <2>3 DEF Step
  <2>4. CASE RunOn
    <3>1. jp < jp'
      BY <2>4, OnwardBehindReturn
    <3>2. jp' \in Int
      BY <2>4, NativeTyped DEF RunOn, FInv, LInv
    <3>3. QED BY <2>1, <3>1, <3>2
  <2>5. QED BY <2>2, <2>3, <2>4 DEF Next
<1>3. QED BY FInvInit, <1>1, <1>2, PTL DEF Spec, RunsForward
=============================================================================
