-------------------------------- MODULE Xmm ---------------------------------
(***************************************************************************)
(* The part of an x86-64 processor that the vector code of jitter_x86.cpp  *)
(* runs on: the sixteen xmm registers and the moves between them and the   *)
(* general purpose registers.                                              *)
(***************************************************************************)
EXTENDS VecTypes, Sequences

(* cl, the count of a scalar shift, is a low part of rcx that holds the     *)
(* count of any shift of a register.                                        *)
CONSTANT WCL
ASSUME CountRegisterAssumption == WCL \in 1 .. W64 /\ 2 ^ WCL > W64

Regs16 == 0 .. 15
rcx == 1

(* A machine: vector and general purpose registers.                        *)
Machine(x, g) == [x |-> x, g |-> g]

(* An instruction: what it does to lanes of w bits of its sources a and b,  *)
(* and whether it is the three-operand form (v..., AVX) or the older one,   *)
(* whose destination is its first source.  A vector shift takes its count   *)
(* from an immediate or from an xmm register.                               *)
X(n) == [kind |-> "xmm", n |-> n]
I(n) == [kind |-> "imm", n |-> n]
VInstr(op, w, dst, a, b, avx) ==
    [op |-> op, w |-> w, dst |-> dst, a |-> a, b |-> b, avx |-> avx]
Legacy(op, w, dst, b) == << VInstr(op, w, dst, dst, b, FALSE) >>
Avx(op, w, dst, a, b) == << VInstr(op, w, dst, a, b, TRUE) >>

(* The register numbers an instruction names.                              *)
Names(i) == {i.dst, i.a} \cup (IF i.b.kind = "xmm" THEN {i.b.n} ELSE {})

(* The feature a processor must have to run it.                            *)
Needs(i) ==
    CASE i.avx -> "AVX"
      [] ~i.avx /\ i.op = "pmull" /\ i.w = W32 -> "SSE4_1"
      [] ~i.avx /\ i.op = "pcmpeq" /\ i.w = W64 -> "SSE4_1"
      [] ~i.avx /\ i.op = "pcmpgt" /\ i.w = W64 -> "SSE4_2"
      [] OTHER -> "SSE2"

-----------------------------------------------------------------------------
Mask(w, b) == IF b THEN 2 ^ w - 1 ELSE 0

(* Lane by lane operations.                                                *)
LaneWise(op, w, x, y) ==
    CASE op = "padd"    -> Low(w, x + y)
      [] op = "psub"    -> Low(w, x - y)
      [] op = "pmull"   -> Low(w, x * y)
      [] op = "pmuludq" -> Low(W32, x) * Low(W32, y)
      [] op = "pcmpeq"  -> Mask(w, x = y)
      [] op = "pcmpgt"  -> Mask(w, ToSigned(w, x) > ToSigned(w, y))
      [] op = "pand"    -> BitAnd(x, y)
      [] op = "por"     -> BitOr(x, y)
      [] op = "pxor"    -> BitXor(x, y)
LaneWiseOps == {"padd", "psub", "pmull", "pmuludq", "pcmpeq", "pcmpgt",
                "pand", "por", "pxor"}

(* A count beyond the lane shifts everything out, or leaves the sign; the   *)
(* byte of a negative one is such a count.                                  *)
ShiftLane(op, w, x, n) ==
    CASE op = "psll" -> IF n \in 0 .. w - 1 THEN Low(w, x * 2 ^ n) ELSE 0
      [] op = "psrl" -> IF n \in 0 .. w - 1 THEN x \div 2 ^ n ELSE 0
      [] op = "psra" ->
            Low(w, ToSigned(w, x) \div 2 ^ (IF n \in 0 .. w - 1 THEN n ELSE w - 1))
ShiftVec == {"psll", "psrl", "psra"}

(* Signed words to unsigned bytes, with saturation.                        *)
Saturate(x) == LET s == ToSigned(W16, x)
               IN  IF s < 0 THEN 0 ELSE IF s >= 2 ^ W8 THEN 2 ^ W8 - 1 ELSE s

(* Lanes taken in turn from a and b, from their lane first on.              *)
Unpack(w, a, b, first) ==
    Pack(w, [k \in LaneIndex(w) |->
                Lane(w, IF k % 2 = 0 THEN a ELSE b, first + k \div 2)])

(* What an instruction makes of its sources.                               *)
ExecVector(op, w, a, b) ==
    CASE op = "movdqa" -> b
      [] op \in LaneWiseOps ->
            Pack(w, [k \in LaneIndex(w) |-> LaneWise(op, w, Lane(w, a, k), Lane(w, b, k))])
      [] op \in ShiftVec ->
            Pack(w, [k \in LaneIndex(w) |-> ShiftLane(op, w, Lane(w, a, k), b[1])])
      [] op = "punpckl" -> Unpack(w, a, b, 0)
      [] op = "punpckh" -> Unpack(w, a, b, PerWord(w))
      [] op = "packuswb" ->
            Pack(W8, [k \in LaneIndex(W8) |->
                        IF k < PerWord(W8) THEN Saturate(Lane(W16, a, k))
                                           ELSE Saturate(Lane(W16, b, k - PerWord(W8)))])
      [] op = "pshufd" -> Pack(W32, [k \in LaneIndex(W32) |-> Lane(W32, b, 0)])
      [] op = "movhlps" -> << b[2], a[2] >>
VectorOps == LaneWiseOps \cup ShiftVec
             \cup {"movdqa", "punpckl", "punpckh", "packuswb", "pshufd", "movhlps"}

Source(m, b) == IF b.kind = "xmm" THEN m.x[b.n] ELSE << b.n, 0 >>

(* The others read or write a general purpose register.                    *)
ExecOne(m, i) ==
    CASE i.op \in VectorOps ->
            [m EXCEPT !.x[i.dst] = ExecVector(i.op, i.w, m.x[i.a], Source(m, i.b))]
      [] i.op = "toxmm" -> [m EXCEPT !.x[i.dst] = << Low(i.w, m.g[i.b.n]), 0 >>]
      [] i.op = "fromxmm" -> [m EXCEPT !.g[i.dst] = m.x[i.b.n][1]]
      [] i.op = "movimm" -> [m EXCEPT !.g[i.dst] = Low(i.w, i.b.n)]
      [] i.op = "mov" -> [m EXCEPT !.g[i.dst] = m.g[i.b.n]]
      [] i.op = "movcl" ->
            [m EXCEPT !.g[rcx] = @ - Low(WCL, @) + Low(WCL, m.g[i.b.n])]
      [] i.op = "sar" ->
            [m EXCEPT !.g[i.dst] = Low(W64, ToSigned(W64, @) \div 2 ^
                ((IF i.b.kind = "imm" THEN i.b.n ELSE Low(WCL, m.g[rcx])) % W64))]

Opcodes == VectorOps \cup {"toxmm", "fromxmm", "movimm", "mov", "movcl", "sar"}

Exec(m, code) ==
    LET run[k \in 0 .. Len(code)] ==
            IF k = 0 THEN m ELSE ExecOne(run[k - 1], code[k])
    IN  run[Len(code)]
=============================================================================
