------------------------------ MODULE EmitVec -------------------------------
(***************************************************************************)
(* The vector emitters of jitter_x86.cpp on integer lanes: each emit_v     *)
(* operator is the code its function appends.  Their last parameter x is   *)
(* the set of xmm temporaries that are free when they are called.          *)
(*                                                                         *)
(* Which of the emitters of an operation is used depends on the features   *)
(* the assembler has enabled at that moment.                               *)
(***************************************************************************)
EXTENDS Xmm, TempPool

CONSTANTS Cpus, Masks
VARIABLES cpu, vec_available, vec_enabled, vec_enable_mask, setup

Features == INSTANCE VecFeatures
use_avx == Features!use_avx
use_sse2 == Features!use_sse2

(* The temporaries among general purpose registers.                        *)
T0 == alloc_(R_FREE)
T1 == alloc_(R_FREE \ {T0})

(* What an operation does with neither AVX nor SSE2 is left to the scalar   *)
(* emitter of that name, on the general purpose registers.                  *)
Scalar(name, type, dst, s1, s2) ==
    << VInstr(name, Width(type), dst, s1, I(s2), FALSE) >>
Choose(avx, sse2, scalar) ==
    IF use_avx THEN avx ELSE IF use_sse2 THEN sse2 ELSE scalar

-----------------------------------------------------------------------------
emit_vmov(dst, src) ==
    IF src # dst THEN Legacy("movdqa", W64, dst, X(src)) ELSE << >>

(* Two sources reduced to dst and one other: the move that takes, and then  *)
(* the register that is left to combine with dst.                           *)
emit_one_vsrc(dst, src1, src2) ==
    IF dst \in {src1, src2} THEN << >> ELSE emit_vmov(dst, src1)
one_vsrc(dst, src1, src2) == IF src2 = dst /\ src1 # dst THEN src1 ELSE src2

(* Whole vectors of zeros, and of ones; and the bug of zeros by way of AVX  *)
(* in the code that is to do without.                                       *)
vzero_always_avx(dst) == Avx("pxor", W64, dst, dst, X(dst))
vzero_avx(dst) == Avx("pxor", W64, dst, dst, X(dst))
vzero_sse2(dst) == Legacy("pxor", W64, dst, X(dst))
vzero(dst) == Choose(vzero_avx(dst), vzero_sse2(dst), << >>)
emit_vzero(dst) == vzero(dst)
zeroed(by, dst) == CASE by = "avx"  -> vzero_avx(dst)
                     [] by = "sse2" -> vzero_sse2(dst)
                     [] by = "any"  -> vzero(dst)
emit_vone(dst) == Legacy("pcmpeq", W8, dst, X(dst))

(* The three-operand form, and the other of an operation that may take its  *)
(* sources in either order.                                                 *)
ThreeOperand(op, type, dst, src1, src2) ==
    Avx(op, Width(type), dst, src1, X(src2))
TwoOperand(op, type, dst, src1, src2) ==
    emit_one_vsrc(dst, src1, src2)
    \o Legacy(op, Width(type), dst, X(one_vsrc(dst, src1, src2)))

-----------------------------------------------------------------------------
emit_vneg_avx(type, dst, src, x) ==
    LET t0 == alloc_(x) IN vzero_avx(t0) \o ThreeOperand("psub", type, dst, t0, src)

(* (And the bug of clearing dst before its value is saved.)                 *)
vneg_unsaved(type, dst, src, x) ==
    vzero_sse2(dst) \o Legacy("psub", Width(type), dst, X(src))
emit_vneg_sse2(type, dst, src, x) ==
    LET from == IF src = dst THEN alloc_(x) ELSE src
    IN  (IF src = dst THEN emit_vmov(from, dst) ELSE << >>)
        \o vzero_sse2(dst)
        \o Legacy("psub", Width(type), dst, X(from))

emit_vneg(type, dst, src, x) ==
    Choose(emit_vneg_avx(type, dst, src, x), emit_vneg_sse2(type, dst, src, x),
           Scalar("neg", type, dst, src, 0))

(* An immediate in every lane: through a general purpose register into the  *)
(* lowest lane, doubled up to 32 or 64 bits and spread from there.          *)
emit_vmovi(type, dst, imm12) ==
    LET move(w) == << VInstr("movimm", w, T0, T0, I(imm12), FALSE),
                      VInstr("toxmm", w, dst, dst, I(T0), FALSE) >>
        double(w) == Legacy("punpckl", w, dst, X(dst))
        spread == Legacy("pshufd", W32, dst, X(dst))
    IN  CASE Width(type) = W8  -> move(W32) \o double(W8) \o double(W16) \o spread
          [] Width(type) = W16 -> move(W32) \o double(W16) \o spread
          [] Width(type) = W32 -> move(W32) \o spread
          [] Width(type) = W64 -> move(W64) \o double(W64)

-----------------------------------------------------------------------------
(* There are no shifts of bytes.  The bytes of src are unpacked into the    *)
(* high halves of words, the low eight in t0 and the high eight in t2; the  *)
(* words are shifted, by the code shift has for each, and packed again.     *)
Temps == X_FREE \cup {NoRegister}
Bytes(dst, src, zero, shift, x) ==
    LET t0 == alloc_(x)
        t2 == alloc_(x \ {t0})
    IN  zeroed(zero, t0) \o Legacy("punpckl", W8, t0, X(src)) \o shift[t0]
        \o zeroed(zero, t2) \o Legacy("punpckh", W8, t2, X(src)) \o shift[t2]
        \o Legacy("movdqa", W64, dst, X(t0)) \o Legacy("packuswb", W16, dst, X(t2))

(* The shift of such words by a count, and back into their low halves.      *)
LegacyWords(op, count) == [t \in Temps |->
    Legacy(op, W16, t, count) \o Legacy("psrl", W16, t, I(W8))]
AvxWords(op, count) == [t \in Temps |->
    Avx(op, W16, t, t, count) \o Avx("psrl", W16, t, t, I(W8))]

emit_vslli_sse2(type, dst, src, imm8, x) ==
    emit_vmov(dst, src)
    \o IF Width(type) = W8
       THEN Bytes(dst, dst, "sse2", LegacyWords("psll", I(imm8)), x)
       ELSE Legacy("psll", Width(type), dst, I(imm8))
emit_vslli_avx(type, dst, src, imm8, x) ==
    IF Width(type) = W8
    THEN Bytes(dst, src, "avx", AvxWords("psll", I(imm8)), x)
    ELSE Avx("psll", Width(type), dst, src, I(imm8))
emit_vslli(type, dst, src, imm8, x) ==
    Choose(emit_vslli_avx(type, dst, src, imm8, x),
           emit_vslli_sse2(type, dst, src, imm8, x),
           Scalar("slli", type, dst, src, imm8))

emit_vsrli(type, dst, src, imm8, x) ==
    emit_vmov(dst, src)
    \o IF Width(type) = W8
       THEN Bytes(dst, dst, "any", [t \in Temps |->
                                      Legacy("psrl", W16, t, I(W8 + imm8))], x)
       ELSE Legacy("psrl", Width(type), dst, I(imm8))

(* Nor is there an arithmetic shift of 64 bits: both halves of dst go       *)
(* through a general purpose register t.                                    *)
Halves(dst, t, t0, shift) ==
    Legacy("movdqa", W64, t0, X(dst))
    \o shift.before
    \o << VInstr("fromxmm", W64, t, t, X(dst), FALSE) >> \o shift.code
    \o << VInstr("toxmm", W64, dst, dst, I(t), FALSE) >>
    \o Legacy("movhlps", W64, t0, X(t0))
    \o << VInstr("fromxmm", W64, t, t, X(t0), FALSE) >> \o shift.code
    \o << VInstr("toxmm", W64, t0, t0, I(t), FALSE) >>
    \o Legacy("punpckl", W64, dst, X(t0))

emit_vsrai(type, dst, src, imm8, x) ==
    emit_vmov(dst, src)
    \o CASE Width(type) = W8 ->
              Bytes(dst, dst, "any", LegacyWords("psra", I(imm8)), x)
         [] Width(type) \in {W16, W32} -> Legacy("psra", Width(type), dst, I(imm8))
         [] Width(type) = W64 ->
              Halves(dst, T0, alloc_(x),
                     [before |-> << >>,
                      code |-> << VInstr("sar", W64, T0, T0, I(imm8), FALSE) >>])

-----------------------------------------------------------------------------
emit_vadd_avx(type, dst, src1, src2) == ThreeOperand("padd", type, dst, src1, src2)
emit_vadd_sse2(type, dst, src1, src2) == TwoOperand("padd", type, dst, src1, src2)
emit_vadd(type, dst, src1, src2, x) ==
    Choose(emit_vadd_avx(type, dst, src1, src2), emit_vadd_sse2(type, dst, src1, src2),
           Scalar("add", type, dst, src1, src2))

(* An operation with an immediate is the operation with a temporary that    *)
(* has it in every lane.                                                    *)
immediate(type, imm, x) == emit_vmovi(type, alloc_(x), imm)
but_one(x) == x \ {alloc_(x)}

emit_vaddi(type, dst, src, imm, x) ==
    immediate(type, imm, x) \o emit_vadd(type, dst, src, alloc_(x), but_one(x))

emit_vsub_avx(type, dst, src1, src2) == ThreeOperand("psub", type, dst, src1, src2)

(* dst = src1 - dst is taken as src1 + (0 - dst).                           *)
emit_vsub_sse2(type, dst, src1, src2, x) ==
    CASE dst = src1 /\ dst = src2 -> emit_vzero(dst)
      [] dst = src1 /\ dst # src2 -> Legacy("psub", Width(type), dst, X(src2))
      [] dst # src1 /\ dst = src2 -> emit_vneg_sse2(type, dst, dst, x)
                                     \o emit_vadd_sse2(type, dst, src1, dst)
      [] OTHER -> emit_vmov(dst, src1) \o Legacy("psub", Width(type), dst, X(src2))
emit_vsub(type, dst, src1, src2, x) ==
    Choose(emit_vsub_avx(type, dst, src1, src2),
           emit_vsub_sse2(type, dst, src1, src2, x),
           Scalar("sub", type, dst, src1, src2))

emit_vsubi(type, dst, src, imm, x) ==
    immediate(type, imm, x) \o emit_vsub(type, dst, src, alloc_(x), but_one(x))
emit_vrsub(type, dst, src1, src2, x) == emit_vsub(type, dst, src2, src1, x)
emit_vrsubi(type, dst, src, imm, x) ==
    emit_vneg(type, dst, src, x) \o emit_vaddi(type, dst, dst, imm, x)

-----------------------------------------------------------------------------
WordsOp(avx, op, t, s) ==
    LET w == IF op = "por" THEN W64 ELSE W16
    IN  IF avx THEN Avx(op, w, t, t, s) ELSE Legacy(op, w, t, s)

(* A product of bytes is one of words for the even bytes and another, of    *)
(* the words shifted right, for the odd ones.  (And the bug of leaving the  *)
(* even ones with the carries of their neighbours.)                         *)
mul_bytes_uncut(dst, src, avx, t0, t2) ==
    LET op(o, t, s) == WordsOp(avx, o, t, s)
    IN  Legacy("movdqa", W64, t2, X(dst)) \o Legacy("movdqa", W64, t0, X(src))
        \o op("pmull", t2, X(t0))
        \o op("psrl", dst, I(W8)) \o op("psrl", t0, I(W8))
        \o op("pmull", dst, X(t0)) \o op("psll", dst, I(W8)) \o op("por", dst, X(t2))
mul_bytes(dst, src, avx, t0, t2) ==
    LET op(o, t, s) == WordsOp(avx, o, t, s)
    IN  Legacy("movdqa", W64, t2, X(dst)) \o Legacy("movdqa", W64, t0, X(src))
        \o op("pmull", t2, X(t0)) \o op("psll", t2, I(W8)) \o op("psrl", t2, I(W8))
        \o op("psrl", dst, I(W8)) \o op("psrl", t0, I(W8))
        \o op("pmull", dst, X(t0)) \o op("psll", dst, I(W8)) \o op("por", dst, X(t2))

(* A product of 64 bits is the sum of three products of 32 bits.            *)
emit_vmul_sse2(type, dst, src1, src2, x) ==
    LET src == one_vsrc(dst, src1, src2)
        t0 == alloc_(x)
        t2 == alloc_(x \ {t0})
        quad(o, t, s) == Legacy(o, W64, t, s)
        cross(a, b) == quad("movdqa", t2, X(a)) \o quad("psrl", t2, I(W32))
                       \o quad("pmuludq", t2, X(b)) \o quad("psll", t2, I(W32))
                       \o quad("padd", t0, X(t2))
    IN  emit_one_vsrc(dst, src1, src2)
        \o CASE Width(type) = W8 -> mul_bytes(dst, src, FALSE, t0, t2)
             [] Width(type) \in {W16, W32} -> Legacy("pmull", Width(type), dst, X(src))
             [] Width(type) = W64 ->
                  quad("movdqa", t0, X(dst)) \o quad("pmuludq", t0, X(src))
                  \o cross(src, dst) \o cross(dst, src) \o quad("movdqa", dst, X(t0))

emit_vmul_avx(type, dst, src1, src2, x) ==
    LET t0 == alloc_(x)
        t2 == alloc_(x \ {t0})
        quad(o, t, a, s) == Avx(o, W64, t, a, s)
        cross(a, b, sum) == quad("psrl", t2, a, I(W32)) \o quad("pmuludq", t2, t2, X(b))
                            \o quad("psll", t2, t2, I(W32)) \o quad("padd", sum, t0, X(t2))
    IN  CASE Width(type) = W8 ->
               emit_one_vsrc(dst, src1, src2)
               \o mul_bytes(dst, one_vsrc(dst, src1, src2), TRUE, t0, t2)
          [] Width(type) \in {W16, W32} -> ThreeOperand("pmull", type, dst, src1, src2)
          [] Width(type) = W64 ->
               quad("pmuludq", t0, src1, X(src2))
               \o cross(src1, src2, t0) \o cross(src2, src1, dst)

emit_vmul(type, dst, src1, src2, x) ==
    Choose(emit_vmul_avx(type, dst, src1, src2, x),
           emit_vmul_sse2(type, dst, src1, src2, x),
           Scalar("mul", type, dst, src1, src2))
emit_vmuli(type, dst, src, imm, x) ==
    immediate(type, imm, x) \o emit_vmul(type, dst, src, alloc_(x), but_one(x))

-----------------------------------------------------------------------------
(* Shifts by a register: its 64 bits are the count, in the low half of t1.  *)
count(zero, t1, src2) ==
    zeroed(zero, t1) \o << VInstr("toxmm", W64, t1, t1, I(src2), FALSE) >>

emit_vsll_sse2(type, dst, src1, src2, x) ==
    LET t1 == alloc_(x)
    IN  count("sse2", t1, src2) \o emit_vmov(dst, src1)
        \o IF Width(type) = W8
           THEN Bytes(dst, dst, "sse2", LegacyWords("psll", X(t1)),
                      x \ {t1})
           ELSE Legacy("psll", Width(type), dst, X(t1))
emit_vsll_avx(type, dst, src1, src2, x) ==
    LET t1 == alloc_(x)
    IN  count("avx", t1, src2)
        \o IF Width(type) = W8
           THEN Bytes(dst, src1, "any", AvxWords("psll", X(t1)), x \ {t1})
           ELSE Avx("psll", Width(type), dst, src1, X(t1))
emit_vsll(type, dst, src1, src2, x) ==
    Choose(emit_vsll_avx(type, dst, src1, src2, x),
           emit_vsll_sse2(type, dst, src1, src2, x),
           Scalar("sll", type, dst, src1, src2))

(* The shifts right have one emitter for AVX and SSE2.                      *)
ShiftRight(op, type, dst, src1, src2, x) ==
    LET t1 == alloc_(x)
    IN  count("any", t1, src2) \o emit_vmov(dst, src1)
        \o IF Width(type) = W8
           THEN Bytes(dst, dst, "any", LegacyWords(op, X(t1)), x \ {t1})
           ELSE Legacy(op, Width(type), dst, X(t1))
emit_vsrl(type, dst, src1, src2, x) == ShiftRight("psrl", type, dst, src1, src2, x)

(* Halves of 64 bits are shifted by cl, with rcx saved and restored.  (And  *)
(* the bug of loading cl without.)                                          *)
by_cl(src2, enter, leave) ==
    [enter |-> enter, leave |-> leave,
     before |-> << VInstr("movcl", W8, rcx, rcx, I(src2), FALSE) >>,
     code |-> << VInstr("sar", W64, T0, T0, X(rcx), FALSE) >>]
sra_by_cl_unsaved(src2) == by_cl(src2, << >>, << >>)
sra_by_cl(src2) ==
    by_cl(src2, << VInstr("mov", W64, T1, T1, I(rcx), FALSE) >>,
                << VInstr("mov", W64, rcx, rcx, I(T1), FALSE) >>)
emit_vsra(type, dst, src1, src2, x) ==
    LET s == sra_by_cl(src2)
    IN  IF Width(type) = W64
        THEN s.enter \o emit_vmov(dst, src1) \o Halves(dst, T0, alloc_(x), s) \o s.leave
        ELSE ShiftRight("psra", type, dst, src1, src2, x)

-----------------------------------------------------------------------------
(* The bitwise operations on whole vectors.                                *)
WholeVector(op, name, type, dst, src1, src2) ==
    Choose(ThreeOperand(op, "UINT64", dst, src1, src2),
           TwoOperand(op, "UINT64", dst, src1, src2),
           Scalar(name, type, dst, src1, src2))
emit_vbor(type, dst, src1, src2, x) == WholeVector("por", "bor", type, dst, src1, src2)
emit_vbori(type, dst, src, imm, x) ==
    immediate(type, imm, x) \o emit_vbor(type, dst, src, alloc_(x), but_one(x))
emit_vbxor(type, dst, src1, src2, x) == WholeVector("pxor", "bxor", type, dst, src1, src2)
emit_vbxori(type, dst, src, imm, x) ==
    immediate(type, imm, x) \o emit_vbxor(type, dst, src, alloc_(x), but_one(x))
emit_vband(type, dst, src1, src2, x) == WholeVector("pand", "band", type, dst, src1, src2)
emit_vbandi(type, dst, src, imm, x) ==
    immediate(type, imm, x) \o emit_vband(type, dst, src, alloc_(x), but_one(x))

emit_vbnot(type, dst, src, x) ==
    LET t1 == alloc_(x)
    IN  emit_vmov(dst, src) \o emit_vone(t1)
        \o emit_vbxor(type, dst, dst, t1, x \ {t1})

(* (And the bug of a complement that is taken in dst, which src2 may be.)   *)
vbandn_in_place(type, dst, src1, src2, x) ==
    emit_vbnot(type, dst, src1, x) \o emit_vband(type, dst, dst, src2, x)
emit_vbandn(type, dst, src1, src2, x) ==
    LET t1 == alloc_(x)
    IN  emit_vbnot(type, t1, src1, x \ {t1})
        \o emit_vband(type, dst, t1, src2, x \ {t1})

emit_vbandni(type, dst, src, imm, x) ==
    immediate(type, imm, x) \o emit_vbandn(type, dst, src, alloc_(x), but_one(x))

-----------------------------------------------------------------------------
(* Comparisons in place: dst = dst == src and so on.                       *)
emit_vcmpeq1(type, dst, src) == Legacy("pcmpeq", Width(type), dst, X(src))
emit_vcmpne1(type, dst, src, x) ==
    emit_vcmpeq1(type, dst, src) \o emit_vbnot(type, dst, dst, x)
emit_vcmpgt1(type, dst, src) == Legacy("pcmpgt", Width(type), dst, X(src))
emit_vcmplt1(type, dst, src, x) ==
    LET t1 == alloc_(x)
    IN  emit_vmov(t1, dst) \o emit_vmov(dst, src)
        \o Legacy("pcmpgt", Width(type), dst, X(t1))
emit_vcmple1(type, dst, src, x) ==
    LET t1 == alloc_(x)
    IN  emit_vmov(t1, dst) \o Legacy("pcmpgt", Width(type), t1, X(src))
        \o emit_vbnot(type, dst, t1, x \ {t1})

emit_vcmpeq(type, dst, src1, src2, x) ==
    emit_one_vsrc(dst, src1, src2)
    \o IF src1 = src2 THEN emit_vone(dst)
       ELSE emit_vcmpeq1(type, dst, one_vsrc(dst, src1, src2))
emit_vcmpne(type, dst, src1, src2, x) ==
    emit_one_vsrc(dst, src1, src2)
    \o IF src1 = src2 THEN emit_vzero(dst)
       ELSE emit_vcmpne1(type, dst, one_vsrc(dst, src1, src2), x)

emit_vcmpgt(type, dst, src1, src2, x) ==
    CASE dst = src1 /\ dst = src2 -> emit_vzero(dst)
      [] dst = src1 /\ dst # src2 -> emit_vcmpgt1(type, dst, src2)
      [] dst # src1 /\ dst = src2 -> emit_vcmplt1(type, dst, src1, x)
      [] OTHER -> emit_vmov(dst, src1) \o emit_vcmpgt1(type, dst, src2)

(* src1 >= src2 is the complement of src2 > src1.                           *)
emit_vcmpge(type, dst, src1, src2, x) ==
    CASE dst = src1 /\ dst = src2 -> emit_vone(dst)
      [] dst = src1 /\ dst # src2 -> emit_vcmplt1(type, dst, src2, x)
                                     \o emit_vbnot(type, dst, dst, x)
      [] dst # src1 /\ dst = src2 -> emit_vcmple1(type, dst, src1, x)
      [] OTHER -> emit_vmov(dst, src2) \o emit_vcmpgt1(type, dst, src1)
                  \o emit_vbnot(type, dst, dst, x)

emit_vcmplt(type, dst, src1, src2, x) == emit_vcmpgt(type, dst, src2, src1, x)
emit_vcmple(type, dst, src1, src2, x) == emit_vcmpge(type, dst, src2, src1, x)

emit_vcmpeqi(type, dst, src, imm, x) ==
    immediate(type, imm, x) \o emit_vcmpeq(type, dst, src, alloc_(x), but_one(x))
emit_vcmpnei(type, dst, src, imm, x) ==
    immediate(type, imm, x) \o emit_vcmpne(type, dst, src, alloc_(x), but_one(x))
emit_vcmpgti(type, dst, src, imm, x) ==
    immediate(type, imm, x) \o emit_vcmpgt(type, dst, src, alloc_(x), but_one(x))
emit_vcmpgei(type, dst, src, imm, x) ==
    immediate(type, imm, x) \o emit_vcmpge(type, dst, src, alloc_(x), but_one(x))
emit_vcmplti(type, dst, src, imm, x) ==
    immediate(type, imm, x) \o emit_vcmplt(type, dst, src, alloc_(x), but_one(x))
emit_vcmplei(type, dst, src, imm, x) ==
    immediate(type, imm, x) \o emit_vcmple(type, dst, src, alloc_(x), but_one(x))

-----------------------------------------------------------------------------
(* The code of one vector instruction; vret is not one of them.             *)
emit_vector(p, type) ==
    LET d == p.rd  i == p.ri  j == p.rj  n == p.imm  x == X_FREE
    IN  CASE p.op = "vmov"     -> emit_vmov(d, i)
          [] p.op = "vmovi"    -> emit_vmovi(type, d, n)
          [] p.op = "vneg"     -> emit_vneg(type, d, i, x)
          [] p.op = "vbnot"    -> emit_vbnot(type, d, i, x)
          [] p.op = "vadd"     -> emit_vadd(type, d, i, j, x)
          [] p.op = "vaddi"    -> emit_vaddi(type, d, i, n, x)
          [] p.op = "vsub"     -> emit_vsub(type, d, i, j, x)
          [] p.op = "vsubi"    -> emit_vsubi(type, d, i, n, x)
          [] p.op = "vrsub"    -> emit_vrsub(type, d, i, j, x)
          [] p.op = "vrsubi"   -> emit_vrsubi(type, d, i, n, x)
          [] p.op = "vmul"     -> emit_vmul(type, d, i, j, x)
          [] p.op = "vmuli"    -> emit_vmuli(type, d, i, n, x)
          [] p.op = "vsll"     -> emit_vsll(type, d, i, j, x)
          [] p.op = "vslli"    -> emit_vslli(type, d, i, n, x)
          [] p.op = "vsrl"     -> emit_vsrl(type, d, i, j, x)
          [] p.op = "vsrli"    -> emit_vsrli(type, d, i, n, x)
          [] p.op = "vsra"     -> emit_vsra(type, d, i, j, x)
          [] p.op = "vsrai"    -> emit_vsrai(type, d, i, n, x)
          [] p.op = "vband"    -> emit_vband(type, d, i, j, x)
          [] p.op = "vbandi"   -> emit_vbandi(type, d, i, n, x)
          [] p.op = "vbandn"   -> emit_vbandn(type, d, i, j, x)
          [] p.op = "vbandni"  -> emit_vbandni(type, d, i, n, x)
          [] p.op = "vbor"     -> emit_vbor(type, d, i, j, x)
          [] p.op = "vbori"    -> emit_vbori(type, d, i, n, x)
          [] p.op = "vbxor"    -> emit_vbxor(type, d, i, j, x)
          [] p.op = "vbxori"   -> emit_vbxori(type, d, i, n, x)
          [] p.op = "vcmpeq"   -> emit_vcmpeq(type, d, i, j, x)
          [] p.op = "vcmpeqi"  -> emit_vcmpeqi(type, d, i, n, x)
          [] p.op = "vcmpne"   -> emit_vcmpne(type, d, i, j, x)
          [] p.op = "vcmpnei"  -> emit_vcmpnei(type, d, i, n, x)
          [] p.op = "vcmplt"   -> emit_vcmplt(type, d, i, j, x)
          [] p.op = "vcmplti"  -> emit_vcmplti(type, d, i, n, x)
          [] p.op = "vcmple"   -> emit_vcmple(type, d, i, j, x)
          [] p.op = "vcmplei"  -> emit_vcmplei(type, d, i, n, x)
          [] p.op = "vcmpgt"   -> emit_vcmpgt(type, d, i, j, x)
          [] p.op = "vcmpgti"  -> emit_vcmpgti(type, d, i, n, x)
          [] p.op = "vcmpge"   -> emit_vcmpge(type, d, i, j, x)
          [] p.op = "vcmpgei"  -> emit_vcmpgei(type, d, i, n, x)
=============================================================================
