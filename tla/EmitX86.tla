------------------------------ MODULE EmitX86 -------------------------------
(***************************************************************************)
(* The scalar emitters of jitter_x86.cpp: each emit_ operator is the code  *)
(* its function appends.  Register numbers are shared by the virtual and   *)
(* the native registers.  Only the integer types reach a general purpose   *)
(* register, so only they appear here.                                     *)
(***************************************************************************)
EXTENDS X86, TempPool

-----------------------------------------------------------------------------
(* The temporaries of an instruction, in the order alloc_gp hands them out. *)
T0 == alloc_(R_FREE)
T1 == alloc_(R_FREE \ {T0})

-----------------------------------------------------------------------------
RR(op, type, dst, src) == << Instr(op, Width(type), dst, Reg(src)) >>
RI(op, type, dst, imm) == << Instr(op, Width(type), dst, Imm(imm)) >>
One(op, type, dst) == RI(op, type, dst, 0)

emit_dec(type, dst) == One("dec", type, dst)
emit_movi(type, dst, imm) == RI("mov", type, dst, imm)
emit_zero(type, dst) == RR("xor", type, dst, dst)
emit_neg_dst(type, dst) == One("neg", type, dst)

(* The whole register, whatever the type.                                  *)
emit_src(dst, src) ==
    IF src # dst THEN << Instr("mov", W64, dst, Reg(src)) >> ELSE << >>

emit_mov(type, dst, src) == emit_src(dst, src)

emit_movr(type, dst, src) ==
    IF dst # src THEN RR("mov", type, dst, src) ELSE << >>

(* Two sources reduced to dst and one other: the move that takes, and then  *)
(* the register that is left to combine with dst.                           *)
emit_one_src(type, dst, src1, src2) ==
    IF dst \in {src1, src2} THEN << >> ELSE emit_movr(type, dst, src1)

(* The bug of combining with src2 even where src2 is dst itself.            *)
one_src_second(dst, src1, src2) == src2

one_src(dst, src1, src2) ==
    IF src2 = dst /\ src1 # dst THEN src1 ELSE src2

-----------------------------------------------------------------------------
emit_slli(type, dst, src, imm) == emit_src(dst, src) \o RI("shl", type, dst, imm)
emit_srli(type, dst, src, imm) == emit_src(dst, src) \o RI("shr", type, dst, imm)
emit_srai(type, dst, src, imm) == emit_src(dst, src) \o RI("sar", type, dst, imm)

emit_neg(type, dst, src) == emit_src(dst, src) \o emit_neg_dst(type, dst)
emit_bnot(type, dst, src) == emit_src(dst, src) \o One("not", type, dst)

emit_add(type, dst, src1, src2) ==
    emit_one_src(type, dst, src1, src2)
    \o RR("add", type, dst, one_src(dst, src1, src2))

emit_addi(type, dst, src, imm) == emit_src(dst, src) \o RI("add", type, dst, imm)

emit_sub(type, dst, src1, src2) ==
    IF dst = src1 /\ dst = src2 THEN emit_zero(type, dst)
    ELSE IF src1 = dst THEN RR("sub", type, dst, src2)
    ELSE IF src2 = dst
    THEN emit_neg(type, dst, dst) \o emit_add(type, dst, src1, dst)
    ELSE emit_movr(type, dst, src1) \o RR("sub", type, dst, src2)

emit_subi(type, dst, src, imm) == emit_src(dst, src) \o RI("sub", type, dst, imm)
emit_rsub(type, dst, src1, src2) == emit_sub(type, dst, src2, src1)
emit_rsubi(type, dst, src, imm) ==
    emit_neg(type, dst, src) \o emit_addi(type, dst, dst, imm)

(* There is no imul of bytes with two operands: the low byte of dst is      *)
(* widened and the product taken in sixteen bits.                           *)
imul(type, dst, src) ==
    IF Width(type) = W8
    THEN << Instr("and", W16, dst, Imm(2 ^ W8 - 1)),
            Instr("imul", W16, dst, src) >>
    ELSE << Instr("imul", Width(type), dst, src) >>

emit_mul(type, dst, src1, src2) ==
    emit_one_src(type, dst, src1, src2)
    \o imul(type, dst, Reg(one_src(dst, src1, src2)))

emit_muli(type, dst, src, imm) == emit_src(dst, src) \o imul(type, dst, Imm(imm))

(* Shifts by a register: the count must be in cl, so rcx is saved in T0 and *)
(* restored, and the shift itself done in T1.                               *)
Shift(op, type, dst, src1, src2) ==
    << Instr("mov", W64, T0, Reg(rcx)) >>
    \o emit_movr(type, T1, src1)
    \o emit_movr(type, rcx, src2)
    \o RR(op, type, T1, rcx)
    \o emit_movr(type, dst, T1)
    \o << Instr("mov", W64, rcx, Reg(T0)) >>

emit_sll(type, dst, src1, src2) == Shift("shl", type, dst, src1, src2)
emit_srl(type, dst, src1, src2) == Shift("shr", type, dst, src1, src2)
emit_sra(type, dst, src1, src2) == Shift("sar", type, dst, src1, src2)

emit_band(type, dst, src1, src2) ==
    emit_one_src(type, dst, src1, src2)
    \o RR("and", type, dst, one_src(dst, src1, src2))

emit_bandi(type, dst, src, imm) == emit_src(dst, src) \o RI("and", type, dst, imm)

emit_bandn(type, dst, src1, src2) ==
    IF dst = src1 /\ dst = src2 THEN emit_zero(type, dst)
    ELSE emit_mov(type, T0, src1) \o emit_bnot(type, T0, T0)
         \o emit_band(type, dst, T0, src2)

emit_bandni(type, dst, src, imm) ==
    emit_mov(type, T0, src) \o emit_bnot(type, T0, T0)
    \o emit_bandi(type, dst, T0, imm)

emit_bor(type, dst, src1, src2) ==
    emit_one_src(type, dst, src1, src2)
    \o RR("or", type, dst, one_src(dst, src1, src2))

emit_bori(type, dst, src, imm) == emit_src(dst, src) \o RI("or", type, dst, imm)

emit_bxor(type, dst, src1, src2) ==
    emit_one_src(type, dst, src1, src2)
    \o RR("xor", type, dst, one_src(dst, src1, src2))

emit_bxori(type, dst, src, imm) == emit_src(dst, src) \o RI("xor", type, dst, imm)

-----------------------------------------------------------------------------
emit_cmp(type, src1, src2) == RR("cmp", type, src1, src2)
emit_cmpi(type, src1, imm) == RI("cmp", type, src1, imm)

(* The bug of comparing unsigned operands as signed ones.                   *)
SkipUnlessSigned(cc, type) ==
    CASE cc = "EQ"  -> "jne"
      [] cc = "NEQ" -> "je"
      [] cc = "LT"  -> "jge"
      [] cc = "LE"  -> "jg"
      [] cc = "GT"  -> "jle"
      [] cc = "GE"  -> "jl"

(* The jump over the code for "true": the opposite of the comparison.      *)
SkipUnless(cc, type) ==
    LET uint == type \in UnsignedTypes
    IN  CASE cc = "EQ"  -> "jne"
          [] cc = "NEQ" -> "je"
          [] cc = "LT"  -> IF uint THEN "jae" ELSE "jge"
          [] cc = "LE"  -> IF uint THEN "ja"  ELSE "jg"
          [] cc = "GT"  -> IF uint THEN "jbe" ELSE "jle"
          [] cc = "GE"  -> IF uint THEN "jb"  ELSE "jl"

(* dst = 0, and then -1 unless the comparison fails: mov keeps the flags.   *)
emit_movecc(cc, type, dst) ==
    emit_movi(type, dst, 0) \o << Jump(SkipUnless(cc, type)) >>
    \o emit_dec(type, dst) \o << Bind >>

emit_cmpcc(cc, type, dst, src1, src2) ==
    emit_cmp(type, src1, src2) \o emit_movecc(cc, type, dst)

emit_cmpcci(cc, type, dst, src1, imm) ==
    emit_cmpi(type, src1, imm) \o emit_movecc(cc, type, dst)

-----------------------------------------------------------------------------
Conditions == [cmpeq |-> "EQ", cmpne |-> "NEQ", cmplt |-> "LT",
               cmple |-> "LE", cmpgt |-> "GT", cmpge |-> "GE"]
ConditionsI == [cmpeqi |-> "EQ", cmpnei |-> "NEQ", cmplti |-> "LT",
                cmplei |-> "LE", cmpgti |-> "GT", cmpgei |-> "GE"]

(* The code of one instruction that is neither a jump nor a return.  Its    *)
(* field imm is imm12 for movi and imm8 for the others.                     *)
emit_instruction(p, type) ==
    LET d == p.rd  i == p.ri  j == p.rj  n == p.imm
    IN  CASE p.op = "nop"    -> << >>
          [] p.op = "mov"    -> emit_movr(type, d, i)
          [] p.op = "movi"   -> emit_movi(type, d, n)
          [] p.op = "neg"    -> emit_neg(type, d, i)
          [] p.op = "bnot"   -> emit_bnot(type, d, i)
          [] p.op = "add"    -> emit_add(type, d, i, j)
          [] p.op = "addi"   -> emit_addi(type, d, i, n)
          [] p.op = "sub"    -> emit_sub(type, d, i, j)
          [] p.op = "subi"   -> emit_subi(type, d, i, n)
          [] p.op = "rsub"   -> emit_rsub(type, d, i, j)
          [] p.op = "rsubi"  -> emit_rsubi(type, d, i, n)
          [] p.op = "mul"    -> emit_mul(type, d, i, j)
          [] p.op = "muli"   -> emit_muli(type, d, i, n)
          [] p.op = "sll"    -> emit_sll(type, d, i, j)
          [] p.op = "slli"   -> emit_slli(type, d, i, n)
          [] p.op = "srl"    -> emit_srl(type, d, i, j)
          [] p.op = "srli"   -> emit_srli(type, d, i, n)
          [] p.op = "sra"    -> emit_sra(type, d, i, j)
          [] p.op = "srai"   -> emit_srai(type, d, i, n)
          [] p.op = "band"   -> emit_band(type, d, i, j)
          [] p.op = "bandi"  -> emit_bandi(type, d, i, n)
          [] p.op = "bandn"  -> emit_bandn(type, d, i, j)
          [] p.op = "bandni" -> emit_bandni(type, d, i, n)
          [] p.op = "bor"    -> emit_bor(type, d, i, j)
          [] p.op = "bori"   -> emit_bori(type, d, i, n)
          [] p.op = "bxor"   -> emit_bxor(type, d, i, j)
          [] p.op = "bxori"  -> emit_bxori(type, d, i, n)
          [] p.op \in DOMAIN Conditions ->
                emit_cmpcc(Conditions[p.op], type, d, i, j)
          [] p.op \in DOMAIN ConditionsI ->
                emit_cmpcci(ConditionsI[p.op], type, d, i, n)
=============================================================================
