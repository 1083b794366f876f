------------------------------ MODULE Emulator ------------------------------
(***************************************************************************)
(* The scalar instructions of jitter_emu.cpp: each emu_ operator is the    *)
(* register file after its function.  r[x] is the 64-bit word of the union *)
(* scalar0_t; an instruction reads and writes the field its type names and *)
(* leaves the other bits of the word alone.                                *)
(***************************************************************************)
EXTENDS JitTypes

Unsigned(type) == CASE type \in {"UINT8", "INT8"}   -> "UINT8"
                    [] type \in {"UINT16", "INT16"} -> "UINT16"
                    [] type \in {"UINT32", "INT32"} -> "UINT32"
                    [] type \in {"UINT64", "INT64"} -> "UINT64"
SignedOf(type) == CASE Unsigned(type) = "UINT8"  -> "INT8"
                    [] Unsigned(type) = "UINT16" -> "INT16"
                    [] Unsigned(type) = "UINT32" -> "INT32"
                    [] Unsigned(type) = "UINT64" -> "INT64"

(* The field of a word as a number, and a word with the field replaced.    *)
Field(type, x) == IF type \in UnsignedTypes THEN Low(Width(type), x)
                                            ELSE ToSigned(Width(type), x)
(* (And the bug of a result that is not cut to the width of its field.)     *)
PutUncut(type, x, v) == x - Low(Width(type), x) + v
PutField(type, x, v) == x - Low(Width(type), x) + Low(Width(type), v)

(* op_add ... op_sra on numbers; C computes in int or wider and the field   *)
(* takes the low bits.  A bitwise operator acts on the low bits only.       *)
Bits(x) == Low(W64, x)
True(b) == IF b THEN -1 ELSE 0
op_(op, x, y) ==
    CASE op = "add"   -> x + y
      [] op = "sub"   -> x - y
      [] op = "mul"   -> x * y
      [] op = "bor"   -> BitOr(Bits(x), Bits(y))
      [] op = "band"  -> BitAnd(Bits(x), Bits(y))
      [] op = "bandn" -> BitAnd(2 ^ W64 - 1 - Bits(x), Bits(y))
      [] op = "bxor"  -> BitXor(Bits(x), Bits(y))
      [] op = "cmpeq" -> True(x = y)
      [] op = "cmplt" -> True(x < y)
      [] op = "cmple" -> True(x <= y)
      [] op = "cmpne" -> True(x # y)
      [] op = "cmpgt" -> True(x > y)
      [] op = "cmpge" -> True(x >= y)
      [] op = "sll"   -> x * 2 ^ y
      [] op = "srl"   -> x \div 2 ^ y
      [] op = "sra"   -> x \div 2 ^ y
op_neg(x) == -x
op_bnot(x) == 2 ^ W64 - 1 - Bits(x)

-----------------------------------------------------------------------------
(* The macros that pick the fields: r with field out of r[d] assigned.     *)
Assign(r, out, d, v) == [r EXCEPT ![d] = PutField(out, @, v)]

Binary(r, in, out, d, i, j, op) ==
    Assign(r, out, d, op_(op, Field(in, r[i]), Field(in, r[j])))
BinaryImm(r, in, out, d, i, imm, op) ==
    Assign(r, out, d, op_(op, Field(in, r[i]), imm))

TFRdi_mov(t, r, d, i) == Assign(r, t, d, Field(t, r[i]))
TFRdi_neg(t, r, d, i) == Assign(r, t, d, op_neg(Field(t, r[i])))
TFURdi(t, r, d, i) == Assign(r, Unsigned(t), d, op_bnot(Field(Unsigned(t), r[i])))
TFRdimm12(t, r, d, imm) == Assign(r, t, d, imm)
EMU_XXX_rrr(t, r, d, i, j, op) == Binary(r, t, t, d, i, j, op)
EMU_XXS_rrb(t, r, d, i, imm, op) == BinaryImm(r, t, t, d, i, imm, op)
TFRd8i(t, r, d, imm, i, op) == Assign(r, t, d, op_(op, imm, Field(t, r[i])))
TUFURdij(t, r, d, i, j, op) == Binary(r, Unsigned(t), Unsigned(t), d, i, j, op)
TIFIRdij(t, r, d, i, j, op) == Binary(r, SignedOf(t), SignedOf(t), d, i, j, op)
TFURdi8(t, r, d, i, imm, op) == BinaryImm(r, Unsigned(t), Unsigned(t), d, i, imm, op)
TFIRdi8(t, r, d, i, imm, op) == BinaryImm(r, SignedOf(t), SignedOf(t), d, i, imm, op)
TFURdij(t, r, d, i, j, op) == Binary(r, Unsigned(t), Unsigned(t), d, i, j, op)
TFIRdij(t, r, d, i, j, op) == Binary(r, t, SignedOf(t), d, i, j, op)
(* The immediate is cast to the field's type when that is unsigned.        *)
srx_di8(t, r, d, i, imm, op) == BinaryImm(r, t, SignedOf(t), d, i, Field(t, imm), op)

-----------------------------------------------------------------------------
emu_mov(t, r, d, i) == TFRdi_mov(t, r, d, i)
emu_movi(t, r, d, imm12) == TFRdimm12(t, r, d, imm12)
emu_neg(t, r, d, i) == TFRdi_neg(t, r, d, i)
emu_bnot(t, r, d, i) == TFURdi(t, r, d, i)
emu_add(t, r, d, i, j) == EMU_XXX_rrr(t, r, d, i, j, "add")
emu_addi(t, r, d, i, imm) == EMU_XXS_rrb(t, r, d, i, imm, "add")
emu_sub(t, r, d, i, j) == EMU_XXX_rrr(t, r, d, i, j, "sub")
emu_subi(t, r, d, i, imm) == EMU_XXS_rrb(t, r, d, i, imm, "sub")
emu_rsub(t, r, d, i, j) == EMU_XXX_rrr(t, r, d, j, i, "sub")
emu_rsubi(t, r, d, i, imm) == TFRd8i(t, r, d, imm, i, "sub")
emu_mul(t, r, d, i, j) == EMU_XXX_rrr(t, r, d, i, j, "mul")
emu_muli(t, r, d, i, imm) == EMU_XXS_rrb(t, r, d, i, imm, "mul")
emu_sll(t, r, d, i, j) == TUFURdij(t, r, d, i, j, "sll")
emu_slli(t, r, d, i, imm) == EMU_XXS_rrb(t, r, d, i, imm, "sll")
emu_srl(t, r, d, i, j) == TUFURdij(t, r, d, i, j, "srl")
emu_srli(t, r, d, i, imm) == TFURdi8(t, r, d, i, imm, "srl")
emu_sra(t, r, d, i, j) == TIFIRdij(t, r, d, i, j, "sra")
emu_srai(t, r, d, i, imm) == TFIRdi8(t, r, d, i, imm, "sra")
emu_band(t, r, d, i, j) == TFURdij(t, r, d, i, j, "band")
emu_bandi(t, r, d, i, imm) == EMU_XXS_rrb(t, r, d, i, imm, "band")
emu_bandn(t, r, d, i, j) == TFURdij(t, r, d, i, j, "bandn")
emu_bandni(t, r, d, i, imm) == EMU_XXS_rrb(t, r, d, i, imm, "bandn")
emu_bor(t, r, d, i, j) == TFURdij(t, r, d, i, j, "bor")
emu_bori(t, r, d, i, imm) == EMU_XXS_rrb(t, r, d, i, imm, "bor")
emu_bxor(t, r, d, i, j) == TFURdij(t, r, d, i, j, "bxor")
emu_bxori(t, r, d, i, imm) == EMU_XXS_rrb(t, r, d, i, imm, "bxor")
emu_cmp(t, r, d, i, j, op) == TFIRdij(t, r, d, i, j, op)

CmpI == [cmpeqi |-> "cmpeq", cmpnei |-> "cmpne", cmplti |-> "cmplt",
         cmplei |-> "cmple", cmpgti |-> "cmpgt", cmpgei |-> "cmpge"]
emu_cmpi(t, r, d, i, imm, op) == srx_di8(t, r, d, i, imm, op)

(* The switch of emulate, without jumps and returns.  An operation it does  *)
(* not know is skipped.                                                     *)
emulate_one(p, t, r) ==
    LET d == p.rd  i == p.ri  j == p.rj  n == p.imm
    IN  CASE p.op = "mov"    -> emu_mov(t, r, d, i)
          [] p.op = "movi"   -> emu_movi(t, r, d, n)
          [] p.op = "neg"    -> emu_neg(t, r, d, i)
          [] p.op = "bnot"   -> emu_bnot(t, r, d, i)
          [] p.op = "add"    -> emu_add(t, r, d, i, j)
          [] p.op = "addi"   -> emu_addi(t, r, d, i, n)
          [] p.op = "sub"    -> emu_sub(t, r, d, i, j)
          [] p.op = "subi"   -> emu_subi(t, r, d, i, n)
          [] p.op = "rsub"   -> emu_rsub(t, r, d, i, j)
          [] p.op = "rsubi"  -> emu_rsubi(t, r, d, i, n)
          [] p.op = "mul"    -> emu_mul(t, r, d, i, j)
          [] p.op = "muli"   -> emu_muli(t, r, d, i, n)
          [] p.op = "sll"    -> emu_sll(t, r, d, i, j)
          [] p.op = "slli"   -> emu_slli(t, r, d, i, n)
          [] p.op = "srl"    -> emu_srl(t, r, d, i, j)
          [] p.op = "srli"   -> emu_srli(t, r, d, i, n)
          [] p.op = "sra"    -> emu_sra(t, r, d, i, j)
          [] p.op = "srai"   -> emu_srai(t, r, d, i, n)
          [] p.op = "band"   -> emu_band(t, r, d, i, j)
          [] p.op = "bandi"  -> emu_bandi(t, r, d, i, n)
          [] p.op = "bandn"  -> emu_bandn(t, r, d, i, j)
          [] p.op = "bandni" -> emu_bandni(t, r, d, i, n)
          [] p.op = "bor"    -> emu_bor(t, r, d, i, j)
          [] p.op = "bori"   -> emu_bori(t, r, d, i, n)
          [] p.op = "bxor"   -> emu_bxor(t, r, d, i, j)
          [] p.op = "bxori"  -> emu_bxori(t, r, d, i, n)
          [] p.op \in CompareOps -> emu_cmp(t, r, d, i, j, p.op)
          [] p.op \in CompareImmOps -> emu_cmpi(t, r, d, i, n, CmpI[p.op])
          [] OTHER -> r
=============================================================================
