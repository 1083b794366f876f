------------------------------- MODULE EmuVec -------------------------------
(***************************************************************************)
(* The vector instructions of jitter_emu.cpp on integer lanes: each emu_v  *)
(* operator is the vector registers after its function.                    *)
(***************************************************************************)
EXTENDS Emulator, VecTypes

(* op_add .. on lanes: a product is taken modulo the widest lane.           *)
vop_(op, x, y) == IF op = "mul" THEN MulLow(W64, Low(W64, x), Low(W64, y))
                                ELSE op_(op, x, y)
vop1_(op, x) == CASE op = "nop" -> x
                  [] op = "neg" -> op_neg(x)
                  [] op = "bnot" -> op_bnot(x)

-----------------------------------------------------------------------------
(* The macros that loop over the lanes: fld, in and out name the field of   *)
(* the union that is read and written.                                      *)
LaneField(type, x, k) == Field(type, Lane(Width(type), x, k))
Lanes(type) == LaneIndex(Width(type))
Loop(v, out, d, val) ==
    [v EXCEPT ![d] = Pack(Width(out), [k \in Lanes(out) |-> Low(Width(out), val[k])])]

(* (And the bug of a lane that is not cut to its width.)                    *)
KFVdimm12_uncut(fld, v, d, imm) == [v EXCEPT ![d] = Pack(Width(fld), [k \in Lanes(fld) |-> imm])]
KFVdimm12(fld, v, d, imm) == Loop(v, fld, d, [k \in Lanes(fld) |-> imm])
KFFVdi(in, out, v, d, i, op) ==
    Loop(v, out, d, [k \in Lanes(out) |-> vop1_(op, LaneField(in, v[i], k))])
KFFVdij(in, out, v, d, i, j, op) ==
    Loop(v, out, d, [k \in Lanes(out) |-> vop_(op, LaneField(in, v[i], k),
                                               LaneField(in, v[j], k))])
KFVdi(fld, v, d, i, op) == KFFVdi(fld, fld, v, d, i, op)
KFV_vvv(fld, v, d, i, j, op) == KFFVdij(fld, fld, v, d, i, j, op)
KFVdi8(fld, v, d, i, imm, op) ==
    Loop(v, fld, d, [k \in Lanes(fld) |-> vop_(op, LaneField(fld, v[i], k), imm)])
(* (And the bug of the operands of a reversed subtraction not reversed.)    *)
KFVd8i_swapped(fld, v, d, imm, i, op) ==
    Loop(v, fld, d, [k \in Lanes(fld) |-> vop_(op, LaneField(fld, v[i], k), imm)])
KFVd8i(fld, v, d, imm, i, op) ==
    Loop(v, fld, d, [k \in Lanes(fld) |-> vop_(op, imm, LaneField(fld, v[i], k))])
KFV_vvr(fd, fi, fj, v, r, d, i, j, op) ==
    Loop(v, fd, d, [k \in Lanes(fd) |-> vop_(op, LaneField(fi, v[i], k), Field(fj, r[j]))])

(* The lane is cast to int, which cuts a wider one.                        *)
KFFVdi8(in, out, v, d, i, imm, op) ==
    Loop(v, out, d, [k \in Lanes(out) |->
                        vop_(op, ToSigned(W32, LaneField(in, v[i], k)), imm)])

(* The macros that choose the field: vectors compare as signed lanes.       *)
vx_di(t, v, d, i, op) == KFVdi(t, v, d, i, op)
vx_dij(t, v, d, i, j, op) == KFV_vvv(t, v, d, i, j, op)
TKVdimm12(t, v, d, imm) == KFVdimm12(t, v, d, imm)
vi_di8(t, v, d, i, imm, op) == KFVdi8(t, v, d, i, imm, op)
vx_di8(t, v, d, i, imm, op) == KFVdi8(t, v, d, i, imm, op)
vx_d8i(t, v, d, imm, i, op) == KFVd8i(t, v, d, imm, i, op)
TKUVdi8(t, v, d, i, imm, op) == KFVdi8(Unsigned(t), v, d, i, imm, op)
TKIVdi8(t, v, d, i, imm, op) == KFVdi8(SignedOf(t), v, d, i, imm, op)
svx_dij(t, v, d, i, j, op) == KFFVdij(SignedOf(t), t, v, d, i, j, op)
svx_di8(t, v, d, i, imm, op) == KFFVdi8(SignedOf(t), t, v, d, i, imm, op)
EMU_IIU_vvr(t, v, r, d, i, j, op) ==
    KFV_vvr(t, Unsigned(t), Unsigned(t), v, r, d, i, j, op)
EMU_ISU_vvr(t, v, r, d, i, j, op) ==
    KFV_vvr(t, SignedOf(t), Unsigned(t), v, r, d, i, j, op)

-----------------------------------------------------------------------------
emu_vmov(t, v, d, i) == vx_di(t, v, d, i, "nop")
emu_vmovi(t, v, d, imm12) == TKVdimm12(t, v, d, imm12)
emu_vneg(t, v, d, i) == vx_di(t, v, d, i, "neg")
emu_vbnot(v, d, i) == KFFVdi("UINT64", "UINT64", v, d, i, "bnot")
emu_vadd(t, v, d, i, j) == vx_dij(t, v, d, i, j, "add")
emu_vaddi(t, v, d, i, imm) == vx_di8(t, v, d, i, imm, "add")
emu_vsub(t, v, d, i, j) == vx_dij(t, v, d, i, j, "sub")
emu_vsubi(t, v, d, i, imm) == vx_di8(t, v, d, i, imm, "sub")
emu_vrsub(t, v, d, i, j) == vx_dij(t, v, d, j, i, "sub")
emu_vrsubi(t, v, d, i, imm) == vx_d8i(t, v, d, imm, i, "sub")
emu_vmul(t, v, d, i, j) == vx_dij(t, v, d, i, j, "mul")
emu_vmuli(t, v, d, i, imm) == vx_di8(t, v, d, i, imm, "mul")
emu_vsll(t, v, r, d, i, j) == EMU_IIU_vvr(t, v, r, d, i, j, "sll")
emu_vslli(t, v, d, i, imm) == vi_di8(t, v, d, i, imm, "sll")
emu_vsrl(t, v, r, d, i, j) == EMU_IIU_vvr(t, v, r, d, i, j, "srl")
emu_vsrli(t, v, d, i, imm) == TKUVdi8(t, v, d, i, imm, "srl")
emu_vsra(t, v, r, d, i, j) == EMU_ISU_vvr(t, v, r, d, i, j, "sra")
emu_vsrai(t, v, d, i, imm) == TKIVdi8(t, v, d, i, imm, "sra")
emu_vbit(v, d, i, j, op) == KFFVdij("UINT64", "UINT64", v, d, i, j, op)
emu_vbiti(t, v, d, i, imm, op) == vi_di8(t, v, d, i, imm, op)
emu_vcmp(t, v, d, i, j, op) == svx_dij(t, v, d, i, j, op)
emu_vcmpi(t, v, d, i, imm, op) == svx_di8(t, v, d, i, imm, op)

(* The operation of op_add .. that a bitwise or comparing instruction uses. *)
VecOp == [vband |-> "band", vbandn |-> "bandn", vbor |-> "bor", vbxor |-> "bxor",
          vbandi |-> "band", vbandni |-> "bandn", vbori |-> "bor", vbxori |-> "bxor",
          vcmpeq |-> "cmpeq", vcmpne |-> "cmpne", vcmplt |-> "cmplt",
          vcmple |-> "cmple", vcmpgt |-> "cmpgt", vcmpge |-> "cmpge",
          vcmpeqi |-> "cmpeq", vcmpnei |-> "cmpne", vcmplti |-> "cmplt",
          vcmplei |-> "cmple", vcmpgti |-> "cmpgt", vcmpgei |-> "cmpge"]

(* The vector cases of emulate's switch.                                   *)
emulate_vec(p, t, v, r) ==
    LET d == p.rd  i == p.ri  j == p.rj  n == p.imm
    IN  CASE p.op = "vmov"   -> emu_vmov(t, v, d, i)
          [] p.op = "vmovi"  -> emu_vmovi(t, v, d, n)
          [] p.op = "vneg"   -> emu_vneg(t, v, d, i)
          [] p.op = "vbnot"  -> emu_vbnot(v, d, i)
          [] p.op = "vadd"   -> emu_vadd(t, v, d, i, j)
          [] p.op = "vaddi"  -> emu_vaddi(t, v, d, i, n)
          [] p.op = "vsub"   -> emu_vsub(t, v, d, i, j)
          [] p.op = "vsubi"  -> emu_vsubi(t, v, d, i, n)
          [] p.op = "vrsub"  -> emu_vrsub(t, v, d, i, j)
          [] p.op = "vrsubi" -> emu_vrsubi(t, v, d, i, n)
          [] p.op = "vmul"   -> emu_vmul(t, v, d, i, j)
          [] p.op = "vmuli"  -> emu_vmuli(t, v, d, i, n)
          [] p.op = "vsll"   -> emu_vsll(t, v, r, d, i, j)
          [] p.op = "vslli"  -> emu_vslli(t, v, d, i, n)
          [] p.op = "vsrl"   -> emu_vsrl(t, v, r, d, i, j)
          [] p.op = "vsrli"  -> emu_vsrli(t, v, d, i, n)
          [] p.op = "vsra"   -> emu_vsra(t, v, r, d, i, j)
          [] p.op = "vsrai"  -> emu_vsrai(t, v, d, i, n)
          [] p.op \in {"vband", "vbandn", "vbor", "vbxor"} ->
                emu_vbit(v, d, i, j, VecOp[p.op])
          [] p.op \in {"vbandi", "vbandni", "vbori", "vbxori"} ->
                emu_vbiti(t, v, d, i, n, VecOp[p.op])
          [] p.op \in VecCompareOps -> emu_vcmp(t, v, d, i, j, VecOp[p.op])
          [] p.op \in VecCompareImmOps -> emu_vcmpi(t, v, d, i, n, VecOp[p.op])
=============================================================================
