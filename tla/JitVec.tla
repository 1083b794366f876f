------------------------------- MODULE JitVec -------------------------------
(***************************************************************************)
(* One vector instruction run by emulate() of jitter_emu.cpp and by the    *)
(* native code jitter_x86.cpp makes of it, as code_vop and its relatives   *)
(* of jitter_test.cpp run both and compare: the assembler's features are   *)
(* set up, the instruction is assembled, and both run on one register      *)
(* file.  A client may disable AVX before it assembles.                    *)
(***************************************************************************)
EXTENDS EmitVec, Compare

CONSTANTS Asked,        \* what the test passes to vec_enable
          Regs,         \* the virtual registers used: scalar ones
          VRegs,        \* and vectors
          Instructions, \* the instructions to try
          Files,        \* register files: [v |-> vectors, r |-> scalars]
          Junk          \* what a native register holds that was not loaded

(***************************************************************************)
(* The native code uses the virtual registers that are its temporaries and *)
(* its argument for itself.                                                *)
(***************************************************************************)
ASSUME JitVecAssumption ==
    /\ VRegs \subseteq Regs16 \ X_FREE
    /\ Regs \subseteq Regs16 \ (R_FREE \cup {4, 7})
    /\ Files \subseteq [v : [VRegs -> Vector], r : [Regs -> Word]]
    /\ Junk \in Word
    /\ Cpus # {} /\ \A c \in Cpus : "SSE2" \in c

(***************************************************************************)
(* main() of jitter_test.cpp asks for SSE2, and a test for no less.        *)
(***************************************************************************)
ASSUME AskedAssumption ==
    /\ Asked \subseteq Features!Flags
    /\ "SSE2" \in UNION {Features!Implied(f) : f \in Asked}

(***************************************************************************)
(* An instruction names the registers of the program; its imm8 is signed.  *)
(***************************************************************************)
Imm8 == -(2 ^ (W8 - 1)) .. 2 ^ (W8 - 1) - 1
VecOperations == VecBinaryOps \cup VecUnaryOps \cup VecImmOps \cup VecShiftOps
                 \cup VecShiftImmOps \cup {"vmovi"}
VecInstructions == [op : VecOperations, type : IntTypes,
                    rd : VRegs, ri : Regs16, rj : Regs16, imm : Int]

ASSUME VecInstructionsAssumption ==
    \A c \in Instructions :
        /\ c \in VecInstructions
        /\ c.op # "vmovi" => c.ri \in VRegs
        /\ c.op \in VecBinaryOps => c.rj \in VRegs
        /\ c.op \in VecShiftOps => c.rj \in Regs
        /\ c.op \in VecImmOps => c.imm \in Imm8

(* Programs that compare no 64-bit lanes with an immediate, for which the   *)
(* emulator cuts them to an int.                                            *)
ComparesNarrow ==
    \A c \in Instructions : c.op \in VecCompareImmOps => Width(c.type) # W64

VARIABLES phase,        \* "new", "enabled", "ready", "assembled", "done"
          instr,        \* the instruction
          code,         \* its native code
          file,         \* the register file both runs start on
          v, r,         \* emulate: rfp->v and rfp->r
          native        \* the processor after the native code

featureVars == <<cpu, vec_available, vec_enabled, vec_enable_mask, setup>>
runVars == <<file, v, r, native>>
vars == <<featureVars, phase, instr, code, runVars>>

None == [op |-> "vnop"]
Loaded(f) ==
    Machine([x \in Regs16 |-> IF x \in VRegs THEN f.v[x] ELSE << Junk, Junk >>],
            [x \in Regs16 |-> IF x \in Regs THEN f.r[x] ELSE Junk])

Init == /\ Features!Init
        /\ phase = "new"
        /\ instr = None /\ code = << >>
        /\ file \in Files
        /\ v = file.v /\ r = file.r
        /\ native = Loaded(file)

Enable == /\ phase = "new" /\ phase' = "enabled"
          /\ Features!vec_enable(Asked)
          /\ UNCHANGED <<instr, code, runVars>>

VecSetup == /\ phase = "enabled" /\ phase' = "ready"
            /\ Features!vec_setup
            /\ UNCHANGED <<instr, code, runVars>>

DisableAvx == /\ phase = "ready" /\ use_avx
              /\ Features!disable({"AVX"})
              /\ UNCHANGED <<phase, instr, code, runVars>>

Assemble(p) == /\ phase = "ready" /\ phase' = "assembled"
               /\ instr' = p
               /\ code' = emit_vector(p, p.type)
               /\ UNCHANGED <<featureVars, runVars>>

(* What C defines: a shift by less than the width of the promoted operand;  *)
(* and a count register that holds nothing above the bits of its type,      *)
(* which alone the emulator reads.                                          *)
Promoted(type) == IF Width(type) = W64 THEN W64 ELSE W32
ShiftDefined(p) ==
    /\ p.op \in VecShiftImmOps => p.imm \in 0 .. Promoted(p.type) - 1
    /\ p.op \in VecShiftOps => /\ r[p.rj] < Promoted(p.type)
                               /\ r[p.rj] < 2 ^ Width(p.type)

Run == /\ phase = "assembled" /\ phase' = "done"
       /\ ShiftDefined(instr)
       /\ v' = emulate_vec(instr, instr.type, v, r)
       /\ native' = Exec(native, code)
       /\ UNCHANGED <<featureVars, instr, code, file, r>>

Next == \/ Enable \/ VecSetup \/ DisableAvx \/ Run
        \/ \E p \in Instructions : Assemble(p)

Spec == Init /\ [][Next]_vars
-----------------------------------------------------------------------------
TypeOK == /\ v \in [VRegs -> Vector] /\ r \in [Regs -> Word]
          /\ native.x \in [Regs16 -> Vector]
          /\ native.g \in [Regs16 -> Word]

(* The native code leaves in every vector register what the emulator does:  *)
(* each emitter computes its instruction for every type and every aliasing  *)
(* of its operands, whichever features are enabled, and changes no vector   *)
(* register but its destination and the temporaries.                        *)
SameVectors == phase = "done" => \A x \in VRegs : native.x[x] = v[x]

(* A vector instruction leaves every scalar register alone, rcx too, which  *)
(* holds the count while 64-bit lanes are shifted.                          *)
ScalarsKept == phase = "done" => \A x \in Regs : native.g[x] = r[x]

(* The temporaries suffice: no emitter, with the emitters it calls while it *)
(* holds one, asks for an xmm register when none is free.                   *)
PoolSuffices == \A k \in 1 .. Len(code) : Names(code[k]) \subseteq Regs16

(* Every vector instruction emitted belongs to a feature that is enabled at *)
(* that moment, by whatever emitters an instruction goes through, and none  *)
(* falls back to the scalar registers.  Emitters ask for AVX and SSE2 only: *)
(* of SSE4 they take what they need (64-bit comparisons, 32-bit products).  *)
NeverAsked == {"SSE4_1", "SSE4_2"}
FormsEnabled ==
    \A k \in 1 .. Len(code) :
        /\ code[k].op \in Opcodes
        /\ Needs(code[k]) \in vec_enabled \cup NeverAsked

(* A vector instruction of the emulator does in every lane what the scalar  *)
(* instruction of the same type does; a comparison, that of the signed type *)
(* whatever the type is.  (A scalar shift reads a signed count.)            *)
ScalarOp == [vmov |-> "mov", vneg |-> "neg", vbnot |-> "bnot", vmovi |-> "movi",
             vadd |-> "add", vsub |-> "sub", vrsub |-> "rsub",
             vaddi |-> "addi", vsubi |-> "subi", vrsubi |-> "rsubi",
             vsll |-> "sll", vsrl |-> "srl", vsra |-> "sra",
             vslli |-> "slli", vsrli |-> "srli", vsrai |-> "srai",
             vbandi |-> "bandi", vbandni |-> "bandni", vbori |-> "bori",
             vbxori |-> "bxori", vcmpeqi |-> "cmpeqi", vcmpnei |-> "cmpnei",
             vcmplti |-> "cmplti", vcmplei |-> "cmplei", vcmpgti |-> "cmpgti",
             vcmpgei |-> "cmpgei",
             vband |-> "band", vbandn |-> "bandn", vbor |-> "bor", vbxor |-> "bxor",
             vcmpeq |-> "cmpeq", vcmpne |-> "cmpne", vcmplt |-> "cmplt",
             vcmple |-> "cmple", vcmpgt |-> "cmpgt", vcmpge |-> "cmpge"]
LanesAsScalars ==
    phase = "done" /\ instr.op \in DOMAIN ScalarOp
    /\ (instr.op \in VecShiftOps => r[instr.rj] < 2 ^ (Width(instr.type) - 1)) =>
        LET w == Width(instr.type)
            type == IF instr.op \in VecCompareOps \cup VecCompareImmOps
                    THEN SignedOf(instr.type) ELSE instr.type
            scalar == [instr EXCEPT !.op = ScalarOp[@], !.rd = "d", !.ri = "i", !.rj = "j"]
            j(k) == IF instr.op \in VecShiftOps THEN r[instr.rj]
                    ELSE Lane(w, file.v[instr.rj], k)
        IN  \A k \in LaneIndex(w) :
                Lane(w, v[instr.rd], k)
                = Low(w, emulate_one(scalar, type,
                             [d |-> 0, i |-> Lane(w, file.v[instr.ri], k), j |-> j(k)]).d)

(* The comparison by which a test decides sees every difference in any lane *)
(* whatever the type, gives the opposite answer when its operands are       *)
(* exchanged, and orders vectors by their first lanes as scmp orders those. *)
CompareExact ==
    phase = "done" =>
        \A x, y \in VRegs :
            LET type == instr.type
                a == v[x]
                b == native.x[y]
                c == vcmp(type, a, b)
            IN  /\ c = 0 <=> a = b
                /\ vcmp(type, b, a) = -c
                /\ scmp(type, a[1], b[1]) # 0 => c = scmp(type, a[1], b[1])
=============================================================================
