------------------------------ MODULE MCJitOps ------------------------------
(* Every instruction on its own, followed by a return of its destination,   *)
(* for every type and every aliasing of three registers.                    *)
EXTENDS Jit

CONSTANT Shapes

MCRegs == {rax, rcx, 2}

Ins(op, type, rd, ri, rj, imm) ==
    [op |-> op, type |-> type, rd |-> rd, ri |-> ri, rj |-> rj, imm |-> imm]

Imm8s == {-8, -1, 0, 1, 5}

Singles ==
    UNION {
      {Ins(op, t, s[1], s[2], s[3], 0) :
          op \in BinaryOps, t \in IntTypes, s \in Shapes},
      {Ins(op, t, s[1], s[2], 0, 0) :
          op \in UnaryOps, t \in IntTypes, s \in Shapes},
      {Ins(op, t, s[1], s[2], 0, i) :
          op \in ImmOps, t \in IntTypes, s \in Shapes, i \in Imm8s},
      {Ins("movi", t, s[1], 0, 0, i) : t \in IntTypes, s \in Shapes, i \in Imm8s}}

(* rcx as the destination of a shift by a register is left out: see below.  *)
MCPrograms == {<<c, Ins("ret", c.type, c.rd, 0, 0, 0)>> :
                  c \in {c \in Singles : ~(c.op \in ShiftOps /\ c.rd = rcx)}}

(* Shifts left with every destination.                                     *)
SllPrograms == {<<Ins("sll", "UINT32", s[1], s[2], s[3], 0),
                  Ins("ret", "UINT32", s[1], 0, 0, 0)>> : s \in Shapes}

AllShapes == MCRegs \X MCRegs \X MCRegs

(* Zero, shift counts, the ends of every signed and unsigned range, a mix.  *)
Samples == {0, 1, 3, 7, 8, 15, 31, 32, 64, 85, 127}
MCFiles == {[x \in MCRegs |-> IF x = rax THEN a ELSE IF x = rcx THEN b ELSE 43] :
              a \in Samples, b \in Samples}

(* These programs are among those the theorems are about, but for the ones  *)
(* that shift into rcx.                                                     *)
ASSUME OpsHypotheses == Programs = SllPrograms \/ (CountKept /\ ReturnsOnce)
=============================================================================
