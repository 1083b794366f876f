------------------------------ MODULE MCVecOps ------------------------------
(* Every vector instruction on its own, for every type and every aliasing   *)
(* of its operands, with AVX and without, on a processor that has AVX2.     *)
EXTENDS JitVec

MCCpus == {{"MMX", "SSE", "SSE2", "SSE3", "SSSE3", "SSE4_1", "SSE4_2", "AVX", "AVX2"}}
MCMasks == {}
MCAsked == {"SSE", "SSE2"}
MCVRegs == {0, 1, 2}
MCRegs == {rcx, 2}

Ins(op, type, rd, ri, rj, imm) ==
    [op |-> op, type |-> type, rd |-> rd, ri |-> ri, rj |-> rj, imm |-> imm]

(* Every way the three operands can coincide, the sources first in 0 and 1. *)
Shapes == {<<0, 0, 0>>, <<0, 0, 1>>, <<1, 0, 1>>, <<2, 0, 0>>, <<2, 0, 1>>}
Moves == {<<0, 0>>, <<1, 0>>}
Imm8s == {-2, -1, 0, 1}
Imm12s == {-7, -1, 2, 6}
Counts == {0, 1, 2, 3, 5, 7, 12, 15}

(* Comparisons of 64-bit lanes with an immediate are left out: the emulator *)
(* cuts such a lane to an int, native code does not.                        *)
NarrowTypes == {t \in IntTypes : Width(t) # W64}

MCInstructions ==
    UNION {
      {Ins(op, t, s[1], s[2], s[3], 0) :
          op \in VecBinaryOps, t \in IntTypes, s \in Shapes},
      {Ins(op, t, m[1], m[2], 0, 0) : op \in VecUnaryOps, t \in IntTypes, m \in Moves},
      {Ins(op, t, m[1], m[2], 0, i) :
          op \in VecImmOps \ VecCompareImmOps, t \in IntTypes, m \in Moves, i \in Imm8s},
      {Ins(op, t, m[1], m[2], 0, i) :
          op \in VecCompareImmOps, t \in NarrowTypes, m \in Moves, i \in Imm8s},
      {Ins(op, t, m[1], m[2], j, 0) :
          op \in VecShiftOps, t \in IntTypes, m \in Moves, j \in MCRegs},
      {Ins(op, t, m[1], m[2], 0, n) :
          op \in VecShiftImmOps, t \in IntTypes, m \in Moves, n \in Counts},
      {Ins("vmovi", t, 0, 0, 0, i) : t \in IntTypes, i \in Imm12s}}

ASSUME VecHypotheses == ComparesNarrow

(* The first file has every pair of bytes in its lanes; the others the ends *)
(* of the ranges, equal lanes and mixes.                                    *)
Data(a, b, m, n) == [v |-> << a, b >>, r |-> << m, n >>]
MCFiles ==
    {[v |-> [x \in MCVRegs |-> IF x = 0 THEN f.v[1] ELSE IF x = 1 THEN f.v[2]
                               ELSE << 27417, 50085 >>],
      r |-> [x \in MCRegs |-> IF x = rcx THEN f.r[1] ELSE f.r[2]]] :
       f \in {Data(<< 58596, 58596 >>, << 21760, 65450 >>, 1, 3),
              Data(<< 32768, 32767 >>, << 65535, 1 >>, 2, 7),
              Data(<< 4660, 36736 >>, << 4660, 3969 >>, 0, 15),
              Data(<< 127, 65408 >>, << 51203, 9 >>, 5, 12),
              Data(<< 33153, 257 >>, << 33153, 65279 >>, 3, 4),
              Data(<< 0, 65535 >>, << 32896, 0 >>, 1, 1),
              Data(<< 9320, 47802 >>, << 56797, 4369 >>, 6, 2),
              Data(<< 32640, 61455 >>, << 32768, 3855 >>, 2, 0)}}
=============================================================================
