------------------------------ MODULE VecTypes ------------------------------
(***************************************************************************)
(* Vectors and vector instructions, as jitter.h and jitter_types.h define  *)
(* them.  A vector is the pair of its low and its high 64 bits; the arrays *)
(* of vscalar0_t are views of it, lanes of the width of a type.            *)
(*                                                                         *)
(* Lanes halve down to single bytes, as on the real machine: the widths    *)
(* are b, 2b, 4b and 8b for a small b.                                     *)
(***************************************************************************)
EXTENDS JitTypes

ASSUME VectorAssumption == W16 = 2 * W8 /\ W32 = 2 * W16 /\ W64 = 2 * W32

Vector == Word \X Word

(* The lanes of a vector at a width: their indices, lane k of a vector, and *)
(* the vector whose lane k is L[k].                                         *)
PerWord(w) == W64 \div w
LaneIndex(w) == 0 .. 2 * PerWord(w) - 1
Lane(w, x, k) ==
    Low(w, x[k \div PerWord(w) + 1] \div 2 ^ (w * (k % PerWord(w))))
Pack(w, L) ==
    LET half(h) ==
            LET sum[k \in 0 .. PerWord(w)] ==
                    IF k = 0 THEN 0
                    ELSE sum[k - 1] + L[h * PerWord(w) + k - 1] * 2 ^ (w * (k - 1))
            IN  sum[PerWord(w)]
    IN  << half(0), half(1) >>

(* The low w bits of a product, by halves to stay in TLC's integers.        *)
MulLow(w, x, y) ==
    LET h == 2 ^ (w \div 2)
    IN  Low(w, (x % h) * (y % h)
               + h * (((x \div h) * (y % h) + (x % h) * (y \div h)) % h))

VecShiftOps == {"vsll", "vsrl", "vsra"}
VecShiftImmOps == {"vslli", "vsrli", "vsrai"}
VecCompareOps == {"vcmpeq", "vcmpne", "vcmplt", "vcmple", "vcmpgt", "vcmpge"}
VecCompareImmOps ==
    {"vcmpeqi", "vcmpnei", "vcmplti", "vcmplei", "vcmpgti", "vcmpgei"}
VecBinaryOps == {"vadd", "vsub", "vrsub", "vmul", "vband", "vbandn", "vbor", "vbxor"}
                \cup VecCompareOps
VecImmOps == {"vaddi", "vsubi", "vrsubi", "vmuli", "vbandi", "vbandni", "vbori",
              "vbxori"} \cup VecCompareImmOps
VecUnaryOps == {"vmov", "vneg", "vbnot"}
=============================================================================
