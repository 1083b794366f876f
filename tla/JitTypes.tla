------------------------------ MODULE JitTypes ------------------------------
(***************************************************************************)
(* Words, scalar types and instructions, as jitter.h and jitter_types.h    *)
(* define them.  An instruction is a record with the fields op, type, rd,  *)
(* ri, rj and imm; imm stands for imm12 in movi and the jumps, for imm8 in *)
(* the others.                                                             *)
(*                                                                         *)
(* The widths of the four integer sizes are constants, so that a small     *)
(* instance keeps what matters about 8, 16, 32 and 64.                     *)
(***************************************************************************)
EXTENDS Integers

CONSTANTS W8, W16, W32, W64

ASSUME WidthAssumption ==
    /\ {W8, W16, W32, W64} \subseteq Nat \ {0}
    /\ W8 < W16 /\ W16 < W32 /\ W32 < W64

(* What the proofs use of exponentiation, of which the provers know nothing.*)
ASSUME PowerAssumption ==
    \A m, n \in 0 .. W64 : /\ 2 ^ m \in Nat \ {0}
                           /\ m + n <= W64 => 2 ^ (m + n) = 2 ^ m * 2 ^ n

Word == 0 .. 2 ^ W64 - 1
Low(w, x) == x % 2 ^ w
ToSigned(w, x) == IF Low(w, x) >= 2 ^ (w - 1) THEN Low(w, x) - 2 ^ w
                                              ELSE Low(w, x)

(* The bitwise operations: bit k of the result is what f says of bit k of x *)
(* and bit k of y.                                                          *)
Bit(k, x) == (x \div 2 ^ k) % 2
BitByBit(f, x, y) ==
    LET low[k \in 0 .. W64] ==
            IF k = 0 THEN 0
            ELSE low[k - 1] + 2 ^ (k - 1) * f[<<Bit(k - 1, x), Bit(k - 1, y)>>]
    IN  low[W64]
AndBit == [p \in (0 .. 1) \X (0 .. 1) |-> p[1] * p[2]]
OrBit == [p \in (0 .. 1) \X (0 .. 1) |-> p[1] + p[2] - p[1] * p[2]]
XorBit == [p \in (0 .. 1) \X (0 .. 1) |-> (p[1] + p[2]) % 2]
BitAnd(x, y) == BitByBit(AndBit, x, y)
BitOr(x, y) == BitByBit(OrBit, x, y)
BitXor(x, y) == BitByBit(XorBit, x, y)

UnsignedTypes == {"UINT8", "UINT16", "UINT32", "UINT64"}
SignedTypes == {"INT8", "INT16", "INT32", "INT64"}
IntTypes == UnsignedTypes \cup SignedTypes

Width(type) == CASE type \in {"UINT8", "INT8"}   -> W8
                 [] type \in {"UINT16", "INT16"} -> W16
                 [] type \in {"UINT32", "INT32"} -> W32
                 [] type \in {"UINT64", "INT64"} -> W64

ShiftOps == {"sll", "srl", "sra"}
ShiftImmOps == {"slli", "srli", "srai"}
CompareOps == {"cmpeq", "cmpne", "cmplt", "cmple", "cmpgt", "cmpge"}
BinaryOps == {"add", "sub", "rsub", "mul", "band", "bandn", "bor", "bxor"}
             \cup ShiftOps \cup CompareOps
UnaryOps == {"mov", "neg", "bnot"}
CompareImmOps == {"cmpeqi", "cmpnei", "cmplti", "cmplei", "cmpgti", "cmpgei"}
ImmOps == {"addi", "subi", "rsubi", "muli", "bandi", "bandni", "bori", "bxori"}
          \cup ShiftImmOps \cup CompareImmOps
JumpOps == {"jmp", "jz", "jnz"}

(* The registers an instruction reads at the width of its type, and the     *)
(* ones it writes.                                                          *)
Reads(c) == CASE c.op \in BinaryOps -> {c.ri, c.rj}
              [] c.op \in UnaryOps \cup ImmOps -> {c.ri}
              [] c.op \in {"jz", "jnz", "ret"} -> {c.rd}
              [] OTHER -> {}
Writes(c) == IF c.op \in BinaryOps \cup UnaryOps \cup ImmOps \cup {"movi"}
             THEN {c.rd} ELSE {}
=============================================================================
