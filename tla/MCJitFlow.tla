----------------------------- MODULE MCJitFlow ------------------------------
(* Every program of three instructions and a return: counting, moves, and   *)
(* all jumps within the program, in two types of different width; and       *)
(* programs with a return before their end.                                 *)
EXTENDS Jit

CONSTANT Types

MCRegs == {rax, 2}

Ins(op, type, rd, ri, imm) ==
    [op |-> op, type |-> type, rd |-> rd, ri |-> ri, rj |-> 0, imm |-> imm]

Body == 3

Straight == {Ins("movi", t, 2, 0, -1) : t \in Types}
            \cup {Ins("subi", t, d, d, 1) : t \in Types, d \in MCRegs}
            \cup {Ins("add", t, 2, rax, 0) : t \in Types}
            \cup {Ins("nop", "UINT8", 0, 0, 0)}

(* Branches test either register, in both types the one that is counted in. *)
Tested == {<<t, 2>> : t \in Types} \cup {<<"INT32", rax>>}
Branches(q) ==
    {Ins(op, x[1], x[2], 0, to - q - 1) :
        op \in {"jz", "jnz"}, x \in Tested, to \in 0 .. Body}
    \cup {Ins("jmp", "UINT8", 0, 0, to - q - 1) : to \in 0 .. Body}

OneReturn ==
    {<<a, b, c, Ins("ret", "UINT8", 2, 0, 0)>> :
        a \in Straight \cup Branches(0), b \in Straight \cup Branches(1),
        c \in Straight \cup Branches(2)}

(* Programs that return x, unless a branch leads past it, and then y, with  *)
(* another jump between the two that is bound there.                        *)
Ret(x) == Ins("ret", "UINT8", x, 0, 0)
EarlyReturns(x, y) ==
    {<<a, b, Ret(x), c, Ret(y)>> :
        a \in Straight,
        c \in Straight \cup {Ins("jmp", "UINT8", 0, 0, 0), Ins("jnz", "INT32", 2, 0, 0)},
        b \in Straight \cup {Ins(op, t, z, 0, to) :
                 op \in {"jz", "jnz"}, t \in Types, z \in MCRegs, to \in {1, 2}}}
TwoReturns == EarlyReturns(rax, 2) \cup EarlyReturns(2, rax)

MCPrograms == OneReturn \cup TwoReturns

MCFiles == {[x \in MCRegs |-> IF x = rax THEN a ELSE 16] : a \in {0, 18}}

(* These programs are among those the theorems are about.                   *)
ASSUME FlowHypotheses == CountKept /\ ReturnsOnce
=============================================================================
