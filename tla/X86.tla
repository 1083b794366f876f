-------------------------------- MODULE X86 ---------------------------------
(***************************************************************************)
(* The part of an x86-64 processor that the scalar code of jitter_x86.cpp  *)
(* runs on: sixteen general purpose registers that can be written in part, *)
(* the outcome of the last cmp, and short forward jumps.                   *)
(***************************************************************************)
EXTENDS JitTypes, Sequences

(* A signed byte can count any shift of a register.                         *)
ASSUME CountAssumption == W64 <= 2 ^ (W8 - 1)

Gpr == 0 .. 15
rax == 0
rcx == 1
rsp == 4
rdi == 7

(* A processor: registers, the last comparison, and whether a jump taken is *)
(* still on its way to its label.                                           *)
Cpu(gpr) == [gpr |-> gpr,
             cmp |-> [eq |-> FALSE, below |-> FALSE, less |-> FALSE],
             skip |-> FALSE]

Reg(r) == [reg |-> TRUE, n |-> r]
Imm(i) == [reg |-> FALSE, n |-> i]
Instr(op, w, dst, src) == [op |-> op, w |-> w, dst |-> dst, src |-> src]
Bind == Instr("bind", W64, 0, Imm(0))
Jump(cc) == Instr(cc, W64, 0, Imm(0))

Operand(gpr, w, src) == Low(w, IF src.reg THEN gpr[src.n] ELSE src.n)

(* A write of 32 bits clears the upper half; 8 and 16 bits leave the rest.  *)
Write(gpr, w, dst, x) ==
    [gpr EXCEPT ![dst] = IF w \in {W32, W64} THEN Low(w, x)
                         ELSE @ - Low(w, @) + Low(w, x)]

(* Shift counts: an immediate or cl, modulo 32, or 64 for 64-bit operands.  *)
Count(gpr, w, src) ==
    Operand(gpr, W8, src) % (IF w = W64 THEN W64 ELSE W32)

Alu(op, w, x, y, n) ==
    CASE op = "mov"  -> y
      [] op = "add"  -> x + y
      [] op = "sub"  -> x - y
      [] op = "imul" -> x * y
      [] op = "and"  -> BitAnd(x, y)
      [] op = "or"   -> BitOr(x, y)
      [] op = "xor"  -> BitXor(x, y)
      [] op = "not"  -> 2 ^ w - 1 - x
      [] op = "neg"  -> 2 ^ w - x
      [] op = "dec"  -> x - 1
      [] op = "shl"  -> x * 2 ^ n
      [] op = "shr"  -> x \div 2 ^ n
      [] op = "sar"  -> ToSigned(w, x) \div 2 ^ n

Compare(w, x, y) == [eq |-> x = y,
                     below |-> x < y,
                     less |-> ToSigned(w, x) < ToSigned(w, y)]

Taken(cc, c) ==
    CASE cc = "je"  -> c.eq
      [] cc = "jne" -> ~c.eq
      [] cc = "jb"  -> c.below
      [] cc = "jae" -> ~c.below
      [] cc = "jbe" -> c.below \/ c.eq
      [] cc = "ja"  -> ~(c.below \/ c.eq)
      [] cc = "jl"  -> c.less
      [] cc = "jge" -> ~c.less
      [] cc = "jle" -> c.less \/ c.eq
      [] cc = "jg"  -> ~(c.less \/ c.eq)

Jumps == {"je", "jne", "jb", "jae", "jbe", "ja", "jl", "jge", "jle", "jg"}

ExecOne(cpu, i) ==
    LET x == Operand(cpu.gpr, i.w, Reg(i.dst))
        y == Operand(cpu.gpr, i.w, i.src)
    IN  CASE i.op = "bind" -> [cpu EXCEPT !.skip = FALSE]
          [] i.op # "bind" /\ cpu.skip -> cpu
          [] i.op \in Jumps /\ ~cpu.skip ->
                [cpu EXCEPT !.skip = Taken(i.op, cpu.cmp)]
          [] i.op = "cmp" /\ ~cpu.skip ->
                [cpu EXCEPT !.cmp = Compare(i.w, x, y)]
          [] OTHER ->
                [cpu EXCEPT !.gpr =
                    Write(@, i.w, i.dst,
                          Alu(i.op, i.w, x, y, Count(cpu.gpr, i.w, i.src)))]

(* The processor after a straight piece of code.                           *)
Exec(cpu, code) ==
    LET run[k \in 0 .. Len(code)] ==
            IF k = 0 THEN cpu ELSE ExecOne(run[k - 1], code[k])
    IN  run[Len(code)]
=============================================================================
