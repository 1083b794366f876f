-------------------------------- MODULE Jit ---------------------------------
(***************************************************************************)
(* A program run by emulate() of jitter_emu.cpp and, side by side, by the  *)
(* native code assemble() of jitter_x86.cpp makes of it, as jitter_test    *)
(* runs both and compares.  Positions in the program count from 0; the     *)
(* position past the last instruction means the run has returned.          *)
(***************************************************************************)
EXTENDS EmitX86, Emulator

CONSTANTS Regs,         \* the virtual registers of the program: reg_mask
          Programs,     \* the programs to run
          RegisterFiles,\* the register files they start on
          Junk          \* what a native register holds that was not loaded

(***************************************************************************)
(* A virtual register that assemble() also uses for itself - the stack     *)
(* pointer, the argument rdi, the temporaries of R_FREE_MASK - is lost:    *)
(* programs keep to the others.                                            *)
(***************************************************************************)
ASSUME RegsAssumption ==
    /\ Regs \subseteq Gpr \ ({rsp, rdi} \cup R_FREE)
    /\ RegisterFiles \subseteq [Regs -> Word]
    /\ Junk \in Word

(***************************************************************************)
(* A program is made of instructions on the registers of reg_mask, and     *)
(* jumps to one of its instructions.                                       *)
(***************************************************************************)
Operations == BinaryOps \cup UnaryOps \cup ImmOps \cup JumpOps \cup {"movi", "nop", "ret"}
Instructions == [op : Operations, type : IntTypes,
                 rd : Gpr, ri : Gpr, rj : Gpr, imm : Int]

ASSUME ProgramsAssumption ==
    \A s \in Programs :
        /\ s \in Seq(Instructions)
        /\ \A q \in 1 .. Len(s) :
              /\ Reads(s[q]) \cup Writes(s[q]) \subseteq Regs
              /\ s[q].op \in JumpOps => q + s[q].imm \in 0 .. Len(s) - 1

(* Programs that shift by no register into rcx, which emit_sll and its like *)
(* use for the count and put back afterwards.                               *)
CountKept ==
    \A s \in Programs : \A q \in 1 .. Len(s) : s[q].op \in ShiftOps => s[q].rd # rcx

(* Programs that return no register twice and do not jump from behind a     *)
(* return back to it or before it.                                          *)
ReturnsOnce ==
    \A s \in Programs : \A k, q \in 1 .. Len(s) :
        s[k].op = "ret" /\ k < q =>
            /\ s[q].op = "ret" => s[q].rd # s[k].rd
            /\ s[q].op \in JumpOps => k < q + s[q].imm + 1

VARIABLES code,         \* the program
          p, r, ret,    \* emulate: position, rfp->r, the register returned
          jp, gpr, rf,  \* native code: position, registers, register file
          agreed        \* register -> low bits both machines define

vars == <<code, p, r, ret, jp, gpr, rf, agreed>>

NoReg == -1
NotLoaded == -1
n == Len(code)
At(q) == code[q + 1]

(* Where a jump at q goes: the emulator adds imm12 and the loop one more;   *)
(* assemble() binds a label there.  (And the bug of binding it one early.)  *)
Target(q) == q + At(q).imm + 1
LabelEarly(q) == q + At(q).imm
Label(q) == q + At(q).imm + 1

Init == /\ code \in Programs
        /\ p = 0 /\ ret = NoReg
        /\ r \in RegisterFiles
        /\ jp = NotLoaded
        /\ gpr = [x \in Gpr |-> Junk]
        /\ rf = r
        /\ agreed = [x \in Regs |-> W64]

(* The code assemble() puts in front: load the registers of reg_mask.      *)
Prolog == /\ jp = NotLoaded
          /\ gpr' = [x \in Gpr |-> IF x \in Regs THEN rf[x] ELSE gpr[x]]
          /\ jp' = 0
          /\ UNCHANGED <<code, p, r, ret, rf, agreed>>

-----------------------------------------------------------------------------
(* A return stores the register it returns, if it is of reg_mask.  (And the *)
(* bugs of storing none and of storing all.)                                *)
ReturnNone(c) == rf
ReturnAll(c) == IF c.op = "ret" THEN [x \in Regs |-> gpr[x]] ELSE rf
Return(c) == IF c.op = "ret" /\ c.rd \in Regs
             THEN [rf EXCEPT ![c.rd] = gpr[c.rd]] ELSE rf

(* The emulator's test of a jump, at the width of its type.                 *)
IsZero(type, x) == Low(Width(type), x) = 0

(* One turn of emulate's loop.                                             *)
emulate ==
    LET c == At(p)
        taken == \/ c.op = "jmp"
                 \/ c.op = "jz" /\ IsZero(c.type, r[c.rd])
                 \/ c.op = "jnz" /\ ~IsZero(c.type, r[c.rd])
    IN  /\ p < n
        /\ r' = emulate_one(c, c.type, r)
        /\ ret' = IF c.op = "ret" THEN c.rd ELSE ret
        /\ p' = IF c.op = "ret" THEN n
                ELSE IF taken THEN Target(p) ELSE p + 1

(* The native code of one instruction.  A return stores its register and    *)
(* goes on with what follows; at the end comes the epilog.                  *)
native ==
    LET c == At(jp)
        cpu == Exec(Cpu(gpr),
                    IF c.op \in {"jz", "jnz"} THEN emit_cmpi(c.type, c.rd, 0)
                    ELSE IF c.op \in {"jmp", "ret"} THEN << >>
                    ELSE emit_instruction(c, c.type))
        taken == \/ c.op = "jmp"
                 \/ c.op = "jz" /\ Taken("je", cpu.cmp)
                 \/ c.op = "jnz" /\ Taken("jne", cpu.cmp)
    IN  /\ jp \in 0 .. n - 1
        /\ gpr' = cpu.gpr
        /\ rf' = Return(c)
        /\ jp' = IF taken THEN Label(jp) ELSE jp + 1

(* What C defines: a shift by less than the width of the promoted operand.  *)
ShiftDefined(c) ==
    LET count == IF c.op \in ShiftOps THEN Low(Width(c.type), r[c.rj])
                                      ELSE c.imm
    IN  c.op \in ShiftOps \cup ShiftImmOps =>
            count \in 0 .. (IF Width(c.type) = W64 THEN W64 ELSE W32) - 1

(* The emulator keeps the bits above a narrow result and the native code    *)
(* does not: an instruction reads no more of a register than was written.   *)
ReadsAgreed(c) == \A x \in Reads(c) : agreed[x] >= Width(c.type)

(* Both machines take their next step, as long as both have one.           *)
Step == /\ jp # NotLoaded /\ p < n
        /\ ShiftDefined(At(p))
        /\ ReadsAgreed(At(p))
        /\ emulate
        /\ native
        /\ agreed' = [x \in Regs |-> IF x \in Writes(At(p))
                                     THEN Width(At(p).type) ELSE agreed[x]]
        /\ UNCHANGED code

(* The emulator has returned before the end of the program; the native      *)
(* code, which only stores a result there, runs on to the end.              *)
RunOn == /\ p = n
         /\ native
         /\ UNCHANGED <<code, p, r, ret, agreed>>

Next == Prolog \/ Step \/ RunOn

Spec == Init /\ [][Next]_vars

(* Neither machine stops in the middle of a program.                        *)
FairSpec == Spec /\ WF_vars(Next)
-----------------------------------------------------------------------------
(* Types of the two machines.                                              *)
TypeOK == /\ p \in 0 .. n /\ jp \in -1 .. n
          /\ r \in [Regs -> Word] /\ rf \in [Regs -> Word]
          /\ gpr \in [Gpr -> Word]
          /\ ret \in Regs \cup {NoReg}
          /\ agreed \in [Regs -> {W8, W16, W32, W64}]

(* Until the emulator returns, the native code is where the emulator is     *)
(* and its registers hold the same in the bits that the types define: every *)
(* emitter computes, for every aliasing of destination and sources, what    *)
(* the emulator computes, leaves every other virtual register alone, and    *)
(* every label is bound where the emulator jumps.                           *)
LockStep ==
    jp # NotLoaded /\ p < n =>
        /\ jp = p
        /\ \A x \in Regs : Low(agreed[x], gpr[x]) = Low(agreed[x], r[x])

(* What the tests compare when both runs are over: the register that the    *)
(* emulator returns, in the register file the native code leaves behind.    *)
SameResult ==
    p = n /\ jp = n /\ ret # NoReg =>
        Low(agreed[ret], rf[ret]) = Low(agreed[ret], r[ret])

(* Native code leaves the register file alone until the emulator returns,   *)
(* and then stores the register returned; what it stores after that, where  *)
(* it runs on into another return, is not the result.                       *)
StoresOnlyResult ==
    [][\A x \in Regs : rf'[x] # rf[x] => p' = n /\ (x = ret' \/ p = n)]_vars

(* Programs that do not jump back behind a return: in such a loop the native*)
(* code, which runs on through what follows the return, may be caught.      *)
BackwardJumps == {q \in 0 .. n - 1 : At(q).op \in JumpOps /\ At(q).imm < 0}
NoLoopBehindReturn == \A q \in BackwardJumps : \A k \in 0 .. q : At(k).op # "ret"

(* Of these programs, native code that runs on after the emulator returned  *)
(* gets further with every instruction: though it reaches the instructions  *)
(* behind the return by labels that the emulator does not jump to any more, *)
(* it always has a return behind it.                                        *)
RunsForward == [][p = n /\ NoLoopBehindReturn => jp' > jp]_vars

(* And so it comes to its end, when the emulator has returned.              *)
NativeEnds == (p = n /\ NoLoopBehindReturn) ~> jp = n

(* "dst = src1 << src2", the comment on emit_sll, of a program that begins  *)
(* with sll (rf holds the sources until the program returns).              *)
SllAsCommented ==
    jp = 1 /\ code[1].op = "sll" =>
        LET w == Width(code[1].type)
        IN  Low(w, gpr[code[1].rd])
            = Low(w, Low(w, rf[code[1].ri]) * 2 ^ Low(w, rf[code[1].rj]))
=============================================================================
