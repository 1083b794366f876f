------------------------------ MODULE JitFrame ------------------------------
(***************************************************************************)
(* The frame assemble() of jitter_x86.cpp puts around a program, and what  *)
(* its native code does to the registers of the processor: it saves the    *)
(* registers that are to be used ("dirty"), loads the virtual registers of *)
(* reg_mask through the pointer it is given, runs the program, stores what *)
(* is returned through the pointer, and restores what it saved.            *)
(*                                                                         *)
(* Registers have the numbers of their bits in reg_mask: xmm0 .. xmm15 are *)
(* 0 .. 15, the general purpose registers 16 .. 31.  What a register holds *)
(* is abstracted to what it is: the caller's value of some register, the   *)
(* value the program gives a virtual register, the pointer, the stack.     *)
(***************************************************************************)
EXTENDS TempPool, Sequences

CONSTANTS Calls   \* [code |-> a program, mask |-> reg_mask]

Xmm(i) == i
Gp(i) == 16 + i
Xmms == 0 .. 15
Gps == 16 .. 31
Registers == 0 .. 31

rsp == Gp(4)
rdi == Gp(7)
rax == Gp(0)

(* What a function keeps for its caller (System V), rsp apart: rbx, rbp and *)
(* r12 .. r15.                                                              *)
CalleeSaved == {Gp(3), Gp(5), Gp(12), Gp(13), Gp(14), Gp(15)}

(* The pools hand out their registers from the highest downwards: the       *)
(* temporaries in use once g and x are the lowest numbers handed out.  (And *)
(* the bug of a pool that has the argument in it.)                          *)
PoolAndArgument(g, x) ==
    {Gp(k) : k \in {k \in R_FREE \cup {7} : k >= g \/ k = 7}}
    \cup {Xmm(k) : k \in {k \in X_FREE : k >= x}}
Temporaries(g, x) == {Gp(k) : k \in {k \in R_FREE : k >= g}}
                     \cup {Xmm(k) : k \in {k \in X_FREE : k >= x}}

(* An instruction has a destination d and sources s; to is where a jump or  *)
(* a branch (jz, jnz) goes.                                                 *)
Ops == {"compute", "ret", "jump", "branch"}
Instr == [op : Ops, d : Registers, s : SUBSET Registers, to : Nat]

ASSUME CallsAssumption ==
    \A c \in Calls :
        /\ c.mask \subseteq Registers
        /\ c.code \in Seq(Instr)
        /\ \A q \in 1 .. Len(c.code) : c.code[q].to < Len(c.code)

VARIABLES call,    \* the program and its reg_mask
          pc,      \* what the native code does next
          i,       \* the register it loads or the position in the program
          reg,     \* what the registers hold
          saved,   \* what was pushed, by register
          file     \* the register file: what each virtual register has there

vars == <<call, pc, i, reg, saved, file>>

n == Len(call.code)
At(q) == call.code[q + 1]

Caller(x) == <<"caller", x>>
Virtual(x) == <<"virtual", x>>
Pointer == <<"pointer", 0>>
Stack == <<"stack", 0>>
Scratch == <<"scratch", 0>>
Contents == ({"caller", "virtual"} \X Registers) \cup {Pointer, Stack, Scratch}

(* The registers assemble() tells the frame of before the prolog is there:  *)
(* the argument, the temporaries it may want and every destination.  (And   *)
(* the bug of leaving the temporaries to alloc_gp, which comes too late.)   *)
DirtyDestinations ==
    {rdi} \cup {call.code[q].d : q \in 1 .. n}
Dirty == {rdi} \cup {Gp(k) : k \in R_FREE} \cup {call.code[q].d : q \in 1 .. n}

Init == /\ call \in Calls
        /\ pc = "entry" /\ i = 0
        /\ reg = [x \in Registers |-> IF x = rdi THEN Pointer ELSE Caller(x)]
        /\ saved = << >>
        /\ file = [x \in Registers |-> Virtual(x)]

-----------------------------------------------------------------------------
(* A load finds the register file if rdi still holds the pointer.           *)
FromFile(x) == IF reg[rdi] = Pointer THEN file[x] ELSE Scratch

(* Whether the bit of a general purpose register is set (and the bug of     *)
(* testing the bit of the vector register of that number).                  *)
VectorMasked(x) == x - 16 \in call.mask
Masked(x) == x \in call.mask

emitProlog == /\ pc = "entry"
              /\ saved' = [x \in Dirty \cap CalleeSaved |-> reg[x]]
              /\ reg' = [reg EXCEPT ![rsp] = Stack]
              /\ pc' = "vectors"
              /\ UNCHANGED <<call, i, file>>

LoadVectors == /\ pc = "vectors"
               /\ reg' = [x \in Registers |-> IF x \in call.mask \cap Xmms
                                              THEN FromFile(x) ELSE reg[x]]
               /\ pc' = "scalars" /\ i' = 15
               /\ UNCHANGED <<call, saved, file>>

(* General purpose registers are loaded from the last to the first.         *)
LoadScalar == /\ pc = "scalars" /\ i >= 0
              /\ reg' = IF Masked(Gp(i)) THEN [reg EXCEPT ![Gp(i)] = FromFile(Gp(i))]
                                         ELSE reg
              /\ i' = i - 1
              /\ UNCHANGED <<call, pc, saved, file>>

(* (And the bug of going on with the index as the loop leaves it.)          *)
LoadedIndex == /\ pc = "scalars" /\ i < 0
               /\ pc' = "body"
               /\ UNCHANGED <<call, i, reg, saved, file>>
Loaded == /\ pc = "scalars" /\ i < 0
          /\ pc' = "body" /\ i' = 0
          /\ UNCHANGED <<call, reg, saved, file>>

-----------------------------------------------------------------------------
(* An instruction computes its destination if its sources are what they are *)
(* meant to be; on the way its emitter uses temporaries as it likes.        *)
Compute ==
    /\ pc = "body" /\ i < n /\ At(i).op = "compute"
    /\ \E g, x0 \in R_FREE \cup X_FREE \cup {NoRegister} :
          reg' = [x \in Registers |->
                    IF x = At(i).d
                    THEN IF \A s \in At(i).s : reg[s] = Virtual(s)
                         THEN Virtual(x) ELSE Scratch
                    ELSE IF x \in Temporaries(g, x0) THEN Scratch ELSE reg[x]]
    /\ i' = i + 1
    /\ UNCHANGED <<call, pc, saved, file>>

(* A return stores a register of reg_mask and goes on.                      *)
Ret == /\ pc = "body" /\ i < n /\ At(i).op = "ret"
       /\ file' = IF At(i).d \in call.mask /\ reg[rdi] = Pointer
                  THEN [file EXCEPT ![At(i).d] = reg[At(i).d]] ELSE file
       /\ i' = i + 1
       /\ UNCHANGED <<call, pc, reg, saved>>

Jump == /\ pc = "body" /\ i < n /\ At(i).op \in {"jump", "branch"}
        /\ i' \in {At(i).to} \cup (IF At(i).op = "branch" THEN {i + 1} ELSE {})
        /\ UNCHANGED <<call, pc, reg, saved, file>>

(* The end: rax points to the dump of the registers, and the epilog pops    *)
(* what the prolog pushed, if rsp still is where it was.                    *)
emitEpilog ==
    /\ pc = "body" /\ i = n
    /\ reg' = [x \in Registers |->
                 CASE x \in DOMAIN saved -> IF reg[rsp] = Stack THEN saved[x] ELSE Scratch
                   [] x = rsp -> IF reg[rsp] = Stack THEN Caller(rsp) ELSE Scratch
                   [] x = rax -> Scratch
                   [] OTHER -> reg[x]]
    /\ pc' = "returned"
    /\ UNCHANGED <<call, i, saved, file>>

Next == emitProlog \/ LoadVectors \/ LoadScalar \/ Loaded
        \/ Compute \/ Ret \/ Jump \/ emitEpilog

Spec == Init /\ [][Next]_vars
-----------------------------------------------------------------------------
(* Programs that leave assemble() the registers it needs: rsp, the pointer  *)
(* and the temporaries are no virtual registers, what is read is loaded,    *)
(* and a register the caller wants back is loaded only if the program       *)
(* writes it, which alone makes it dirty.                                   *)
Reserved == {rsp, rdi} \cup {Gp(k) : k \in R_FREE} \cup {Xmm(k) : k \in X_FREE}
Allowed ==
    /\ call.mask \cap Reserved = {}
    /\ \A q \in 1 .. n : /\ call.code[q].d \notin Reserved
                         /\ call.code[q].s \subseteq call.mask
    /\ call.mask \cap CalleeSaved \subseteq {call.code[q].d : q \in 1 .. n}

TypeOK == /\ call \in Calls
          /\ pc \in {"entry", "vectors", "scalars", "body", "returned"}
          /\ i \in Int
          /\ pc = "scalars" => i \in -1 .. 15
          /\ pc = "body" => i \in 0 .. n
          /\ reg \in [Registers -> Contents]
          /\ \A x \in DOMAIN saved : saved[x] \in Contents
          /\ file \in [Registers -> Contents]

(* The caller finds its registers as it left them, although loads, results  *)
(* and temporaries have been in them: every one that was overwritten was    *)
(* pushed first, the temporaries that an emitter asks for only later too.   *)
CallerKept ==
    pc = "returned" /\ Allowed =>
        \A x \in CalleeSaved \cup {rsp} : reg[x] = Caller(x)

(* The pointer to the register file outlives the loads that go through it   *)
(* and every instruction: results are stored where they belong.             *)
PointerKept == Allowed => reg[rdi] = Pointer

(* While the program runs every virtual register of reg_mask has its value: *)
(* none is lost to a later load, to a temporary or to the saved registers.  *)
(* What is stored is such a value.                                          *)
VirtualsKept ==
    Allowed => /\ pc = "body" => \A x \in call.mask : reg[x] = Virtual(x)
               /\ \A x \in Registers : file[x] = Virtual(x)
=============================================================================
