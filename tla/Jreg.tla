-------------------------------- MODULE Jreg --------------------------------
(***************************************************************************)
(* The allocator's client, jreg.cpp: add and mov on virtual registers, and *)
(* moves to and from temporaries.  An instruction asks for its operands    *)
(* one by one and then emits its code for the native registers r_map names *)
(* at that moment; ins is the instruction in progress and pc what it does  *)
(* next.  The whole implements VRegMachine.                                *)
(***************************************************************************)
EXTENDS RegAlloc

VARIABLES pc, ins

vars == <<r_map, gp_map, gp_use, tick_, tmps, gpr, mem, pc, ins>>

Plus(x, y) == (x + y) % WordSize

Ins == [op : {"add", "mov"}, d : Virtual, s1 : Virtual, s2 : Virtual]

JInit == /\ Init
         /\ pc = "idle"
         /\ ins = [op |-> "mov", d |-> 0, s1 |-> 0, s2 |-> 0]

(* The client starts on add(d, s1, s2).  mov d,s1 comes before add d,s2, so *)
(* the client keeps d and s2 apart, as every call in jreg.cpp does.         *)
StartAdd(d, s1, s2) ==
    /\ pc = "idle"
    /\ d = s2 => d = s1
    /\ pc' = "s1"
    /\ ins' = [op |-> "add", d |-> d, s1 |-> s1, s2 |-> s2]
    /\ UNCHANGED allocVars

StartMov(d, s) ==
    /\ pc = "idle"
    /\ pc' = "s1"
    /\ ins' = [op |-> "mov", d |-> d, s1 |-> s, s2 |-> s]
    /\ UNCHANGED allocVars

LoadS1 == /\ pc = "s1"
          /\ ensure_loaded(ins.s1)
          /\ pc' = IF ins.op = "add" THEN "s2" ELSE "d"
          /\ UNCHANGED ins

LoadS2 == /\ pc = "s2"
          /\ ensure_loaded(ins.s2)
          /\ pc' = "d"
          /\ UNCHANGED ins

MapD == /\ pc = "d"
        /\ ensure_mapped(ins.d)
        /\ pc' = "exec"
        /\ UNCHANGED ins

(* mov_ emits nothing when source and destination are the same register.   *)
mov_(regs, dst, src) == [regs EXCEPT ![dst] = regs[src]]

(* Faulty variants: a sum that does not wrap, add before mov.               *)
add_unbounded(regs, dst, src) == [regs EXCEPT ![dst] = @ + regs[src]]
add_(regs, dst, src) == [regs EXCEPT ![dst] = Plus(regs[dst], regs[src])]

add_before_mov ==
    LET d == r_map[ins.d]
    IN  mov_(add_(gpr, d, r_map[ins.s2]), d, r_map[ins.s1])

add == LET d == r_map[ins.d]
       IN  add_(mov_(gpr, d, r_map[ins.s1]), d, r_map[ins.s2])

mov == mov_(gpr, r_map[ins.d], r_map[ins.s1])

Exec == /\ pc = "exec"
        /\ gpr' = IF ins.op = "add" THEN add ELSE mov
        /\ pc' = "idle"
        /\ UNCHANGED <<tables, tmps, mem, ins>>

NewTmp == /\ pc = "idle"
          /\ alloc_native_register
          /\ UNCHANGED <<pc, ins>>

DropTmp == /\ pc = "idle"
           /\ release_native_register
           /\ UNCHANGED <<pc, ins>>

(* Code on temporaries reads r_map as it stands, without ensure_loaded: it  *)
(* makes sense for a register that is mapped at that moment.                *)
TmpCode(i, r, regs) ==
    /\ pc = "idle"
    /\ i \in DOMAIN tmps
    /\ r_map[r] # None
    /\ gpr' = regs
    /\ UNCHANGED <<tables, tmps, mem, pc, ins>>

MovToTmp(i, r) == TmpCode(i, r, mov_(gpr, tmps[i], r_map[r]))
AddToTmp(i, r) == TmpCode(i, r, add_(gpr, tmps[i], r_map[r]))
MovFromTmp(r, i) == TmpCode(i, r, mov_(gpr, r_map[r], tmps[i]))

JNext == \/ \E d, s1, s2 \in Virtual : StartAdd(d, s1, s2)
         \/ \E d, s \in Virtual : StartMov(d, s)
         \/ LoadS1 \/ LoadS2 \/ MapD \/ Exec
         \/ NewTmp \/ DropTmp
         \/ \E i \in DOMAIN tmps, r \in Virtual :
               MovToTmp(i, r) \/ AddToTmp(i, r) \/ MovFromTmp(r, i)

JSpec == JInit /\ [][JNext]_vars
-----------------------------------------------------------------------------
(* The client's part of the type: the allocator's is RegAlloc's.           *)
JTypeOK == /\ TypeOK
           /\ pc \in {"idle", "s1", "s2", "d", "exec"}
           /\ ins \in Ins

(* Mapping a later operand never evicts an earlier one: when the code of an *)
(* instruction is emitted all its operands are in native registers, and so  *)
(* they are from the moment each was asked for.  (Least recently used       *)
(* eviction and three registers that are not fixed are what it takes.)      *)
OperandsResident ==
    /\ pc \in {"s2", "d", "exec"} => r_map[ins.s1] # None
    /\ pc \in {"d", "exec"} => r_map[ins.s2] # None \/ ins.op = "mov"
    /\ pc = "exec" => r_map[ins.d] # None

(* The result of the instruction about to be executed counts as written     *)
(* once its destination has a register: until then the register file has    *)
(* the old value, from then on the old value is gone.                       *)
result == IF ins.op = "add"
          THEN Plus(gpr[r_map[ins.s1]], gpr[r_map[ins.s2]])
          ELSE gpr[r_map[ins.s1]]

phase == CASE pc = "idle" -> "idle"
           [] pc = "exec" -> "performed"
           [] OTHER -> "issued"

Machine == INSTANCE VRegMachine
           WITH vreg <- [r \in Virtual |->
                           IF pc = "exec" /\ r = ins.d THEN result
                           ELSE value(r)],
                tmp <- [i \in DOMAIN tmps |-> gpr[tmps[i]]]

(* Allocation is invisible: whatever is evicted, reloaded or held in a      *)
(* temporary, every virtual register always has the value the instructions  *)
(* gave it; an instruction takes effect once, and on its destination only.  *)
ImplementsVRegMachine == Machine!Spec
=============================================================================
