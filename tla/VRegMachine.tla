---------------------------- MODULE VRegMachine ----------------------------
(***************************************************************************)
(* What the register allocator promises its client: a machine of virtual   *)
(* registers on which add and mov are atomic, whatever native registers    *)
(* hold the values at the moment, and temporaries that hold an arbitrary   *)
(* word until something is moved into them.  An instruction is issued,     *)
(* performed in one step, and retired.                                     *)
(***************************************************************************)
EXTENDS Integers, Sequences

CONSTANTS NumVirtual,   \* number of virtual registers
          WordSize,     \* registers hold the numbers 0 .. WordSize - 1
          MaxTmps       \* temporaries that may be live at once

VARIABLES vreg,         \* the value of every virtual register
          tmp,          \* the values of the live temporaries, oldest first
          phase,        \* "idle", "issued" or "performed"
          ins           \* the instruction issued last

vars == <<vreg, tmp, phase, ins>>

Virtual == 0 .. NumVirtual - 1
Word == 0 .. WordSize - 1
Plus(x, y) == (x + y) % WordSize

Ins == [op : {"add", "mov"}, d : Virtual, s1 : Virtual, s2 : Virtual]

Init == /\ vreg \in [Virtual -> Word]
        /\ tmp = << >>
        /\ phase = "idle"
        /\ ins \in Ins

Issue == /\ phase = "idle"
         /\ phase' = "issued"
         /\ ins' \in Ins
         /\ UNCHANGED <<vreg, tmp>>

Perform == /\ phase = "issued"
           /\ phase' = "performed"
           /\ vreg' = [vreg EXCEPT ![ins.d] =
                          IF ins.op = "add" THEN Plus(vreg[ins.s1], vreg[ins.s2])
                          ELSE vreg[ins.s1]]
           /\ UNCHANGED <<tmp, ins>>

Retire == /\ phase = "performed"
          /\ phase' = "idle"
          /\ UNCHANGED <<vreg, tmp, ins>>

NewTmp == /\ phase = "idle"
          /\ Len(tmp) < MaxTmps
          /\ \E w \in Word : tmp' = Append(tmp, w)
          /\ UNCHANGED <<vreg, phase, ins>>

DropTmp == /\ phase = "idle"
           /\ tmp # << >>
           /\ tmp' = SubSeq(tmp, 1, Len(tmp) - 1)
           /\ UNCHANGED <<vreg, phase, ins>>

MovToTmp(i, r) == /\ phase = "idle"
                  /\ tmp' = [tmp EXCEPT ![i] = vreg[r]]
                  /\ UNCHANGED <<vreg, phase, ins>>

AddToTmp(i, r) == /\ phase = "idle"
                  /\ tmp' = [tmp EXCEPT ![i] = Plus(@, vreg[r])]
                  /\ UNCHANGED <<vreg, phase, ins>>

MovFromTmp(r, i) == /\ phase = "idle"
                    /\ vreg' = [vreg EXCEPT ![r] = tmp[i]]
                    /\ UNCHANGED <<tmp, phase, ins>>

Next == \/ Issue \/ Perform \/ Retire
        \/ NewTmp \/ DropTmp
        \/ \E i \in DOMAIN tmp, r \in Virtual :
              MovToTmp(i, r) \/ AddToTmp(i, r) \/ MovFromTmp(r, i)

Spec == Init /\ [][Next]_vars
=============================================================================
