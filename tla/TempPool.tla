------------------------------ MODULE TempPool ------------------------------
(***************************************************************************)
(* The temporary registers of a ZAssembler (jitter_asm.h).  A mask of free *)
(* registers is the set of their numbers; at the start of every            *)
(* instruction (reg_alloc_reset) both pools are full.                      *)
(***************************************************************************)
EXTENDS Integers

(* (And the bug of a mask with one xmm register fewer.)                     *)
X_FREE_TWO == {13, 12}

R_FREE == {14, 13, 11, 10}
X_FREE == {13, 12, 11}

(* The highest register that is free; with none left there is no register,  *)
(* and alloc_gp and alloc_xmm crash.                                        *)
NoRegister == 16
alloc_(mask) == IF mask = {} THEN NoRegister
                ELSE CHOOSE r \in mask : \A s \in mask : s <= r
=============================================================================
