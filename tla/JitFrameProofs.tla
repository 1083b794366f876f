--------------------------- MODULE JitFrameProofs ---------------------------
(***************************************************************************)
(* Theorems about JitFrame, for all programs and masks: what the frame and *)
(* the loads of assemble() leave of the registers of its caller, of the    *)
(* pointer, and of the virtual registers.                                  *)
(***************************************************************************)
EXTENDS JitFrame, TLAPS

(* The registers the caller wants back: those that are not saved have not   *)
(* been touched, and those that are saved are saved as the caller left them.*)
SavedAsFound ==
    /\ pc # "entry" => /\ DOMAIN saved = Dirty \cap CalleeSaved
                       /\ \A x \in DOMAIN saved : saved[x] = Caller(x)
    /\ \A x \in CalleeSaved \ Dirty : reg[x] = Caller(x)
    /\ pc \in {"entry", "returned"} => \A x \in CalleeSaved : reg[x] = Caller(x)

(* The stack pointer is the program's between prolog and epilog only.       *)
StackKept == reg[rsp] = IF pc \in {"entry", "returned"} THEN Caller(rsp) ELSE Stack

FileKept == file = [x \in Registers |-> Virtual(x)]

(* What has been loaded: the vectors first, then the others downwards.      *)
LoadedSoFar ==
    /\ pc \in {"scalars", "body"} => \A x \in call.mask \cap Xmms : reg[x] = Virtual(x)
    /\ pc = "scalars" => \A x \in call.mask \cap Gps : x > Gp(i) => reg[x] = Virtual(x)
    /\ pc = "body" => \A x \in call.mask : reg[x] = Virtual(x)

IInv == /\ TypeOK
        /\ Allowed => /\ SavedAsFound
                      /\ StackKept
                      /\ PointerKept
                      /\ FileKept
                      /\ LoadedSoFar

-----------------------------------------------------------------------------
(* Numbers of registers: xmm and general purpose registers are apart, and   *)
(* what assemble() reserves is not what the caller saves, the temporaries   *)
(* excepted.                                                                *)
LEMMA Numbers ==
    /\ Registers = Xmms \cup Gps /\ Xmms \cap Gps = {}
    /\ rsp \in Gps /\ rdi \in Gps /\ rax \in Gps
    /\ rsp # rdi /\ rsp # rax /\ rdi # rax
    /\ CalleeSaved \subseteq Gps /\ {rsp, rdi, rax} \cap CalleeSaved = {}
    /\ \A k \in 0 .. 15 : Gp(k) \in Gps /\ Gp(k) \in Registers /\ Gp(k) \in Int
BY DEF Registers, Xmms, Gps, rsp, rdi, rax, CalleeSaved, Gp

(* A temporary is reserved and is not the stack pointer or the pointer; one *)
(* the caller wants back is dirty.                                          *)
LEMMA Temps ==
    ASSUME NEW g \in Int, NEW x0 \in Int, NEW x \in Temporaries(g, x0)
    PROVE  /\ x \in Reserved /\ x # rsp /\ x # rdi
           /\ x \in CalleeSaved => x \in Dirty
BY DEF Temporaries, Reserved, Dirty, R_FREE, X_FREE, rsp, rdi, Gp, Xmm, CalleeSaved

(* The things a register can hold are different ones.                       *)
LEMMA Distinct ==
    /\ \A x, y : Caller(x) # Virtual(y)
    /\ \A x : Pointer # Virtual(x) /\ Pointer # Caller(x)
    /\ Pointer # Stack /\ Pointer # Scratch
    /\ \A x \in Registers : Caller(x) \in Contents /\ Virtual(x) \in Contents
    /\ {Pointer, Stack, Scratch} \subseteq Contents
BY DEF Caller, Virtual, Pointer, Stack, Scratch, Contents

(* The program of a call and its length.                                   *)
LEMMA Programs_ ==
    ASSUME call \in Calls
    PROVE  /\ n \in Nat /\ call.mask \subseteq Registers
           /\ \A q \in 0 .. n - 1 : /\ At(q) = call.code[q + 1]
                                    /\ q + 1 \in 1 .. n
                                    /\ At(q).d \in Registers
                                    /\ At(q).to \in 0 .. n - 1
<1>1. /\ call.mask \subseteq Registers /\ call.code \in Seq(Instr)
      /\ \A q \in 1 .. Len(call.code) : call.code[q].to < Len(call.code)
    BY CallsAssumption
<1>2. n \in Nat
    BY <1>1 DEF n
<1>3. ASSUME NEW q \in 0 .. n - 1
      PROVE  /\ q + 1 \in 1 .. n /\ At(q) \in Instr /\ At(q).to < n
    BY <1>1, <1>2 DEF n, At
<1> QED
    BY <1>1, <1>2, <1>3 DEF Instr, At

-----------------------------------------------------------------------------
(* The invariant holds when assemble() begins.                              *)
LEMMA InitIInv == Init => IInv
<1> SUFFICES ASSUME Init PROVE IInv
    OBVIOUS
<1>1. TypeOK
  <2>1. reg \in [Registers -> Contents] /\ file \in [Registers -> Contents]
      BY Distinct DEF Init
  <2>2. \A x \in DOMAIN saved : saved[x] \in Contents
      BY DEF Init
  <2> QED
      BY <2>1, <2>2 DEF Init, TypeOK
<1>2. SavedAsFound
    BY Numbers DEF Init, SavedAsFound, Registers, Gps, CalleeSaved, Gp
<1>3. StackKept /\ PointerKept /\ FileKept /\ LoadedSoFar
    BY Numbers DEF Init, StackKept, PointerKept, FileKept, LoadedSoFar, Registers, Gps
<1> QED
    BY <1>1, <1>2, <1>3 DEF IInv

(* The prolog pushes what is dirty and is the caller's.                     *)
LEMMA StepProlog == IInv /\ emitProlog => IInv'
<1> SUFFICES ASSUME IInv, emitProlog PROVE IInv'
    OBVIOUS
<1>1. TypeOK'
  <2>1. Dirty \cap CalleeSaved \subseteq Registers
      BY Numbers
  <2>2. \A x \in DOMAIN saved' : saved'[x] \in Contents
      BY <2>1 DEF IInv, TypeOK, emitProlog
  <2>3. reg' \in [Registers -> Contents]
      BY Distinct DEF IInv, TypeOK, emitProlog
  <2> QED
      BY <2>2, <2>3 DEF IInv, TypeOK, emitProlog, n
<1>2. ASSUME Allowed PROVE SavedAsFound'
  <2>1. Dirty' = Dirty
      BY DEF emitProlog, Dirty, n
  <2>2. \A x \in CalleeSaved : reg[x] = Caller(x) /\ reg'[x] = reg[x]
      BY <1>2, Numbers DEF IInv, SavedAsFound, emitProlog, TypeOK
  <2> QED
      BY <2>1, <2>2 DEF SavedAsFound, emitProlog
<1>3. ASSUME Allowed PROVE StackKept' /\ PointerKept' /\ FileKept' /\ LoadedSoFar'
    BY <1>3, Numbers DEF IInv, TypeOK, StackKept, PointerKept, FileKept, LoadedSoFar,
                         emitProlog, Allowed, n
<1>4. Allowed' = Allowed
    BY DEF Allowed, emitProlog, n
<1> QED
    BY <1>1, <1>2, <1>3, <1>4 DEF IInv

-----------------------------------------------------------------------------
(* A load through the pointer brings what the register file has.            *)
LEMMA LoadIsVirtual ==
    ASSUME IInv, Allowed, NEW x \in Registers
    PROVE  FromFile(x) = Virtual(x)
BY DEF IInv, PointerKept, FileKept, FromFile

(* What the register file has is something a register can hold.             *)
LEMMA LoadInContents ==
    ASSUME TypeOK, NEW x \in Registers
    PROVE  FromFile(x) \in Contents
BY Distinct DEF TypeOK, FromFile

(* Loading the vectors keeps the invariant.                                 *)
LEMMA StepLoadVectors == IInv /\ LoadVectors => IInv'
<1> SUFFICES ASSUME IInv, LoadVectors PROVE IInv'
    OBVIOUS
<1>1. TypeOK'
  <2>1. reg' \in [Registers -> Contents]
      BY LoadInContents, Numbers DEF IInv, TypeOK, LoadVectors
  <2> QED
      BY <2>1 DEF IInv, TypeOK, LoadVectors, n
<1>2. Allowed' = Allowed /\ Dirty' = Dirty
    BY DEF Allowed, Dirty, LoadVectors, n
<1>3. \A x \in Gps : reg'[x] = reg[x]
    BY Numbers DEF LoadVectors
<1>4. ASSUME Allowed PROVE SavedAsFound' /\ StackKept' /\ PointerKept' /\ FileKept'
    BY <1>2, <1>3, <1>4, Numbers
       DEF IInv, SavedAsFound, StackKept, PointerKept, FileKept, LoadVectors
<1>5. ASSUME Allowed PROVE LoadedSoFar'
  <2>1. \A x \in call.mask \cap Xmms : reg'[x] = Virtual(x)
      BY <1>5, LoadIsVirtual, Numbers DEF LoadVectors
  <2>2. \A x \in Gps : ~(x > Gp(15))
      BY DEF Gps, Gp
  <2> QED
      BY <2>1, <2>2 DEF LoadedSoFar, LoadVectors
<1> QED
    BY <1>1, <1>2, <1>4, <1>5 DEF IInv

(* A load overwrites no register the caller wants back that is not dirty,   *)
(* nor the pointer, nor the stack pointer: Allowed masks have none of them. *)
LEMMA StepLoadScalar == IInv /\ LoadScalar => IInv'
<1> SUFFICES ASSUME IInv, LoadScalar PROVE IInv'
    OBVIOUS
<1>1. i \in 0 .. 15 /\ pc = "scalars" /\ Gp(i) \in Gps /\ Gp(i) \in Registers
    BY Numbers DEF IInv, TypeOK, LoadScalar
<1>2. TypeOK'
  <2>1. reg' \in [Registers -> Contents]
      BY <1>1, LoadInContents DEF IInv, TypeOK, LoadScalar
  <2> QED
      BY <1>1, <2>1 DEF IInv, TypeOK, LoadScalar, n
<1>3. Allowed' = Allowed /\ Dirty' = Dirty
    BY DEF Allowed, Dirty, LoadScalar, n
<1>4. \A x \in Registers :
         reg'[x] = IF x = Gp(i) /\ x \in call.mask THEN FromFile(x) ELSE reg[x]
    BY DEF IInv, TypeOK, LoadScalar, Masked
<1>5. ASSUME Allowed PROVE SavedAsFound'
  <2>1. \A x \in CalleeSaved \ Dirty : x \notin call.mask
      BY <1>5 DEF Allowed, Dirty
  <2> QED
      BY <1>1, <1>3, <1>4, <1>5, <2>1, Numbers DEF IInv, SavedAsFound, LoadScalar
<1>6. ASSUME Allowed PROVE StackKept' /\ PointerKept' /\ FileKept'
  <2>1. rsp \notin call.mask /\ rdi \notin call.mask
      BY <1>6 DEF Allowed, Reserved
  <2> QED
      BY <1>1, <1>4, <1>6, <2>1, Numbers
         DEF IInv, StackKept, PointerKept, FileKept, LoadScalar
<1>7. ASSUME Allowed PROVE LoadedSoFar'
  <2>1. \A x \in call.mask \cap Xmms : reg'[x] = Virtual(x)
      BY <1>1, <1>4, <1>7, Numbers DEF IInv, LoadedSoFar
  <2>2. ASSUME NEW x \in call.mask \cap Gps, x > Gp(i - 1) PROVE reg'[x] = Virtual(x)
    <3>1. x = Gp(i) \/ x > Gp(i)
        BY <1>1, <2>2 DEF Gps, Gp
    <3> QED
        BY <1>1, <1>4, <1>7, <2>2, <3>1, LoadIsVirtual, Numbers DEF IInv, LoadedSoFar
  <2> QED
      BY <1>1, <2>1, <2>2 DEF LoadedSoFar, LoadScalar
<1> QED
    BY <1>2, <1>3, <1>5, <1>6, <1>7 DEF IInv

(* So does the end of the loads.                                            *)
LEMMA StepLoaded == IInv /\ Loaded => IInv'
<1> SUFFICES ASSUME IInv, Loaded PROVE IInv'
    OBVIOUS
<1>1. TypeOK'
    BY Programs_ DEF IInv, TypeOK, Loaded, n
<1>2. Allowed' = Allowed /\ Dirty' = Dirty
    BY DEF Allowed, Dirty, Loaded, n
<1>3. ASSUME Allowed PROVE SavedAsFound' /\ StackKept' /\ PointerKept' /\ FileKept'
    BY <1>2, <1>3 DEF IInv, SavedAsFound, StackKept, PointerKept, FileKept, Loaded
<1>4. ASSUME Allowed PROVE LoadedSoFar'
  <2>1. i = -1
      BY DEF IInv, TypeOK, Loaded
  <2>2. \A x \in Gps : x > Gp(i)
      BY <2>1 DEF Gps, Gp
  <2>3. call.mask \subseteq Xmms \cup Gps
      BY Programs_, Numbers DEF IInv, TypeOK
  <2> QED
      BY <1>4, <2>2, <2>3 DEF IInv, LoadedSoFar, Loaded
<1> QED
    BY <1>1, <1>2, <1>3, <1>4 DEF IInv

-----------------------------------------------------------------------------
(* An instruction writes its destination and temporaries.  In a program     *)
(* that is allowed the destination is dirty and not reserved, so neither    *)
(* the pointers nor a register that was not saved is touched, and what it   *)
(* computes is what it means to, since its sources have been loaded.        *)
LEMMA StepCompute == IInv /\ Compute => IInv'
<1> SUFFICES ASSUME IInv, Compute PROVE IInv'
    OBVIOUS
<1>1. PICK g \in R_FREE \cup X_FREE \cup {NoRegister},
           x0 \in R_FREE \cup X_FREE \cup {NoRegister} :
         reg' = [x \in Registers |->
                   IF x = At(i).d
                   THEN IF \A s \in At(i).s : reg[s] = Virtual(s)
                        THEN Virtual(x) ELSE Scratch
                   ELSE IF x \in Temporaries(g, x0) THEN Scratch ELSE reg[x]]
    BY DEF Compute
<1>2. g \in Int /\ x0 \in Int
    BY DEF R_FREE, X_FREE, NoRegister
<1>3. /\ n \in Nat /\ i \in 0 .. n - 1 /\ i + 1 \in 1 .. n /\ At(i) = call.code[i + 1]
      /\ call.mask \subseteq Registers
    BY Programs_ DEF IInv, TypeOK, Compute
<1>4. TypeOK'
  <2>1. reg' \in [Registers -> Contents]
      BY <1>1, Distinct DEF IInv, TypeOK
  <2> QED
      BY <1>3, <2>1 DEF IInv, TypeOK, Compute, n
<1>5. Allowed' = Allowed /\ Dirty' = Dirty
    BY DEF Allowed, Dirty, Compute, n
<1>6. ASSUME Allowed
      PROVE  /\ At(i).d \notin Reserved /\ At(i).d \in Dirty
             /\ At(i).s \subseteq call.mask
    BY <1>3, <1>6 DEF Allowed, Dirty
<1>7. ASSUME Allowed PROVE SavedAsFound'
  <2>1. \A x \in CalleeSaved \ Dirty : x \notin Temporaries(g, x0) /\ x \in Registers
      BY <1>2, Temps, Numbers
  <2>2. \A x \in CalleeSaved \ Dirty : reg'[x] = reg[x]
      BY <1>1, <1>6, <1>7, <2>1
  <2> QED
      BY <1>5, <1>7, <2>2 DEF IInv, SavedAsFound, Compute
<1>8. ASSUME Allowed PROVE StackKept' /\ PointerKept' /\ FileKept'
  <2>1. rsp \notin Temporaries(g, x0) /\ rdi \notin Temporaries(g, x0)
      BY <1>2, Temps
  <2>2. At(i).d # rsp /\ At(i).d # rdi
      BY <1>6, <1>8 DEF Reserved
  <2> QED
      BY <1>1, <1>8, <2>1, <2>2, Numbers
         DEF IInv, StackKept, PointerKept, FileKept, Compute
<1>9. ASSUME Allowed PROVE LoadedSoFar'
  <2>1. \A x \in call.mask : reg[x] = Virtual(x)
      BY <1>9 DEF IInv, LoadedSoFar, Compute
  <2>2. \A x \in call.mask : x \notin Temporaries(g, x0) /\ x \in Registers
      BY <1>2, <1>3, <1>9, Temps DEF Allowed
  <2>3. \A x \in call.mask : reg'[x] = Virtual(x)
      BY <1>1, <1>6, <1>9, <2>1, <2>2
  <2> QED
      BY <2>3 DEF LoadedSoFar, Compute
<1> QED
    BY <1>4, <1>5, <1>7, <1>8, <1>9 DEF IInv

(* What is stored is the value of the virtual register that is returned.    *)
LEMMA StepRet == IInv /\ Ret => IInv'
<1> SUFFICES ASSUME IInv, Ret PROVE IInv'
    OBVIOUS
<1>1. /\ n \in Nat /\ i \in 0 .. n - 1 /\ At(i).d \in Registers
    BY Programs_ DEF IInv, TypeOK, Ret
<1>2. TypeOK'
    BY <1>1 DEF IInv, TypeOK, Ret, n
<1>3. Allowed' = Allowed /\ Dirty' = Dirty
    BY DEF Allowed, Dirty, Ret, n
<1>4. ASSUME Allowed PROVE SavedAsFound' /\ StackKept' /\ PointerKept' /\ LoadedSoFar'
    BY <1>3, <1>4 DEF IInv, SavedAsFound, StackKept, PointerKept, LoadedSoFar, Ret
<1>5. ASSUME Allowed PROVE FileKept'
  <2>1. \A x \in call.mask : reg[x] = Virtual(x)
      BY <1>5 DEF IInv, LoadedSoFar, Ret
  <2> QED
      BY <1>1, <1>5, <2>1 DEF IInv, FileKept, Ret
<1> QED
    BY <1>2, <1>3, <1>4, <1>5 DEF IInv

(* A jump does.                                                             *)
LEMMA StepJump == IInv /\ Jump => IInv'
<1> SUFFICES ASSUME IInv, Jump PROVE IInv'
    OBVIOUS
<1>1. i' \in 0 .. n /\ n \in Nat
    BY Programs_ DEF IInv, TypeOK, Jump
<1>2. TypeOK'
    BY <1>1 DEF IInv, TypeOK, Jump, n
<1>3. Allowed' = Allowed /\ Dirty' = Dirty
    BY DEF Allowed, Dirty, Jump, n
<1>4. Allowed => SavedAsFound' /\ StackKept' /\ PointerKept' /\ FileKept' /\ LoadedSoFar'
    BY <1>3 DEF IInv, SavedAsFound, StackKept, PointerKept, FileKept, LoadedSoFar, Jump
<1> QED
    BY <1>2, <1>3, <1>4 DEF IInv

(* The epilog brings back what was pushed; the rest had not been touched.   *)
LEMMA StepEpilog == IInv /\ emitEpilog => IInv'
<1> SUFFICES ASSUME IInv, emitEpilog PROVE IInv'
    OBVIOUS
<1>1. \A x \in Registers :
         reg'[x] = CASE x \in DOMAIN saved -> IF reg[rsp] = Stack THEN saved[x] ELSE Scratch
                     [] x = rsp -> IF reg[rsp] = Stack THEN Caller(rsp) ELSE Scratch
                     [] x = rax -> Scratch
                     [] OTHER -> reg[x]
    BY DEF emitEpilog
<1>2. TypeOK'
  <2>1. reg' \in [Registers -> Contents]
      BY Distinct, Numbers DEF IInv, TypeOK, emitEpilog
  <2> QED
      BY <2>1 DEF IInv, TypeOK, emitEpilog
<1>3. Allowed' = Allowed /\ Dirty' = Dirty
    BY DEF Allowed, Dirty, emitEpilog, n
<1>4. ASSUME Allowed
      PROVE  /\ reg[rsp] = Stack /\ DOMAIN saved = Dirty \cap CalleeSaved
             /\ \A x \in DOMAIN saved : saved[x] = Caller(x)
             /\ \A x \in CalleeSaved \ Dirty : reg[x] = Caller(x)
    BY <1>4 DEF IInv, StackKept, SavedAsFound, emitEpilog
<1>5. ASSUME Allowed PROVE SavedAsFound'
  <2>1. \A x \in CalleeSaved : reg'[x] = Caller(x)
      BY <1>1, <1>4, <1>5, Numbers
  <2> QED
      BY <1>3, <1>4, <1>5, <2>1 DEF SavedAsFound, emitEpilog
<1>6. ASSUME Allowed PROVE StackKept' /\ PointerKept' /\ FileKept' /\ LoadedSoFar'
    BY <1>1, <1>4, <1>6, Numbers
       DEF IInv, StackKept, PointerKept, FileKept, LoadedSoFar, emitEpilog
<1> QED
    BY <1>2, <1>3, <1>5, <1>6 DEF IInv

-----------------------------------------------------------------------------
(* Every step does.                                                         *)
LEMMA StepIInv == IInv /\ [Next]_vars => IInv'
<1> SUFFICES ASSUME IInv, [Next]_vars PROVE IInv'
    OBVIOUS
<1>1. CASE emitProlog
    BY <1>1, StepProlog
<1>2. CASE LoadVectors
    BY <1>2, StepLoadVectors
<1>3. CASE LoadScalar
    BY <1>3, StepLoadScalar
<1>4. CASE Loaded
    BY <1>4, StepLoaded
<1>5. CASE Compute
    BY <1>5, StepCompute
<1>6. CASE Ret
    BY <1>6, StepRet
<1>7. CASE Jump
    BY <1>7, StepJump
<1>8. CASE emitEpilog
    BY <1>8, StepEpilog
<1>9. CASE UNCHANGED vars
    BY <1>9 DEF IInv, TypeOK, Allowed, SavedAsFound, StackKept, PointerKept, FileKept,
                LoadedSoFar, Dirty, vars, n
<1> QED
    BY <1>1, <1>2, <1>3, <1>4, <1>5, <1>6, <1>7, <1>8, <1>9 DEF Next

(* The frame's inductive invariant: what is saved, what is loaded and where *)
(* the pointers are, from the entry to the return of every program.         *)
THEOREM FrameConsistent == Spec => []IInv
BY InitIInv, StepIInv, PTL DEF Spec

(* Registers, saved registers and the register file hold what they can      *)
(* hold, at every step of a call of native code.                            *)
THEOREM TypeCorrect == Spec => []TypeOK
<1>1. IInv => TypeOK
    BY DEF IInv
<1> QED
    BY <1>1, FrameConsistent, PTL

(* The caller gets back every register it wants back, for every program     *)
(* that keeps to the registers assemble() leaves it.                        *)
THEOREM CallerGetsBack == Spec => []CallerKept
<1>1. IInv => CallerKept
    BY Numbers DEF IInv, SavedAsFound, StackKept, CallerKept
<1> QED
    BY <1>1, FrameConsistent, PTL

(* The pointer to the register file is never lost.                         *)
THEOREM PointerNeverLost == Spec => []PointerKept
<1>1. IInv => PointerKept
    BY DEF IInv, PointerKept
<1> QED
    BY <1>1, FrameConsistent, PTL

(* Every virtual register has its value for as long as the program runs.    *)
THEOREM VirtualsNeverLost == Spec => []VirtualsKept
<1>1. IInv => VirtualsKept
    BY DEF IInv, FileKept, LoadedSoFar, VirtualsKept
<1> QED
    BY <1>1, FrameConsistent, PTL
=============================================================================
