--------------------------- MODULE RegAllocProofs ---------------------------
(***************************************************************************)
(* Proofs about the register allocator, for every number of registers,     *)
(* temporaries and ticks: the tables stay consistent, a register is always *)
(* found, and no call loses the value of a virtual register.  About its    *)
(* client: its operands are in native registers when its code is emitted,  *)
(* and it implements the machine of virtual registers.  And about the test *)
(* program: all its calls are possible, and it leaves the sums its comments*)
(* name.                                                                   *)
(***************************************************************************)
EXTENDS JregTest, FiniteSetTheorems, SequenceTheorems, WellFoundedInduction,
        TLAPS

(* The tables are consistent with each other.  Each part needs the others:  *)
(* that MapsInverse survives an eviction takes TicksOrdered (a free         *)
(* register has no owner), that takes FixedExactly (the register found is   *)
(* no temporary), and that a tick is never read as Fixed.                   *)
IInv == /\ TypeOK
        /\ MapsInverse
        /\ FixedExactly
        /\ FixedOwners
        /\ TicksOrdered
        /\ tick_ > Fixed

-----------------------------------------------------------------------------
(* A non-empty set of naturals has a least element.                        *)
LEMMA LeastNat ==
    ASSUME NEW T, T \subseteq Nat, T # {}
    PROVE  \E x \in T : \A y \in T : x <= y
<1>1. PICK x \in T : \A y \in T : ~(<<y, x>> \in OpToRel(<, Nat))
  BY NatLessThanWellFounded, WFMin
<1>2. ASSUME NEW y \in T PROVE x <= y
  <2>1. ~(<<y, x>> \in OpToRel(<, Nat))
    BY <1>1
  <2>2. x \in Nat /\ y \in Nat
    OBVIOUS
  <2>3. ~(y < x)
    BY <2>1, <2>2 DEF OpToRel
  <2>4. QED BY <2>2, <2>3
<1>3. QED BY <1>2

(* A non-empty set of numbers below N has a greatest element.              *)
LEMMA GreatestBelow ==
    ASSUME NEW N \in Nat, NEW T, T \subseteq 0 .. N - 1, T # {}
    PROVE  \E x \in T : \A y \in T : y <= x
<1> DEFINE U == {N - 1 - x : x \in T}
<1>1. U \subseteq Nat
  <2>1. ASSUME NEW x \in T PROVE N - 1 - x \in Nat
    <3>1. x \in 0 .. N - 1
      OBVIOUS
    <3>2. QED BY <3>1
  <2>2. QED BY <2>1
<1>2. U # {}
  OBVIOUS
<1>3. PICK u \in U : \A v \in U : u <= v
  <2> HIDE DEF U
  <2>1. QED BY <1>1, <1>2, LeastNat
<1>4. PICK x \in T : u = N - 1 - x
  OBVIOUS
<1>5. ASSUME NEW y \in T PROVE y <= x
  <2>1. x \in 0 .. N - 1 /\ y \in 0 .. N - 1
    OBVIOUS
  <2>2. N - 1 - y \in U
    OBVIOUS
  <2>3. N - 1 - x <= N - 1 - y
    BY <1>3, <1>4, <2>2
  <2>4. QED BY <2>1, <2>3
<1>6. QED BY <1>5

(* Among the evictable registers one is the least recently used.            *)
LEMMA LeastEvictable ==
    ASSUME IInv, Evictable # {}
    PROVE  \E gp \in Evictable : \A h \in Evictable :
               \/ gp_use[gp] < gp_use[h]
               \/ gp_use[gp] = gp_use[h] /\ h <= gp
<1> DEFINE T == {gp_use[gp] : gp \in Evictable}
<1>1. T \subseteq Nat /\ T # {}
  <2>1. ASSUME NEW gp \in Evictable PROVE gp_use[gp] \in Nat
    BY DEF IInv, TypeOK, Evictable, Fixed, None
  <2>2. QED BY <2>1
<1>2. PICK t \in T : \A u \in T : t <= u
  <2> HIDE DEF T
  <2>1. QED BY <1>1, LeastNat
<1>3. PICK gp \in Evictable : t = gp_use[gp]
  OBVIOUS
<1>4. ASSUME NEW h \in Evictable
      PROVE  \/ gp_use[gp] < gp_use[h]
             \/ gp_use[gp] = gp_use[h] /\ h <= gp
  <2>1. gp_use[h] \in T
    OBVIOUS
  <2>2. gp_use[gp] <= gp_use[h]
    BY <1>2, <1>3, <2>1
  <2>3. gp_use[h] \in Nat /\ gp_use[gp] \in Nat /\ h \in Int /\ gp \in Int
    BY DEF IInv, TypeOK, Evictable, Fixed, None, Native
  <2>4. CASE gp_use[gp] = gp_use[h]
    <3>1. gp = h
      BY <2>4 DEF IInv, TicksOrdered, Evictable
    <3>2. QED BY <2>3, <2>4, <3>1
  <2>5. CASE gp_use[gp] # gp_use[h]
    BY <2>2, <2>3, <2>5
  <2>6. QED BY <2>4, <2>5
<1>5. QED BY <1>4

(* A register that find_native_register finds is free or evictable; it      *)
(* finds one if there is one.                                               *)
LEMMA Found ==
    ASSUME IInv, Free \cup Evictable # {}
    PROVE  /\ find_native_register \in Native
           /\ gp_use[find_native_register] # Fixed
<1>1. CASE Free # {}
  <2>1. Free \subseteq 0 .. NumNative - 1 /\ NumNative \in Nat
    BY RegAllocAssumption DEF Free, Native
  <2>2. \E gp \in Free : \A h \in Free : h <= gp
    BY <1>1, <2>1, GreatestBelow
  <2>3. find_native_register \in Free
    BY <1>1, <2>2 DEF find_native_register
  <2>4. QED BY <2>3 DEF Free, Fixed, None
<1>2. CASE Free = {}
  <2>1. find_native_register \in Evictable
    BY <1>2, LeastEvictable DEF find_native_register
  <2>2. QED BY <2>1 DEF Evictable, Fixed
<1>3. QED BY <1>1, <1>2

(* The registers that are fixed, and why there are few of them.             *)
FixedRegs == Pinned \cup Reserved \cup TmpRegs
NumFixed == Cardinality(Pinned) + Cardinality(Reserved) + MaxTmps

(* At most NumFixed registers are fixed, and three are never.               *)
LEMMA FixedFew ==
    ASSUME IInv
    PROVE  /\ IsFiniteSet(FixedRegs) /\ Cardinality(FixedRegs) \in Nat
           /\ Cardinality(FixedRegs) <= NumFixed
           /\ NumFixed \in Nat /\ NumFixed + 3 <= NumNative
<1>1. IsFiniteSet(Native) /\ Cardinality(Native) = NumNative
  BY RegAllocAssumption, FS_Interval DEF Native
<1>2. /\ IsFiniteSet(Pinned) /\ IsFiniteSet(Reserved)
      /\ Cardinality(Pinned) \in Nat /\ Cardinality(Reserved) \in Nat
  BY <1>1, RegAllocAssumption, FS_Subset, FS_CardinalityType
<1>3. /\ IsFiniteSet(TmpRegs) /\ Cardinality(TmpRegs) \in Nat
      /\ Cardinality(TmpRegs) <= MaxTmps
  <2>1. DOMAIN tmps = 1 .. Len(tmps) /\ Len(tmps) \in Nat
    BY DEF IInv, TypeOK
  <2>2. /\ IsFiniteSet(1 .. Len(tmps))
        /\ Cardinality(1 .. Len(tmps)) = Len(tmps)
    <3>1. 1 \in Int /\ Len(tmps) \in Int
      BY <2>1
    <3>2. /\ IsFiniteSet(1 .. Len(tmps))
          /\ Cardinality(1 .. Len(tmps))
             = IF 1 > Len(tmps) THEN 0 ELSE Len(tmps) - 1 + 1
      BY <3>1, FS_Interval
    <3>3. QED BY <2>1, <3>2
  <2>3. TmpRegs = {tmps[i] : i \in 1 .. Len(tmps)}
    BY <2>1 DEF TmpRegs
  <2>4. /\ IsFiniteSet(TmpRegs) 
        /\ Cardinality(TmpRegs) <= Cardinality(1 .. Len(tmps))
    <3> DEFINE g == [i \in 1 .. Len(tmps) |-> tmps[i]]
    <3>1. g \in Surjection(1 .. Len(tmps), TmpRegs)
      BY <2>3 DEF Surjection
    <3>2. QED BY <2>2, <3>1, FS_Surjection
  <2>5. Cardinality(TmpRegs) \in Nat
    BY <2>4, FS_CardinalityType
  <2>6. QED BY <2>1, <2>2, <2>4, <2>5, RegAllocAssumption DEF IInv, TypeOK
<1>4. /\ IsFiniteSet(Pinned \cup Reserved)
      /\ Cardinality(Pinned \cup Reserved)
         = Cardinality(Pinned) + Cardinality(Reserved)
           - Cardinality(Pinned \cap Reserved)
  BY <1>2, FS_Union
<1>5. /\ IsFiniteSet(FixedRegs)
      /\ Cardinality(FixedRegs)
         = Cardinality(Pinned \cup Reserved) + Cardinality(TmpRegs)
           - Cardinality((Pinned \cup Reserved) \cap TmpRegs)
  BY <1>3, <1>4, FS_Union DEF FixedRegs
<1>6. /\ Cardinality(Pinned \cap Reserved) \in Nat
      /\ Cardinality((Pinned \cup Reserved) \cap TmpRegs) \in Nat
  BY <1>2, <1>4, FS_Intersection, FS_CardinalityType
<1>7. Cardinality(FixedRegs) \in Nat
  BY <1>5, FS_CardinalityType
<1>8. QED
  BY <1>2, <1>3, <1>4, <1>5, <1>6, <1>7, RegAllocAssumption DEF NumFixed

(* A set smaller than that of the native registers leaves one out.          *)
LEMMA OneLeft ==
    ASSUME NEW F, IsFiniteSet(F), Cardinality(F) < NumNative
    PROVE  \E gp \in Native : gp \notin F
<1>1. IsFiniteSet(Native) /\ Cardinality(Native) = NumNative
  BY RegAllocAssumption, FS_Interval DEF Native
<1>2. SUFFICES ASSUME Native \subseteq F PROVE FALSE
  OBVIOUS
<1>3. Cardinality(Native) <= Cardinality(F)
  BY <1>2, FS_Subset
<1>4. Cardinality(F) \in Nat
  BY FS_CardinalityType
<1>5. QED BY <1>1, <1>3, <1>4, RegAllocAssumption

(* Three registers at least are free or evictable.                          *)
LEMMA ThreeLeft ==
    ASSUME IInv
    PROVE  \E a, b, c \in Free \cup Evictable : a # b /\ a # c /\ b # c
<1>1. /\ IsFiniteSet(FixedRegs) /\ Cardinality(FixedRegs) \in Nat
      /\ Cardinality(FixedRegs) + 3 <= NumNative
  <2>1. Cardinality(FixedRegs) <= NumFixed /\ NumFixed \in Nat
    BY FixedFew
  <2>2. NumFixed + 3 <= NumNative
    BY FixedFew
  <2>3. IsFiniteSet(FixedRegs) /\ Cardinality(FixedRegs) \in Nat
    BY FixedFew
  <2>4. QED BY <2>1, <2>2, <2>3, RegAllocAssumption
<1>2. PICK a \in Native : a \notin FixedRegs
  BY <1>1, OneLeft, RegAllocAssumption
<1>3. /\ IsFiniteSet(FixedRegs \cup {a})
      /\ Cardinality(FixedRegs \cup {a}) = Cardinality(FixedRegs) + 1
  BY <1>1, <1>2, FS_AddElement
<1>4. PICK b \in Native : b \notin FixedRegs \cup {a}
  <2>1. Cardinality(FixedRegs \cup {a}) < NumNative
    BY <1>1, <1>3, RegAllocAssumption
  <2>2. QED BY <1>3, <2>1, OneLeft
<1>5. /\ IsFiniteSet(FixedRegs \cup {a} \cup {b})
      /\ Cardinality(FixedRegs \cup {a} \cup {b}) = Cardinality(FixedRegs) + 2
  <2>1. /\ IsFiniteSet((FixedRegs \cup {a}) \cup {b})
        /\ Cardinality((FixedRegs \cup {a}) \cup {b})
           = Cardinality(FixedRegs \cup {a}) + 1
    BY <1>3, <1>4, FS_AddElement
  <2>2. QED BY <1>1, <1>3, <2>1
<1>6. PICK c \in Native : c \notin FixedRegs \cup {a} \cup {b}
  <2>1. Cardinality(FixedRegs \cup {a} \cup {b}) < NumNative
    BY <1>1, <1>5, RegAllocAssumption
  <2>2. QED BY <1>5, <2>1, OneLeft
<1>7. ASSUME NEW gp \in Native, gp \notin FixedRegs
      PROVE  gp \in Free \cup Evictable
  <2>1. gp_use[gp] # Fixed
    BY <1>7 DEF IInv, FixedExactly, FixedRegs
  <2>2. QED BY <2>1 DEF IInv, TypeOK, Free, Evictable, Fixed, None
<1>8. /\ a \in Free \cup Evictable /\ b \in Free \cup Evictable
      /\ c \in Free \cup Evictable
  BY <1>2, <1>4, <1>6, <1>7
<1>9. a # b /\ a # c /\ b # c
  BY <1>4, <1>6
<1>10. QED BY <1>8, <1>9

(* What a mapping or an allocation is about to take: a register that is not *)
(* fixed, whose owner, if it has one, is mapped to it.                      *)
LEMMA Victim ==
    ASSUME IInv
    PROVE  /\ NativeFound
           /\ find_native_register \in Native
           /\ gp_use[find_native_register] # Fixed
           /\ find_native_register \notin Pinned \cup Reserved \cup TmpRegs
<1>1. /\ find_native_register \in Native
      /\ gp_use[find_native_register] # Fixed
  BY ThreeLeft, Found
<1>2. find_native_register \notin Pinned \cup Reserved \cup TmpRegs
  BY <1>1 DEF IInv, FixedExactly
<1>3. NativeFound
  BY <1>1 DEF NativeFound, None, Native
<1>4. QED BY <1>1, <1>2, <1>3

-----------------------------------------------------------------------------
(* The invariant holds initially: tick_ has passed 0, the tick that would   *)
(* read as Fixed, because at least one register is pinned.                  *)
LEMMA InitIInv == Init => IInv
<1> SUFFICES ASSUME Init PROVE IInv
  OBVIOUS
<1> USE DEF Init
<1>1. /\ IsFiniteSet(Pinned) /\ Cardinality(Pinned) \in Nat
      /\ Cardinality(Pinned) > 0
  <2>1. IsFiniteSet(Native)
    BY RegAllocAssumption, FS_Interval DEF Native
  <2>2. IsFiniteSet(Pinned)
    BY <2>1, RegAllocAssumption, FS_Subset
  <2>3. QED BY <2>2, RegAllocAssumption, FS_EmptySet, FS_CardinalityType
<1>2. TmpRegs = {}
  BY DEF TmpRegs
<1>3. TypeOK
  <2>1. tmps \in Seq(Native) /\ Len(tmps) = 0
    OBVIOUS
  <2>2. r_map \in [Virtual -> Native \cup {None}]
    BY RegAllocAssumption
  <2>3. gp_map \in [Native -> Virtual \cup {None}]
    BY RegAllocAssumption
  <2>4. gp_use \in [Native -> Nat \cup {None}]
    BY DEF Fixed
  <2>5. QED BY <1>1, <2>1, <2>2, <2>3, <2>4, RegAllocAssumption DEF TypeOK
<1>4. MapsInverse
  BY RegAllocAssumption DEF MapsInverse, None, Virtual, Native
<1>5. FixedExactly
  BY <1>2 DEF FixedExactly, Fixed, None
<1>6. FixedOwners
  BY <1>2, RegAllocAssumption DEF FixedOwners
<1>7. TicksOrdered
  BY RegAllocAssumption DEF TicksOrdered, Fixed, None
<1>8. QED BY <1>1, <1>3, <1>4, <1>5, <1>6, <1>7 DEF IInv, Fixed

(* Mapping r to the register found keeps the tables consistent.            *)
LEMMA Mapping ==
    ASSUME IInv, NEW r \in Virtual, r_map[r] = None, MapNew(r), tmps' = tmps,
           gpr' \in [Native -> Word]
    PROVE  IInv'
<1> DEFINE gp == find_native_register
<1>1. /\ gp \in Native /\ gp_use[gp] # Fixed
      /\ gp \notin Pinned \cup Reserved \cup TmpRegs
  BY Victim
<1>2. /\ flush_and_unmap_native(gp)
      /\ map_virtual_reg(r, gp)
  BY DEF MapNew
<1> HIDE DEF gp
<1> USE DEF map_virtual_reg
<1>3. TmpRegs' = TmpRegs
  BY DEF TmpRegs
<1>4. /\ None \notin Virtual /\ None \notin Native
      /\ None # Fixed /\ Fixed \in Nat
  BY DEF None, Fixed, Virtual, Native
<1>5. tick_ \in Nat /\ tick_ > 0 /\ tick_' = tick_ + 1
  BY <1>2 DEF IInv, TypeOK, Fixed
<1>6. TypeOK'
  <2>1. mem' \in [Virtual -> Word]
    <3>1. gp_map[gp] \in Virtual \cup {None} /\ gpr[gp] \in Word
      BY <1>1 DEF IInv, TypeOK
    <3>2. QED BY <1>2, <3>1 DEF IInv, TypeOK, flush_and_unmap_native
  <2>2. r_map' \in [Virtual -> Native \cup {None}]
    BY <1>1, <1>2 DEF IInv, TypeOK
  <2>3. gp_map' \in [Native -> Virtual \cup {None}]
    BY <1>1, <1>2 DEF IInv, TypeOK
  <2>4. gp_use' \in [Native -> Nat \cup {None}]
    BY <1>1, <1>2, <1>5 DEF IInv, TypeOK
  <2>5. QED BY <1>5, <2>1, <2>2, <2>3, <2>4 DEF IInv, TypeOK
<1>7. MapsInverse'
  <2>1. ASSUME NEW v \in Virtual, NEW h \in Native
        PROVE  r_map'[v] = h <=> gp_map'[h] = v
    <3>1. r_map[v] = h <=> gp_map[h] = v
      BY DEF IInv, MapsInverse
    <3>2. r_map[v] = gp <=> gp_map[gp] = v
      BY <1>1 DEF IInv, MapsInverse
    <3>3. r_map[r] = h <=> gp_map[h] = r
      BY DEF IInv, MapsInverse
    <3>4. gp_map'[h] = IF h = gp THEN r ELSE gp_map[h]
      BY <1>1, <1>2 DEF IInv, TypeOK
    <3>5. r_map'[v] = IF v = r THEN gp ELSE IF v = gp_map[gp] THEN None
                      ELSE r_map[v]
      BY <1>2
    <3>6. QED BY <1>4, <3>1, <3>2, <3>3, <3>4, <3>5
  <2>2. QED BY <2>1 DEF MapsInverse
<1>8. FixedExactly'
  <2>1. ASSUME NEW h \in Native
        PROVE  gp_use'[h] = Fixed <=> h \in Pinned \cup Reserved \cup TmpRegs
    <3>1. gp_use'[h] = IF h = gp THEN tick_ ELSE gp_use[h]
      BY <1>1, <1>2 DEF IInv, TypeOK
    <3>2. QED BY <1>1, <1>5, <3>1 DEF IInv, FixedExactly, Fixed
  <2>2. QED BY <1>3, <2>1 DEF FixedExactly
<1>9. FixedOwners'
  <2>1. \A h \in Native : h # gp => gp_map'[h] = gp_map[h]
    BY <1>1, <1>2 DEF IInv, TypeOK
  <2>2. Pinned \cup Reserved \cup TmpRegs \subseteq Native
    BY RegAllocAssumption DEF IInv, TypeOK, TmpRegs
  <2>3. QED BY <1>1, <1>3, <2>1, <2>2 DEF IInv, FixedOwners
<1>10. TicksOrdered'
  <2>1. \A h \in Native :
            /\ gp_use'[h] = IF h = gp THEN tick_ ELSE gp_use[h]
            /\ gp_map'[h] = IF h = gp THEN r ELSE gp_map[h]
            /\ gp_use[h] \in Nat \cup {None}
    BY <1>1, <1>2 DEF IInv, TypeOK
  <2>2. ASSUME NEW h \in Native
        PROVE  /\ gp_use'[h] > Fixed => gp_map'[h] # None /\ gp_use'[h] < tick_'
               /\ gp_use'[h] = None => gp_map'[h] = None
    BY <1>4, <1>5, <2>1 DEF IInv, TicksOrdered, None, Fixed
  <2>3. ASSUME NEW h \in Native, NEW k \in Native,
               gp_use'[h] = gp_use'[k], gp_use'[h] > Fixed
        PROVE  h = k
    BY <1>5, <2>1, <2>3 DEF IInv, TicksOrdered, None, Fixed
  <2>4. QED BY <2>2, <2>3 DEF TicksOrdered
<1>11. QED BY <1>5, <1>6, <1>7, <1>8, <1>9, <1>10 DEF IInv, Fixed

(* Stamping a mapped register with a new tick keeps the tables consistent. *)
LEMMA Touching ==
    ASSUME IInv, NEW r \in Virtual, r_map[r] # None, Touch(r),
           UNCHANGED <<tmps, gpr>>
    PROVE  IInv'
<1> DEFINE gp == r_map[r]
<1>1. gp \in Native /\ gp_map[gp] = r
  BY DEF IInv, TypeOK, MapsInverse
<1>2. TmpRegs' = TmpRegs
  BY DEF TmpRegs
<1>3. UNCHANGED <<r_map, gp_map, mem>>
  BY DEF Touch
<1>4. CASE gp_use[gp] = Fixed
  <2>1. UNCHANGED <<gp_use, tick_>>
    BY <1>4 DEF Touch
  <2>2. QED BY <1>2, <1>3, <2>1
            DEF IInv, TypeOK, MapsInverse, FixedExactly, FixedOwners,
                TicksOrdered
<1>5. CASE gp_use[gp] # Fixed
  <2>1. gp_use' = [gp_use EXCEPT ![gp] = tick_] /\ tick_' = tick_ + 1
    BY <1>5 DEF Touch
  <2>2. tick_ \in Nat /\ tick_ > 0
    BY DEF IInv, TypeOK, Fixed
  <2>3. \A h \in Native :
            /\ gp_use'[h] = IF h = gp THEN tick_ ELSE gp_use[h]
            /\ gp_use[h] \in Nat \cup {None}
    BY <1>1, <2>1 DEF IInv, TypeOK
  <2>4. TypeOK'
    BY <1>1, <1>3, <2>1, <2>2 DEF IInv, TypeOK
  <2>5. MapsInverse' /\ FixedOwners'
    BY <1>2, <1>3 DEF IInv, MapsInverse, FixedOwners
  <2>6. FixedExactly'
    BY <1>2, <1>5, <2>2, <2>3 DEF IInv, FixedExactly, Fixed
  <2>7. TicksOrdered'
    <3>1. ASSUME NEW h \in Native
          PROVE  /\ gp_use'[h] > Fixed
                    => gp_map'[h] # None /\ gp_use'[h] < tick_'
                 /\ gp_use'[h] = None => gp_map'[h] = None
      <4>1. gp_map[gp] # None
        BY <1>1 DEF None, Virtual
      <4>2. QED BY <1>3, <2>1, <2>2, <2>3, <4>1
                DEF IInv, TicksOrdered, None, Fixed
    <3>2. ASSUME NEW h \in Native, NEW k \in Native,
                 gp_use'[h] = gp_use'[k], gp_use'[h] > Fixed
          PROVE  h = k
      BY <2>2, <2>3, <3>2 DEF IInv, TicksOrdered, None, Fixed
    <3>3. QED BY <3>1, <3>2 DEF TicksOrdered
  <2>8. QED BY <2>1, <2>2, <2>4, <2>5, <2>6, <2>7 DEF IInv, Fixed
<1>6. QED BY <1>4, <1>5

(* A temporary takes the register found and fixes it.                      *)
LEMMA Allocating ==
    ASSUME IInv, alloc_native_register
    PROVE  IInv'
<1> DEFINE gp == find_native_register
<1>1. /\ gp \in Native /\ gp_use[gp] # Fixed
      /\ gp \notin Pinned \cup Reserved \cup TmpRegs
  BY Victim
<1>2. /\ Len(tmps) < MaxTmps
      /\ flush_and_unmap_native(gp)
      /\ r_map' = [v \in Virtual |-> IF v = gp_map[gp] THEN None
                                     ELSE r_map[v]]
      /\ gp_map' = [gp_map EXCEPT ![gp] = None]
      /\ gp_use' = [gp_use EXCEPT ![gp] = Fixed]
      /\ tmps' = Append(tmps, gp)
      /\ UNCHANGED <<tick_, gpr>>
  BY DEF alloc_native_register, without_owner
<1> HIDE DEF gp
<1>3. /\ None \notin Virtual /\ None \notin Native
      /\ None # Fixed /\ Fixed \in Nat
  BY DEF None, Fixed, Virtual, Native
<1>4. /\ tmps' \in Seq(Native) /\ Len(tmps') = Len(tmps) + 1
      /\ Len(tmps) \in Nat
      /\ DOMAIN tmps = 1 .. Len(tmps) /\ DOMAIN tmps' = 1 .. Len(tmps) + 1
      /\ \A i \in 1 .. Len(tmps) : tmps'[i] = tmps[i]
      /\ tmps'[Len(tmps) + 1] = gp
  BY <1>1, <1>2 DEF IInv, TypeOK
<1>5. TmpRegs' = TmpRegs \cup {gp}
  <2>1. TmpRegs' = {tmps'[i] : i \in 1 .. Len(tmps) + 1}
    BY <1>4 DEF TmpRegs
  <2>2. TmpRegs = {tmps[i] : i \in 1 .. Len(tmps)}
    BY <1>4 DEF TmpRegs
  <2>3. ASSUME NEW i \in 1 .. Len(tmps) + 1
        PROVE  tmps'[i] \in TmpRegs \cup {gp}
    <3>1. CASE i = Len(tmps) + 1
      BY <1>4, <3>1
    <3>2. CASE i # Len(tmps) + 1
      <4>1. i \in 1 .. Len(tmps)
        BY <1>4, <3>2
      <4>2. QED BY <1>4, <2>2, <4>1
    <3>3. QED BY <3>1, <3>2
  <2>4. ASSUME NEW h \in TmpRegs \cup {gp}
        PROVE  \E i \in 1 .. Len(tmps) + 1 : h = tmps'[i]
    <3>1. CASE h = gp
      <4>1. Len(tmps) + 1 \in 1 .. Len(tmps) + 1
        BY <1>4
      <4>2. QED BY <1>4, <3>1, <4>1
    <3>2. CASE h \in TmpRegs
      <4>1. PICK i \in 1 .. Len(tmps) : h = tmps[i]
        BY <2>2, <3>2
      <4>2. i \in 1 .. Len(tmps) + 1 /\ tmps'[i] = h
        BY <1>4, <4>1
      <4>3. QED BY <4>2
    <3>3. QED BY <3>1, <3>2
  <2>5. QED BY <2>1, <2>3, <2>4
<1>6. TypeOK'
  <2>1. mem' \in [Virtual -> Word]
    <3>1. gp_map[gp] \in Virtual \cup {None} /\ gpr[gp] \in Word
      BY <1>1 DEF IInv, TypeOK
    <3>2. QED BY <1>2, <3>1 DEF IInv, TypeOK, flush_and_unmap_native
  <2>2. r_map' \in [Virtual -> Native \cup {None}]
    BY <1>2 DEF IInv, TypeOK
  <2>3. gp_map' \in [Native -> Virtual \cup {None}]
    BY <1>1, <1>2 DEF IInv, TypeOK
  <2>4. gp_use' \in [Native -> Nat \cup {None}]
    BY <1>1, <1>2, <1>3 DEF IInv, TypeOK
  <2>5. Len(tmps') <= MaxTmps
    BY <1>2, <1>4, RegAllocAssumption
  <2>6. QED BY <1>2, <1>4, <2>1, <2>2, <2>3, <2>4, <2>5 DEF IInv, TypeOK
<1>7. MapsInverse'
  <2>1. ASSUME NEW v \in Virtual, NEW h \in Native
        PROVE  r_map'[v] = h <=> gp_map'[h] = v
    <3>1. r_map[v] = h <=> gp_map[h] = v
      BY DEF IInv, MapsInverse
    <3>2. r_map[v] = gp <=> gp_map[gp] = v
      BY <1>1 DEF IInv, MapsInverse
    <3>3. gp_map'[h] = IF h = gp THEN None ELSE gp_map[h]
      BY <1>1, <1>2 DEF IInv, TypeOK
    <3>4. r_map'[v] = IF v = gp_map[gp] THEN None ELSE r_map[v]
      BY <1>2
    <3>5. QED BY <1>3, <3>1, <3>2, <3>3, <3>4
  <2>2. QED BY <2>1 DEF MapsInverse
<1>8. \A h \in Native :
          /\ gp_use'[h] = IF h = gp THEN Fixed ELSE gp_use[h]
          /\ gp_map'[h] = IF h = gp THEN None ELSE gp_map[h]
          /\ gp_use[h] \in Nat \cup {None}
  BY <1>1, <1>2 DEF IInv, TypeOK
<1>9. FixedExactly'
  BY <1>5, <1>8 DEF IInv, FixedExactly
<1>10. FixedOwners'
  <2>1. Pinned \cup Reserved \cup TmpRegs \subseteq Native
    BY RegAllocAssumption DEF IInv, TypeOK, TmpRegs
  <2>2. /\ \A h \in Pinned : gp_map'[h] = h
        /\ \A h \in Reserved \cup TmpRegs' : gp_map'[h] = None
        /\ TmpRegs' \cap (Pinned \cup Reserved) = {}
    BY <1>1, <1>5, <1>8, <2>1 DEF IInv, FixedOwners
  <2>3. ASSUME NEW i \in DOMAIN tmps', NEW j \in DOMAIN tmps',
               tmps'[i] = tmps'[j]
        PROVE  i = j
    <3>1. \A k \in 1 .. Len(tmps) : tmps'[k] # gp
      BY <1>1, <1>4 DEF TmpRegs
    <3>2. CASE i \in 1 .. Len(tmps) /\ j \in 1 .. Len(tmps)
      BY <1>4, <2>3, <3>2 DEF IInv, FixedOwners
    <3>3. CASE i = Len(tmps) + 1
      BY <1>4, <2>3, <3>1, <3>3
    <3>4. CASE j = Len(tmps) + 1
      BY <1>4, <2>3, <3>1, <3>4
    <3>5. QED BY <1>4, <3>2, <3>3, <3>4
  <2>4. QED BY <2>2, <2>3 DEF FixedOwners
<1>11. TicksOrdered'
  BY <1>2, <1>3, <1>8 DEF IInv, TicksOrdered, Fixed, None
<1>12. QED BY <1>2, <1>6, <1>7, <1>9, <1>10, <1>11 DEF IInv

(* The temporary destroyed last frees its register and no other.           *)
LEMMA Releasing ==
    ASSUME IInv, release_native_register
    PROVE  IInv'
<1> DEFINE n == Len(tmps)
           gp == tmps[n]
<1>1. /\ n \in Nat /\ n > 0 /\ DOMAIN tmps = 1 .. n
      /\ n \in 1 .. n /\ gp \in Native /\ gp \in TmpRegs
  BY DEF IInv, TypeOK, TmpRegs, release_native_register
<1>2. /\ gp_use[gp] = Fixed
      /\ gp_map[gp] = None /\ gp \notin Pinned \cup Reserved
  BY <1>1 DEF IInv, FixedExactly, FixedOwners
<1>3. /\ gp_use' = [gp_use EXCEPT ![gp] = None]
      /\ tmps' = SubSeq(tmps, 1, n - 1)
      /\ UNCHANGED <<r_map, gp_map, tick_, gpr, mem>>
  BY <1>2 DEF release_native_register
<1>4. /\ tmps' \in Seq(Native) /\ Len(tmps') = n - 1
      /\ DOMAIN tmps' = 1 .. n - 1
      /\ \A i \in 1 .. n - 1 : tmps'[i] = tmps[i]
  BY <1>1, <1>3 DEF IInv, TypeOK
<1>5. \A i \in 1 .. n - 1 : tmps[i] # gp
  BY <1>1 DEF IInv, FixedOwners
<1>6. TmpRegs' = TmpRegs \ {gp}
  <2>1. TmpRegs' = {tmps[i] : i \in 1 .. n - 1}
    BY <1>4 DEF TmpRegs
  <2>2. TmpRegs = {tmps[i] : i \in 1 .. n}
    BY <1>1 DEF TmpRegs
  <2>3. 1 .. n = (1 .. n - 1) \cup {n}
    BY <1>1
  <2>4. QED BY <1>5, <2>1, <2>2, <2>3
<1> HIDE DEF gp
<1>7. /\ None # Fixed /\ ~(None > Fixed)
  BY DEF None, Fixed
<1>8. \A h \in Native : gp_use'[h] = IF h = gp THEN None ELSE gp_use[h]
  BY <1>1, <1>3 DEF IInv, TypeOK
<1>9. TypeOK'
  <2>1. gp_use' \in [Native -> Nat \cup {None}]
    BY <1>1, <1>3 DEF IInv, TypeOK
  <2>2. Len(tmps') <= MaxTmps
    BY <1>1, <1>4, RegAllocAssumption DEF IInv, TypeOK
  <2>3. QED BY <1>3, <1>4, <2>1, <2>2 DEF IInv, TypeOK
<1>10. MapsInverse'
  BY <1>3 DEF IInv, MapsInverse
<1>11. FixedExactly'
  BY <1>2, <1>6, <1>7, <1>8 DEF IInv, FixedExactly
<1>12. FixedOwners'
  <2>1. /\ \A h \in Pinned : gp_map'[h] = h
        /\ \A h \in Reserved \cup TmpRegs' : gp_map'[h] = None
        /\ TmpRegs' \cap (Pinned \cup Reserved) = {}
    BY <1>3, <1>6 DEF IInv, FixedOwners
  <2>2. ASSUME NEW i \in DOMAIN tmps', NEW j \in DOMAIN tmps',
               tmps'[i] = tmps'[j]
        PROVE  i = j
    BY <1>1, <1>4, <2>2 DEF IInv, FixedOwners
  <2>3. QED BY <2>1, <2>2 DEF FixedOwners
<1>13. TicksOrdered'
  BY <1>2, <1>3, <1>7, <1>8 DEF IInv, TicksOrdered
<1>14. QED BY <1>3, <1>9, <1>10, <1>11, <1>12, <1>13 DEF IInv

(* Every step keeps the tables consistent.                                 *)
LEMMA NextIInv == IInv /\ [Next]_allocVars => IInv'
<1> SUFFICES ASSUME IInv, [Next]_allocVars PROVE IInv'
  OBVIOUS
<1>1. ASSUME NEW r \in Virtual, ensure_mapped(r) PROVE IInv'
  <2>1. UNCHANGED <<tmps, gpr>>
    BY <1>1 DEF ensure_mapped
  <2>2. CASE r_map[r] = None
    <3>1. MapNew(r) /\ gpr' \in [Native -> Word]
      BY <1>1, <2>1, <2>2 DEF ensure_mapped, IInv, TypeOK
    <3>2. QED BY <2>1, <2>2, <3>1, Mapping
  <2>3. CASE r_map[r] # None
    <3>1. Touch(r)
      BY <1>1, <2>3 DEF ensure_mapped
    <3>2. QED BY <2>1, <2>3, <3>1, Touching
  <2>4. QED BY <2>2, <2>3
<1>2. ASSUME NEW r \in Virtual, ensure_loaded(r) PROVE IInv'
  <2>1. tmps' = tmps
    BY <1>2 DEF ensure_loaded
  <2>2. CASE r_map[r] = None
    <3>1. MapNew(r) /\ gpr' = [gpr EXCEPT ![find_native_register] = mem[r]]
      BY <1>2, <2>2 DEF ensure_loaded
    <3>2. gpr' \in [Native -> Word]
      BY <3>1 DEF IInv, TypeOK
    <3>3. QED BY <2>1, <2>2, <3>1, <3>2, Mapping
  <2>3. CASE r_map[r] # None
    <3>1. Touch(r) /\ UNCHANGED gpr
      BY <1>2, <2>3 DEF ensure_loaded
    <3>2. QED BY <2>1, <2>3, <3>1, Touching
  <2>4. QED BY <2>2, <2>3
<1>3. CASE alloc_native_register
  BY <1>3, Allocating
<1>4. CASE release_native_register
  BY <1>4, Releasing
<1>5. CASE UNCHANGED allocVars
  BY <1>5 DEF allocVars, IInv, TypeOK, MapsInverse, FixedExactly, FixedOwners,
              TicksOrdered, TmpRegs
<1>6. QED BY <1>1, <1>2, <1>3, <1>4, <1>5 DEF Next

(* The tables stay consistent, whatever is mapped, loaded, allocated and    *)
(* released, in whatever order.                                             *)
THEOREM TablesConsistent == Spec => []IInv
<1>1. Init => IInv
  BY InitIInv
<1>2. IInv /\ [Next]_allocVars => IInv'
  BY NextIInv
<1>3. QED BY <1>1, <1>2, PTL DEF Spec

(* Every table of the allocator stays within its range.                    *)
THEOREM TypeCorrect == Spec => []TypeOK
<1>1. IInv => TypeOK
  BY DEF IInv
<1>2. QED BY <1>1, TablesConsistent, PTL

(* No two virtual registers ever share a native register, and no native     *)
(* register remembers an owner that has left it.                            *)
THEOREM NoSharing == Spec => []MapsInverse
<1>1. IInv => MapsInverse
  BY DEF IInv
<1>2. QED BY <1>1, TablesConsistent, PTL

(* The registers that are never evicted are the pinned, the reserved and    *)
(* the live temporaries: none is lost for good, none of these is evicted.   *)
THEOREM FixedForAReason == Spec => []FixedExactly
<1>1. IInv => FixedExactly
  BY DEF IInv
<1>2. QED BY <1>1, TablesConsistent, PTL

(* No two temporaries share a register, and no virtual register is kept in  *)
(* one, nor in a reserved register.                                         *)
THEOREM EachForOneReason == Spec => []FixedOwners
<1>1. IInv => FixedOwners
  BY DEF IInv
<1>2. QED BY <1>1, TablesConsistent, PTL

(* No two mapped registers have the same tick: which one was used least     *)
(* recently is always decided.                                              *)
THEOREM LeastRecentlyUsed == Spec => []TicksOrdered
<1>1. IInv => TicksOrdered
  BY DEF IInv
<1>2. QED BY <1>1, TablesConsistent, PTL

(* The search for a native register never fails, so the tables are never    *)
(* indexed with -1: the fixed registers always leave three others.          *)
THEOREM AlwaysFound == Spec => []NativeFound
<1>1. IInv => NativeFound
  BY Victim
<1>2. QED BY <1>1, TablesConsistent, PTL

-----------------------------------------------------------------------------
(* A virtual register keeps its value when the register found is flushed,   *)
(* its owner unmapped and its contents overwritten, if r is that owner or   *)
(* is not concerned.                                                        *)
LEMMA Displaced ==
    ASSUME IInv, NEW r \in Virtual,
           flush_and_unmap_native(find_native_register),
           r_map'[r] = IF r = gp_map[find_native_register] THEN None
                       ELSE r_map[r],
           \A gp \in Native : gp # find_native_register => gpr'[gp] = gpr[gp]
    PROVE  value(r)' = value(r)
<1> DEFINE gp == find_native_register
<1>1. gp \in Native
  BY Victim
<1> HIDE DEF gp
<1>2. /\ r_map[r] = gp <=> gp_map[gp] = r
      /\ None \notin Native /\ r # None
      /\ gp_map[gp] \in Virtual \cup {None}
      /\ r_map[r] \in Native \cup {None}
  BY <1>1 DEF IInv, TypeOK, MapsInverse, None, Virtual, Native
<1>3. mem' = IF gp_map[gp] = None THEN mem
             ELSE [mem EXCEPT ![gp_map[gp]] = gpr[gp]]
  BY DEF flush_and_unmap_native, gp
<1>4. CASE r = gp_map[gp]
  <2>1. r_map'[r] = None /\ value(r) = gpr[gp]
    BY <1>1, <1>2, <1>4 DEF value, gp
  <2>2. mem'[r] = gpr[gp]
    BY <1>2, <1>3, <1>4 DEF IInv, TypeOK
  <2>3. QED BY <2>1, <2>2 DEF value
<1>5. CASE r # gp_map[gp]
  <2>1. r_map'[r] = r_map[r] /\ r_map[r] # gp
    BY <1>2, <1>5 DEF gp
  <2>2. mem'[r] = mem[r]
    BY <1>2, <1>3, <1>5 DEF IInv, TypeOK
  <2>3. r_map[r] # None => gpr'[r_map[r]] = gpr[r_map[r]]
    BY <1>2, <2>1 DEF gp
  <2>4. QED BY <2>1, <2>2, <2>3 DEF value
<1>6. QED BY <1>4, <1>5

(* A register that is loaded has the value it had, and so have the others.  *)
LEMMA LoadingKeeps ==
    ASSUME IInv, NEW q \in Virtual, ensure_loaded(q), NEW r \in Virtual
    PROVE  value(r)' = value(r)
<1>1. CASE r_map[q] # None
  <2>1. Touch(q) /\ UNCHANGED gpr
    BY <1>1 DEF ensure_loaded
  <2>2. UNCHANGED <<r_map, mem, gpr>>
    BY <2>1 DEF Touch
  <2>3. QED BY <2>2 DEF value
<1>2. CASE r_map[q] = None
  <2>1. /\ MapNew(q)
        /\ gpr' = [gpr EXCEPT ![find_native_register] = mem[q]]
    BY <1>2 DEF ensure_loaded
  <2>2. find_native_register \in Native
    BY Victim
  <2>3. CASE r = q
    <3>1. r_map'[q] = find_native_register
      BY <2>1 DEF MapNew, map_virtual_reg
    <3>2. gpr'[find_native_register] = mem[q]
      BY <2>1, <2>2 DEF IInv, TypeOK
    <3>3. find_native_register # None
      BY <2>2 DEF None, Native
    <3>4. QED BY <1>2, <2>3, <3>1, <3>2, <3>3 DEF value
  <2>4. CASE r # q
    <3>1. /\ flush_and_unmap_native(find_native_register)
          /\ r_map'[r] = IF r = gp_map[find_native_register] THEN None
                         ELSE r_map[r]
      BY <2>1, <2>4 DEF MapNew, map_virtual_reg
    <3>2. \A gp \in Native : gp # find_native_register => gpr'[gp] = gpr[gp]
      BY <2>1 DEF IInv, TypeOK
    <3>3. QED BY <3>1, <3>2, Displaced
  <2>5. QED BY <2>3, <2>4
<1>3. QED BY <1>1, <1>2

(* A register that is mapped in order to be written may lose its value, the *)
(* others keep theirs.                                                      *)
LEMMA MappingKeeps ==
    ASSUME IInv, NEW q \in Virtual, ensure_mapped(q), NEW r \in Virtual,
           r # q \/ r_map[q] # None
    PROVE  value(r)' = value(r)
<1>1. CASE r_map[q] # None
  <2>1. Touch(q) /\ UNCHANGED gpr
    BY <1>1 DEF ensure_mapped
  <2>2. UNCHANGED <<r_map, mem, gpr>>
    BY <2>1 DEF Touch
  <2>3. QED BY <2>2 DEF value
<1>2. CASE r_map[q] = None
  <2>1. MapNew(q) /\ UNCHANGED gpr
    BY <1>2 DEF ensure_mapped
  <2>2. /\ flush_and_unmap_native(find_native_register)
        /\ r_map'[r] = IF r = gp_map[find_native_register] THEN None
                       ELSE r_map[r]
    BY <1>2, <2>1 DEF MapNew, map_virtual_reg
  <2>3. QED BY <2>1, <2>2, Displaced
<1>3. QED BY <1>1, <1>2

(* So does an allocation of a temporary.                                    *)
LEMMA AllocatingKeeps ==
    ASSUME IInv, alloc_native_register, NEW r \in Virtual
    PROVE  value(r)' = value(r)
<1>1. /\ flush_and_unmap_native(find_native_register)
      /\ r_map'[r] = IF r = gp_map[find_native_register] THEN None
                     ELSE r_map[r]
      /\ gpr' = gpr
  BY DEF alloc_native_register, without_owner
<1>2. QED BY <1>1, Displaced

(* No step changes the value of a virtual register it was not asked for.   *)
LEMMA NextValuesKept ==
    IInv /\ [Next]_allocVars
    => [\A r \in Virtual :
           value(r)' = value(r) \/ (ensure_mapped(r) /\ r_map[r] = None)
       ]_allocVars
<1> SUFFICES ASSUME IInv, Next, NEW r \in Virtual
             PROVE  \/ value(r)' = value(r)
                    \/ ensure_mapped(r) /\ r_map[r] = None
  OBVIOUS
<1>1. ASSUME NEW q \in Virtual, ensure_mapped(q)
      PROVE  \/ value(r)' = value(r)
             \/ ensure_mapped(r) /\ r_map[r] = None
  BY <1>1, MappingKeeps
<1>2. ASSUME NEW q \in Virtual, ensure_loaded(q)
      PROVE  value(r)' = value(r)
  BY <1>2, LoadingKeeps
<1>3. CASE alloc_native_register
  BY <1>3, AllocatingKeeps
<1>4. CASE release_native_register
  BY <1>4 DEF release_native_register, value
<1>5. QED BY <1>1, <1>2, <1>3, <1>4 DEF Next

(* A virtual register keeps its value, in its native register or at home,   *)
(* through every mapping, eviction, load and temporary made for others: no  *)
(* emitted save is missing, late, or of the wrong register.                 *)
THEOREM EvictionKeepsValues == Spec => ValuesKept
<1>1. IInv /\ [Next]_allocVars
      => [\A r \in Virtual :
             value(r)' = value(r) \/ (ensure_mapped(r) /\ r_map[r] = None)
         ]_allocVars
  BY NextValuesKept
<1>2. QED BY <1>1, TablesConsistent, PTL DEF Spec, ValuesKept

-----------------------------------------------------------------------------
(* The client.                                                              *)

(* r is mapped to a register that is fixed or was one of the last k used.   *)
Recent(r, k) == /\ r_map[r] # None
                /\ \/ gp_use[r_map[r]] = Fixed
                   \/ gp_use[r_map[r]] >= tick_ - k

(* The operands an instruction has asked for are among the last two used,   *)
(* so that with three registers to choose from none of them is evicted.     *)
JInv == /\ IInv
        /\ pc \in {"idle", "s1", "s2", "d", "exec"}
        /\ ins \in Ins
        /\ ins.op = "add" /\ ins.d = ins.s2 => ins.d = ins.s1
        /\ ins.op = "mov" => ins.s1 = ins.s2
        /\ pc = "s2" => Recent(ins.s1, 1) /\ ins.op = "add"
        /\ pc = "d" => Recent(ins.s1, 2) /\ Recent(ins.s2, 2)
        /\ pc = "exec" => /\ r_map[ins.s1] # None
                          /\ r_map[ins.s2] # None
                          /\ r_map[ins.d] # None

-----------------------------------------------------------------------------
(* Registers that are not fixed have different ticks, so more of them than  *)
(* k have not all been used within the last k ticks.                        *)
LEMMA TooManyForTicks ==
    ASSUME IInv, NEW k \in Nat, NumFixed + k + 1 <= NumNative, Free = {},
           \A h \in Evictable : gp_use[h] >= tick_ - k
    PROVE  FALSE
<1>1. /\ IsFiniteSet(FixedRegs) /\ Cardinality(FixedRegs) \in Nat
      /\ Cardinality(FixedRegs) <= NumFixed /\ NumFixed \in Nat
  BY FixedFew
<1>2. IsFiniteSet(Native) /\ Cardinality(Native) = NumNative
  BY RegAllocAssumption, FS_Interval DEF Native
<1>3. Native \subseteq Evictable \cup FixedRegs
  <2>1. ASSUME NEW gp \in Native, gp \notin FixedRegs PROVE gp \in Evictable
    <3>1. gp_use[gp] # Fixed
      BY <2>1 DEF IInv, FixedExactly, FixedRegs
    <3>2. gp_use[gp] # None
      BY DEF Free
    <3>3. QED BY <3>1, <3>2 DEF IInv, TypeOK, Evictable, Fixed, None
  <2>2. QED BY <2>1
<1>4. /\ IsFiniteSet(tick_ - k .. tick_ - 1)
      /\ Cardinality(tick_ - k .. tick_ - 1) = k
  <2>1. tick_ - k \in Int /\ tick_ - 1 \in Int
    BY DEF IInv, TypeOK
  <2>2. /\ IsFiniteSet(tick_ - k .. tick_ - 1)
        /\ Cardinality(tick_ - k .. tick_ - 1)
           = IF tick_ - k > tick_ - 1 THEN 0 ELSE tick_ - 1 - (tick_ - k) + 1
    BY <2>1, FS_Interval
  <2>3. QED BY <2>2 DEF IInv, TypeOK
<1>5. IsFiniteSet(Evictable) /\ Cardinality(Evictable) <= k
  <2> DEFINE use == [h \in Evictable |-> gp_use[h]]
  <2>1. \A h \in Evictable : gp_use[h] \in tick_ - k .. tick_ - 1
    BY DEF IInv, TypeOK, TicksOrdered, Evictable, Fixed, None
  <2>2. \A g, h \in Evictable : gp_use[g] = gp_use[h] => g = h
    BY DEF IInv, TicksOrdered, Evictable
  <2>3. use \in Injection(Evictable, tick_ - k .. tick_ - 1)
    BY <2>1, <2>2 DEF Injection, IsInjective
  <2>4. QED BY <1>4, <2>3, FS_Injection
<1>6. /\ IsFiniteSet(Evictable \cup FixedRegs)
      /\ Cardinality(Evictable \cup FixedRegs)
         = Cardinality(Evictable) + Cardinality(FixedRegs)
           - Cardinality(Evictable \cap FixedRegs)
  BY <1>1, <1>5, FS_Union
<1>7. /\ Cardinality(Evictable \cap FixedRegs) \in Nat
      /\ Cardinality(Evictable) \in Nat
  BY <1>1, <1>5, FS_Intersection, FS_CardinalityType
<1>8. /\ Cardinality(Native) <= Cardinality(Evictable \cup FixedRegs)
      /\ Cardinality(Evictable \cup FixedRegs) \in Nat
  BY <1>3, <1>6, FS_Subset, FS_CardinalityType
<1>9. QED BY <1>1, <1>2, <1>5, <1>6, <1>7, <1>8, RegAllocAssumption

(* The register found is none of the k used last, if there are more than k  *)
(* to choose from.                                                          *)
LEMMA NotVictim ==
    ASSUME IInv, NEW k \in Nat, NumFixed + k + 1 <= NumNative,
           NEW r \in Virtual, Recent(r, k)
    PROVE  find_native_register # r_map[r]
<1> DEFINE g == r_map[r]
<1>1. /\ g \in Native /\ gp_map[g] = r /\ r # None
  BY DEF IInv, TypeOK, MapsInverse, Recent, None, Virtual
<1>2. SUFFICES ASSUME find_native_register = g PROVE FALSE
  OBVIOUS
<1>3. gp_use[g] # Fixed /\ gp_use[g] \in Nat \cup {None} /\ gp_use[g] # None
  BY <1>1, <1>2, Victim DEF IInv, TypeOK, TicksOrdered
<1>4. g \in Evictable /\ g \notin Free
  BY <1>1, <1>3 DEF Evictable, Free, Fixed, None
<1>5. Free = {}
  <2>1. SUFFICES ASSUME Free # {} PROVE FALSE
    OBVIOUS
  <2>2. Free \subseteq 0 .. NumNative - 1 /\ NumNative \in Nat
    BY RegAllocAssumption DEF Free, Native
  <2>3. \E gp \in Free : \A h \in Free : h <= gp
    BY <2>1, <2>2, GreatestBelow
  <2>4. find_native_register \in Free
    BY <2>1, <2>3 DEF find_native_register
  <2>5. QED BY <1>2, <1>4, <2>4
<1>6. \A h \in Evictable : gp_use[h] \in Nat /\ gp_use[g] <= gp_use[h]
  <2>1. \A h \in Evictable : \/ gp_use[g] < gp_use[h]
                             \/ gp_use[g] = gp_use[h] /\ h <= g
    BY <1>2, <1>4, <1>5, LeastEvictable DEF find_native_register
  <2>2. \A h \in Evictable : gp_use[h] \in Nat
    BY DEF IInv, TypeOK, Evictable, Fixed, None
  <2>3. QED BY <1>4, <2>1, <2>2
<1>7. tick_ \in Nat /\ gp_use[g] \in Nat /\ gp_use[g] >= tick_ - k
  BY <1>3 DEF IInv, TypeOK, Recent
<1>8. \A h \in Evictable : gp_use[h] >= tick_ - k
  BY <1>6, <1>7
<1>9. QED BY <1>5, <1>8, TooManyForTicks

(* What is asked for is the register used last.                             *)
LEMMA Asked ==
    ASSUME IInv, NEW q \in Virtual, ensure_mapped(q) \/ ensure_loaded(q)
    PROVE  Recent(q, 1)'
<1>1. tick_ \in Nat
  BY DEF IInv, TypeOK
<1>2. CASE r_map[q] = None
  <2> DEFINE g == find_native_register
  <2>1. map_virtual_reg(q, g)
    BY <1>2 DEF ensure_mapped, ensure_loaded, MapNew
  <2>2. g \in Native
    BY Victim
  <2> HIDE DEF g
  <2>3. r_map'[q] = g /\ gp_use'[g] = tick_ /\ tick_' = tick_ + 1
    BY <2>1, <2>2 DEF map_virtual_reg, IInv, TypeOK
  <2>4. g # None
    BY <2>2 DEF Native, None
  <2>5. QED BY <1>1, <2>3, <2>4 DEF Recent
<1>3. CASE r_map[q] # None
  <2>1. Touch(q)
    BY <1>3 DEF ensure_mapped, ensure_loaded
  <2>2. r_map[q] \in Native /\ r_map' = r_map
    BY <1>3, <2>1 DEF Touch, IInv, TypeOK
  <2>3. CASE gp_use[r_map[q]] = Fixed
    BY <1>3, <2>1, <2>2, <2>3 DEF Touch, Recent
  <2>4. CASE gp_use[r_map[q]] # Fixed
    <3>1. gp_use'[r_map[q]] = tick_ /\ tick_' = tick_ + 1
      BY <2>1, <2>2, <2>4 DEF Touch, IInv, TypeOK
    <3>2. QED BY <1>1, <1>3, <2>2, <3>1 DEF Recent
  <2>5. QED BY <2>3, <2>4
<1>4. QED BY <1>2, <1>3

(* Asking for another register makes one of the last two older by one, and  *)
(* leaves it where it is.                                                   *)
LEMMA StaysRecent ==
    ASSUME IInv, NEW q \in Virtual, ensure_mapped(q) \/ ensure_loaded(q),
           NEW k \in Nat, NumFixed + k + 1 <= NumNative,
           NEW r \in Virtual, Recent(r, k)
    PROVE  Recent(r, k + 1)' /\ r_map'[r] = r_map[r]
<1>1. /\ tick_ \in Nat /\ r_map[r] \in Native /\ r_map[r] # None
      /\ gp_use[r_map[r]] \in Nat \cup {None}
  BY DEF IInv, TypeOK, Recent
<1>2. CASE r_map[q] = None
  <2> DEFINE g == find_native_register
  <2>1. map_virtual_reg(q, g)
    BY <1>2 DEF ensure_mapped, ensure_loaded, MapNew
  <2>2. g \in Native
    BY Victim
  <2>3. g # r_map[r]
    BY NotVictim
  <2>4. gp_map[g] # r
    BY <2>2, <2>3 DEF IInv, MapsInverse
  <2> HIDE DEF g
  <2>5. r # q /\ r_map'[r] = r_map[r]
    BY <1>1, <1>2, <2>1, <2>4 DEF map_virtual_reg
  <2>6. gp_use'[r_map[r]] = gp_use[r_map[r]] /\ tick_' = tick_ + 1
    BY <1>1, <2>1, <2>2, <2>3 DEF map_virtual_reg, IInv, TypeOK
  <2>7. QED BY <1>1, <2>5, <2>6 DEF Recent, None
<1>3. CASE r_map[q] # None
  <2>1. Touch(q) /\ r_map' = r_map
    BY <1>3 DEF ensure_mapped, ensure_loaded, Touch
  <2>2. r_map[q] \in Native
    BY <1>3 DEF IInv, TypeOK
  <2>3. CASE gp_use[r_map[q]] = Fixed
    BY <1>1, <2>1, <2>3 DEF Touch, Recent, None
  <2>4. CASE gp_use[r_map[q]] # Fixed
    <3>1. /\ gp_use'[r_map[r]] = IF r_map[r] = r_map[q] THEN tick_
                                 ELSE gp_use[r_map[r]]
          /\ tick_' = tick_ + 1
      BY <1>1, <2>1, <2>2, <2>4 DEF Touch, IInv, TypeOK
    <3>2. QED BY <1>1, <2>1, <3>1 DEF Recent, None
  <2>5. QED BY <2>3, <2>4
<1>4. QED BY <1>2, <1>3

(* Of any allocator that holds for the last two.                            *)
LEMMA LastTwoStay ==
    ASSUME IInv, NEW q \in Virtual, ensure_mapped(q) \/ ensure_loaded(q),
           NEW r \in Virtual, NEW k \in 1 .. 2, Recent(r, k)
    PROVE  Recent(r, k + 1)' /\ r_map'[r] = r_map[r]
<1>1. NumFixed + k + 1 <= NumNative
  BY FixedFew, RegAllocAssumption
<1>2. QED BY <1>1, StaysRecent

-----------------------------------------------------------------------------
(* Words stay words.                                                        *)
LEMMA PlusType ==
    ASSUME NEW x \in Word, NEW y \in Word
    PROVE  Plus(x, y) \in Word
<1>1. WordSize \in Nat \ {0} /\ x + y \in Nat
  BY RegAllocAssumption DEF Word
<1>2. (x + y) % WordSize \in 0 .. WordSize - 1
  BY <1>1
<1>3. QED BY <1>2 DEF Plus, Word

(* A move keeps the types of the native registers.                          *)
LEMMA MovType ==
    ASSUME NEW regs \in [Native -> Word], NEW dst \in Native, NEW src \in Native
    PROVE  mov_(regs, dst, src) \in [Native -> Word]
BY DEF mov_

(* So does an addition.                                                     *)
LEMMA AddType ==
    ASSUME NEW regs \in [Native -> Word], NEW dst \in Native, NEW src \in Native
    PROVE  add_(regs, dst, src) \in [Native -> Word]
<1>1. Plus(regs[dst], regs[src]) \in Word
  BY PlusType
<1>2. QED BY <1>1 DEF add_

(* Code changes no table.                                                   *)
LEMMA CodeKeeps ==
    ASSUME IInv, UNCHANGED <<tables, tmps, mem>>, gpr' \in [Native -> Word]
    PROVE  IInv'
BY DEF tables, IInv, TypeOK, MapsInverse, FixedExactly, FixedOwners,
       TicksOrdered, TmpRegs

(* What leaves the tables and temporaries alone keeps the invariant.        *)
LEMMA Idle ==
    ASSUME IInv, UNCHANGED allocVars
    PROVE  IInv'
BY NextIInv

(* The registers an instruction and the code on temporaries work on.        *)
LEMMA TmpNative ==
    ASSUME IInv, NEW i \in DOMAIN tmps
    PROVE  /\ tmps[i] \in Native /\ tmps[i] \in TmpRegs
           /\ gp_map[tmps[i]] = None
<1>1. tmps[i] \in Native /\ tmps[i] \in TmpRegs
  BY DEF IInv, TypeOK, TmpRegs
<1>2. QED BY <1>1 DEF IInv, FixedOwners

(* A mapped register is in a native one, which knows it.                    *)
LEMMA Operand ==
    ASSUME IInv, NEW r \in Virtual, r_map[r] # None
    PROVE  r_map[r] \in Native /\ gp_map[r_map[r]] = r
BY DEF IInv, TypeOK, MapsInverse
-----------------------------------------------------------------------------
(* The code of the instruction in progress works on native registers.       *)
LEMMA ExecTyped ==
    ASSUME JInv, pc = "exec"
    PROVE  add \in [Native -> Word] /\ mov \in [Native -> Word]
<1>1. /\ gpr \in [Native -> Word]
      /\ ins.d \in Virtual /\ ins.s1 \in Virtual /\ ins.s2 \in Virtual
  BY DEF JInv, IInv, TypeOK, Ins
<1>2. /\ r_map[ins.d] \in Native /\ r_map[ins.s1] \in Native
      /\ r_map[ins.s2] \in Native
  BY <1>1, Operand DEF JInv
<1>3. mov \in [Native -> Word]
  BY <1>1, <1>2, MovType DEF mov
<1>4. mov_(gpr, r_map[ins.d], r_map[ins.s1]) \in [Native -> Word]
  BY <1>1, <1>2, MovType
<1>5. add \in [Native -> Word]
  BY <1>2, <1>4, AddType DEF add
<1>6. QED BY <1>3, <1>5

(* The invariant of the client holds initially.                             *)
LEMMA JInitInv == JInit => JInv
<1> SUFFICES ASSUME JInit PROVE JInv
  OBVIOUS
<1>1. IInv
  BY InitIInv DEF JInit
<1>2. 0 \in Virtual
  <2>1. PICK p \in Virtual : p \in Pinned
    BY RegAllocAssumption
  <2>2. NumVirtual \in Nat
    BY RegAllocAssumption
  <2>3. QED BY <2>1, <2>2 DEF Virtual
<1>3. QED BY <1>1, <1>2 DEF JInit, JInv, Ins

(* Every step of the client keeps its operands where they are.              *)
LEMMA JNextInv == JInv /\ [JNext]_vars => JInv'
<1> SUFFICES ASSUME JInv, [JNext]_vars PROVE JInv'
  OBVIOUS
<1>1. /\ IInv /\ tick_ \in Nat /\ pc \in {"idle", "s1", "s2", "d", "exec"}
      /\ ins \in Ins /\ ins.op \in {"add", "mov"}
      /\ ins.d \in Virtual /\ ins.s1 \in Virtual /\ ins.s2 \in Virtual
  BY DEF JInv, IInv, TypeOK, Ins
<1>2. ASSUME NEW d \in Virtual, NEW s1 \in Virtual, NEW s2 \in Virtual,
             StartAdd(d, s1, s2)
      PROVE  JInv'
  <2>1. IInv'
    BY <1>1, <1>2, Idle DEF StartAdd
  <2>2. /\ pc' = "s1" /\ ins' \in Ins /\ ins'.op = "add"
        /\ ins'.d = ins'.s2 => ins'.d = ins'.s1
    BY <1>2 DEF StartAdd, Ins
  <2>3. QED BY <2>1, <2>2 DEF JInv
<1>3. ASSUME NEW d \in Virtual, NEW s \in Virtual, StartMov(d, s)
      PROVE  JInv'
  <2>1. IInv'
    BY <1>1, <1>3, Idle DEF StartMov
  <2>2. /\ pc' = "s1" /\ ins' \in Ins /\ ins'.op = "mov"
        /\ ins'.s1 = ins'.s2
    BY <1>3 DEF StartMov, Ins
  <2>3. QED BY <2>1, <2>2 DEF JInv
<1>4. CASE LoadS1
  <2>1. PICK q \in Virtual : q = ins.s1
    BY <1>1
  <2>2. ensure_loaded(q) /\ UNCHANGED ins
    BY <1>4, <2>1 DEF LoadS1
  <2>3. IInv' /\ tick_' \in Nat
    <3>1. Next
      BY <2>2 DEF Next
    <3>2. QED BY <1>1, <3>1, NextIInv DEF IInv, TypeOK
  <2>4. Recent(q, 1)'
    BY <1>1, <2>2, Asked
  <2>5. Recent(q, 2)'
    <3>1. IInv' => gp_use'[r_map'[q]] \in Nat \cup {None} \/ r_map'[q] = None
      BY DEF IInv, TypeOK
    <3>2. QED BY <2>3, <2>4, <3>1 DEF Recent, None
  <2>6. CASE ins.op = "add"
    <3>1. pc' = "s2"
      BY <1>4, <2>6 DEF LoadS1
    <3>2. QED BY <1>1, <2>1, <2>2, <2>3, <2>4, <2>6, <3>1 DEF JInv
  <2>7. CASE ins.op = "mov"
    <3>1. pc' = "d" /\ ins.s2 = q
      BY <1>4, <2>1, <2>7 DEF LoadS1, JInv
    <3>2. QED BY <1>1, <2>1, <2>2, <2>3, <2>5, <2>7, <3>1 DEF JInv
  <2>8. QED BY <1>1, <2>6, <2>7
<1>5. CASE LoadS2
  <2>1. PICK q \in Virtual, r \in Virtual : q = ins.s2 /\ r = ins.s1
    BY <1>1
  <2>2. /\ ensure_loaded(q) /\ UNCHANGED ins /\ pc = "s2" /\ pc' = "d"
        /\ ins.op = "add" /\ Recent(r, 1)
    BY <1>5, <2>1 DEF LoadS2, JInv
  <2>3. IInv' /\ tick_' \in Nat
    <3>1. Next
      BY <2>2 DEF Next
    <3>2. QED BY <1>1, <3>1, NextIInv DEF IInv, TypeOK
  <2>4. Recent(q, 2)'
    <3>1. Recent(q, 1)'
      BY <1>1, <2>2, Asked
    <3>2. IInv' => gp_use'[r_map'[q]] \in Nat \cup {None} \/ r_map'[q] = None
      BY DEF IInv, TypeOK
    <3>3. QED BY <2>3, <3>1, <3>2 DEF Recent, None
  <2>5. Recent(r, 2)'
    <3>1. Recent(r, 1 + 1)'
      BY <1>1, <2>2, LastTwoStay
    <3>2. QED BY <3>1
  <2>6. QED BY <1>1, <2>1, <2>2, <2>3, <2>4, <2>5 DEF JInv
<1>6. CASE MapD
  <2>1. PICK q \in Virtual, r \in Virtual, s \in Virtual :
            q = ins.d /\ r = ins.s1 /\ s = ins.s2
    BY <1>1
  <2>2. /\ ensure_mapped(q) /\ UNCHANGED ins /\ pc' = "exec"
        /\ Recent(r, 2) /\ Recent(s, 2)
    BY <1>6, <2>1 DEF MapD, JInv
  <2>3. IInv'
    <3>1. Next
      BY <2>2 DEF Next
    <3>2. QED BY <1>1, <3>1, NextIInv
  <2>4. r_map'[q] # None
    BY <1>1, <2>2, Asked DEF Recent
  <2>5. r_map'[r] # None /\ r_map'[s] # None
    BY <1>1, <2>2, LastTwoStay DEF Recent
  <2>6. QED BY <1>1, <2>1, <2>2, <2>3, <2>4, <2>5 DEF JInv
<1>7. CASE Exec
  <2>1. gpr' \in [Native -> Word] /\ UNCHANGED <<tables, tmps, mem>>
    BY <1>7, ExecTyped DEF Exec
  <2>2. IInv'
    BY <1>1, <2>1, CodeKeeps
  <2>3. QED BY <1>1, <1>7, <2>2 DEF Exec, JInv
<1>8. CASE NewTmp
  <2>1. IInv'
    BY <1>1, <1>8, Allocating DEF NewTmp
  <2>2. QED BY <1>1, <1>8, <2>1 DEF NewTmp, JInv
<1>9. CASE DropTmp
  <2>1. IInv'
    BY <1>1, <1>9, Releasing DEF DropTmp
  <2>2. QED BY <1>1, <1>9, <2>1 DEF DropTmp, JInv
<1>10. ASSUME NEW i \in DOMAIN tmps, NEW r \in Virtual,
              MovToTmp(i, r) \/ AddToTmp(i, r) \/ MovFromTmp(r, i)
       PROVE  JInv'
  <2>1. /\ pc = "idle" /\ UNCHANGED <<pc, ins>> /\ r_map[r] # None
        /\ UNCHANGED <<tables, tmps, mem>>
    BY <1>10 DEF MovToTmp, AddToTmp, MovFromTmp, TmpCode
  <2>2. tmps[i] \in Native /\ r_map[r] \in Native /\ gpr \in [Native -> Word]
    BY <1>1, <2>1, TmpNative, Operand DEF IInv, TypeOK
  <2>3. gpr' \in [Native -> Word]
    BY <1>10, <2>2, MovType, AddType
       DEF MovToTmp, AddToTmp, MovFromTmp, TmpCode
  <2>4. IInv'
    BY <1>1, <2>1, <2>3, CodeKeeps
  <2>5. QED BY <1>1, <2>1, <2>4 DEF JInv
<1>11. CASE UNCHANGED vars
  <2>1. UNCHANGED allocVars /\ UNCHANGED <<pc, ins>>
    BY <1>11 DEF vars, allocVars
  <2>2. IInv'
    BY <1>1, <2>1, Idle
  <2>3. QED BY <1>1, <2>1, <2>2 DEF JInv, Recent, allocVars
<1>12. QED
  BY <1>2, <1>3, <1>4, <1>5, <1>6, <1>7, <1>8, <1>9, <1>10, <1>11 DEF JNext

(* What the client and the allocator may rely on between any two steps.    *)
THEOREM ClientConsistent == JSpec => []JInv
<1>1. QED BY JInitInv, JNextInv, PTL DEF JSpec

(* The client's state and the allocator's stay within their ranges.        *)
THEOREM JTypeCorrect == JSpec => []JTypeOK
<1>1. JInv => JTypeOK
  BY DEF JInv, IInv, JTypeOK
<1>2. QED BY <1>1, ClientConsistent, PTL

(* When the code of an instruction is emitted every operand is in a native  *)
(* register, and stays there from the moment it was asked for: the search   *)
(* for a register for one operand never evicts another.                     *)
THEOREM OperandsAlwaysResident == JSpec => []OperandsResident
<1>1. JInv => OperandsResident
  BY DEF JInv, OperandsResident, Recent
<1>2. QED BY <1>1, ClientConsistent, PTL
-----------------------------------------------------------------------------
(* The refinement mapping, with names: Machine is VRegMachine on these.     *)
VReg == [r \in Virtual |-> IF pc = "exec" /\ r = ins.d THEN result
                           ELSE value(r)]
TmpVals == [i \in DOMAIN tmps |-> gpr[tmps[i]]]

(* The value of a virtual register is a word, wherever it is.               *)
LEMMA ValueType ==
    ASSUME IInv, NEW r \in Virtual
    PROVE  value(r) \in Word
BY DEF value, IInv, TypeOK

(* What the registers of a sequence hold is a sequence as long.             *)
LEMMA Contents ==
    ASSUME NEW t \in Seq(Native), NEW g \in [Native -> Word], NEW c,
           c = [i \in DOMAIN t |-> g[t[i]]]
    PROVE  /\ c \in Seq(Word) /\ Len(c) = Len(t) /\ Len(t) \in Nat
           /\ DOMAIN c = 1 .. Len(t) /\ DOMAIN t = 1 .. Len(t)
<1>1. Len(t) \in Nat /\ DOMAIN t = 1 .. Len(t)
  OBVIOUS
<1>2. \A i \in 1 .. Len(t) : g[t[i]] \in Word
  BY <1>1
<1>3. QED BY <1>1, <1>2

(* The values of the temporaries are words, one for each temporary.         *)
LEMMA TmpValsType ==
    ASSUME IInv
    PROVE  /\ TmpVals \in Seq(Word) /\ Len(TmpVals) = Len(tmps)
           /\ DOMAIN TmpVals = 1 .. Len(tmps) /\ Len(tmps) \in Nat
BY Contents DEF TmpVals, IInv, TypeOK

(* The same after a step.                                                   *)
LEMMA TmpValsTypeNext ==
    ASSUME IInv'
    PROVE  /\ TmpVals' \in Seq(Word) /\ Len(TmpVals') = Len(tmps')
           /\ DOMAIN TmpVals' = 1 .. Len(tmps') /\ Len(tmps') \in Nat
BY Contents DEF TmpVals, IInv, TypeOK

(* The machine starts where the client starts.                             *)
LEMMA MInit == JInit => Machine!Init
<1> SUFFICES ASSUME JInit PROVE Machine!Init
  OBVIOUS
<1>1. IInv /\ JInv
  BY JInitInv DEF JInv
<1>2. VReg \in [Virtual -> Word]
  BY <1>1, ValueType DEF JInit, VReg
<1>3. TmpVals = << >>
  <2>1. Len(TmpVals) = 0 /\ TmpVals \in Seq(Word)
    BY <1>1, TmpValsType DEF JInit, Init
  <2>2. QED BY <2>1
<1>4. ins \in Ins /\ phase = "idle"
  BY <1>1 DEF JInv, JInit, phase
<1>5. QED
  BY <1>2, <1>3, <1>4
     DEF Machine!Init, Machine!Virtual, Machine!Word, Machine!Ins, VReg, TmpVals,
         Virtual, Word, Ins

(* Starting an instruction issues it.                                      *)
LEMMA MIssue ==
    ASSUME JInv, JInv', pc = "idle", pc' = "s1", UNCHANGED allocVars
    PROVE  Machine!Issue
<1>1. VReg' = VReg /\ TmpVals' = TmpVals
  BY DEF VReg, TmpVals, value, allocVars
<1>2. phase = "idle" /\ phase' = "issued" /\ ins' \in Ins
  BY DEF phase, JInv
<1>3. QED
  BY <1>1, <1>2
     DEF Machine!Issue, Machine!Ins, Machine!Virtual, VReg, TmpVals, Ins, Virtual

(* Asking for an operand changes nothing the machine has.                   *)
LEMMA MLoad ==
    ASSUME JInv, NEW q \in Virtual, ensure_loaded(q), UNCHANGED ins,
           pc \in {"s1", "s2"}, pc' \in {"s2", "d"}
    PROVE  UNCHANGED Machine!vars
<1>1. IInv
  BY DEF JInv
<1>2. \A r \in Virtual : value(r)' = value(r)
  BY <1>1, LoadingKeeps
<1>3. VReg' = VReg
  BY <1>2 DEF VReg
<1>4. TmpVals' = TmpVals
  <2>1. CASE r_map[q] # None
    BY <2>1 DEF ensure_loaded, TmpVals
  <2>2. CASE r_map[q] = None
    <3>1. gpr' = [gpr EXCEPT ![find_native_register] = mem[q]] /\ tmps' = tmps
      BY <2>2 DEF ensure_loaded
    <3>2. \A i \in DOMAIN tmps : tmps[i] # find_native_register
      BY <1>1, Victim DEF TmpRegs
    <3>3. \A i \in DOMAIN tmps : gpr'[tmps[i]] = gpr[tmps[i]]
      BY <1>1, <3>1, <3>2, TmpNative DEF IInv, TypeOK
    <3>4. QED BY <3>1, <3>3 DEF TmpVals
  <2>3. QED BY <2>1, <2>2
<1>5. phase' = phase
  BY DEF phase
<1>6. QED BY <1>3, <1>4, <1>5 DEF Machine!vars, VReg, TmpVals
(* Mapping the destination performs the instruction: from there on its old  *)
(* value is not needed, and the operands stay in their registers.           *)
LEMMA MPerform ==
    ASSUME JInv, MapD
    PROVE  Machine!Perform
<1>1. PICK d \in Virtual, a \in Virtual, b \in Virtual :
          d = ins.d /\ a = ins.s1 /\ b = ins.s2
  BY DEF JInv, Ins
<1>2. /\ IInv /\ ensure_mapped(d) /\ pc = "d" /\ pc' = "exec" /\ ins' = ins
      /\ gpr' = gpr /\ tmps' = tmps /\ Recent(a, 2) /\ Recent(b, 2)
  BY <1>1 DEF JInv, MapD, ensure_mapped
<1>3. /\ r_map'[a] = r_map[a] /\ r_map'[b] = r_map[b]
      /\ r_map[a] # None /\ r_map[b] # None
  BY <1>2, LastTwoStay DEF Recent
<1>4. value(a) = gpr[r_map[a]] /\ value(b) = gpr[r_map[b]]
  BY <1>3 DEF value
<1> DEFINE new == IF ins.op = "add" THEN Plus(VReg[a], VReg[b]) ELSE VReg[a]
<1>5. VReg[a] = value(a) /\ VReg[b] = value(b)
  BY <1>2 DEF VReg
<1>6. result' = new
  BY <1>1, <1>2, <1>3, <1>4, <1>5 DEF result, Plus
<1>7. VReg' = [VReg EXCEPT ![d] = new]
  <2>1. ASSUME NEW r \in Virtual, r # d
        PROVE  value(r)' = VReg[r]
    BY <1>2, <2>1, MappingKeeps DEF VReg
  <2> HIDE DEF new
  <2>2. VReg' = [r \in Virtual |-> IF r = d THEN new ELSE value(r)']
    BY <1>1, <1>2, <1>6 DEF VReg
  <2>3. DOMAIN VReg = Virtual
    BY DEF VReg
  <2>4. [VReg EXCEPT ![d] = new]
        = [r \in Virtual |-> IF r = d THEN new ELSE VReg[r]]
    BY <2>3
  <2>5. QED BY <2>1, <2>2, <2>4
<1>8. TmpVals' = TmpVals /\ phase = "issued" /\ phase' = "performed"
  BY <1>2 DEF TmpVals, phase
<1>9. QED
  BY <1>1, <1>2, <1>7, <1>8
     DEF Machine!Perform, Machine!Plus, Plus, VReg, TmpVals

(* The code emitted for the instruction computes what it was performed for, *)
(* also when operands are the same register.                                *)
LEMMA Computes ==
    ASSUME JInv, Exec
    PROVE  gpr' = [gpr EXCEPT ![r_map[ins.d]] = result]
<1> DEFINE d == r_map[ins.d]
           a == r_map[ins.s1]
           b == r_map[ins.s2]
<1>1. /\ ins.d \in Virtual /\ ins.s1 \in Virtual /\ ins.s2 \in Virtual
      /\ IInv /\ pc = "exec" /\ gpr \in [Native -> Word]
  BY DEF JInv, Ins, Exec, IInv, TypeOK
<1>2. /\ d \in Native /\ a \in Native /\ b \in Native
      /\ gp_map[d] = ins.d /\ gp_map[b] = ins.s2
  BY <1>1, Operand DEF JInv
<1>3. CASE ins.op = "add"
  <2>1. gpr' = add_([gpr EXCEPT ![d] = gpr[a]], d, b) /\ result = Plus(gpr[a], gpr[b])
    BY <1>3 DEF Exec, add, mov_, result
  <2>2. d = b => a = d
    BY <1>2, <1>3 DEF JInv
  <2>3. [gpr EXCEPT ![d] = gpr[a]][b] = gpr[b] /\ [gpr EXCEPT ![d] = gpr[a]][d] = gpr[a]
    BY <1>1, <1>2, <2>2
  <2>4. QED BY <1>1, <1>2, <2>1, <2>3 DEF add_
<1>4. CASE ins.op = "mov"
  BY <1>4 DEF Exec, mov, mov_, result
<1>5. QED BY <1>3, <1>4 DEF JInv, Ins

(* The code of an instruction, once emitted, retires it.                    *)
LEMMA MRetire ==
    ASSUME JInv, Exec
    PROVE  Machine!Retire
<1>1. /\ ins.d \in Virtual /\ IInv /\ gpr \in [Native -> Word]
      /\ pc = "exec" /\ pc' = "idle" /\ UNCHANGED <<r_map, mem, tmps, ins>>
      /\ r_map[ins.d] # None
  BY DEF JInv, Ins, IInv, TypeOK, Exec, tables
<1> DEFINE d == r_map[ins.d]
<1>2. /\ d \in Native /\ gp_map[d] = ins.d
      /\ gpr' = [gpr EXCEPT ![d] = result]
  BY <1>1, Operand, Computes
<1> HIDE DEF d
<1>3. ASSUME NEW r \in Virtual PROVE VReg'[r] = VReg[r]
  <2>1. VReg'[r] = IF r_map[r] = None THEN mem[r] ELSE gpr'[r_map[r]]
    BY <1>1 DEF VReg, value
  <2>2. CASE r = ins.d
    BY <1>1, <1>2, <2>1, <2>2 DEF VReg, d
  <2>3. CASE r # ins.d
    <3>1. r_map[r] # None => r_map[r] \in Native /\ r_map[r] # d
      BY <1>1, <1>2, <2>3, Operand
    <3>2. VReg[r] = value(r)
      BY <2>3 DEF VReg
    <3>3. QED BY <1>1, <1>2, <2>1, <3>1, <3>2 DEF value
  <2>4. QED BY <2>2, <2>3
<1>4. VReg' = VReg
  BY <1>3 DEF VReg
<1>5. TmpVals' = TmpVals
  <2>1. \A i \in DOMAIN tmps : tmps[i] \in Native /\ tmps[i] # d
    BY <1>1, <1>2, TmpNative DEF None, Virtual
  <2>2. \A i \in DOMAIN tmps : gpr'[tmps[i]] = gpr[tmps[i]]
    BY <1>1, <1>2, <2>1
  <2>3. QED BY <1>1, <2>2 DEF TmpVals
<1>6. phase = "performed" /\ phase' = "idle"
  BY <1>1 DEF phase
<1>7. QED BY <1>1, <1>4, <1>5, <1>6 DEF Machine!Retire, VReg, TmpVals
(* A temporary holds some word when it is made.                            *)
LEMMA MNewTmp ==
    ASSUME JInv, JInv', NewTmp
    PROVE  Machine!NewTmp
<1> DEFINE g == find_native_register
           n == Len(tmps)
<1>1. /\ IInv /\ IInv' /\ pc = "idle" /\ pc' = "idle" /\ ins' = ins
      /\ alloc_native_register /\ gpr' = gpr /\ tmps' = Append(tmps, g)
      /\ n < MaxTmps
  BY DEF JInv, NewTmp, alloc_native_register
<1>2. VReg' = VReg
  <2>1. \A r \in Virtual : value(r)' = value(r)
    BY <1>1, AllocatingKeeps
  <2>2. QED BY <1>1, <2>1 DEF VReg
<1>3. g \in Native /\ gpr[g] \in Word
  BY <1>1, Victim DEF IInv, TypeOK
<1>4. TmpVals' = Append(TmpVals, gpr[g])
  <2> HIDE DEF g
  <2>1. /\ TmpVals \in Seq(Word) /\ Len(TmpVals) = n /\ n \in Nat
        /\ DOMAIN TmpVals = 1 .. n /\ DOMAIN tmps = 1 .. n
        /\ tmps \in Seq(Native)
    BY <1>1, TmpValsType DEF TmpVals, IInv, TypeOK
  <2>2. /\ TmpVals' \in Seq(Word) /\ Len(TmpVals') = n + 1
        /\ DOMAIN TmpVals' = 1 .. n + 1
    <3>1. Len(tmps') = n + 1
      BY <1>1, <1>3, <2>1
    <3>2. QED BY <1>1, <3>1, TmpValsTypeNext
  <2>3. ASSUME NEW i \in 1 .. n + 1
        PROVE  TmpVals'[i] = IF i = n + 1 THEN gpr[g] ELSE TmpVals[i]
    <3>1. TmpVals'[i] = gpr[tmps'[i]]
      BY <1>1, <2>2, <2>3 DEF TmpVals
    <3>2. tmps'[i] = IF i = n + 1 THEN g ELSE tmps[i]
      BY <1>1, <1>3, <2>1, <2>3
    <3>3. i # n + 1 => TmpVals[i] = gpr[tmps[i]]
      BY <2>1, <2>3 DEF TmpVals
    <3>4. QED BY <3>1, <3>2, <3>3
  <2> HIDE DEF n
  <2>4. QED BY <1>3, <2>1, <2>2, <2>3
<1>5. Len(TmpVals) < MaxTmps /\ phase = "idle" /\ phase' = "idle"
  BY <1>1, TmpValsType DEF phase
<1>6. QED
  BY <1>1, <1>2, <1>3, <1>4, <1>5
     DEF Machine!NewTmp, Machine!Word, Word, VReg, TmpVals

(* The end of a temporary is one of the machine.                            *)
LEMMA MDropTmp ==
    ASSUME JInv, JInv', DropTmp
    PROVE  Machine!DropTmp
<1> DEFINE n == Len(tmps)
<1>1. /\ IInv /\ IInv' /\ pc = "idle" /\ pc' = "idle" /\ ins' = ins
      /\ UNCHANGED <<r_map, gpr, mem>> /\ tmps # << >>
      /\ tmps' = SubSeq(tmps, 1, n - 1)
  BY DEF JInv, DropTmp, release_native_register
<1>2. VReg' = VReg
  BY <1>1 DEF VReg, value
<1>3. /\ TmpVals \in Seq(Word) /\ Len(TmpVals) = n /\ n \in Nat
      /\ DOMAIN TmpVals = 1 .. n /\ DOMAIN tmps = 1 .. n
      /\ tmps \in Seq(Native) /\ n > 0
  BY <1>1, TmpValsType DEF TmpVals, IInv, TypeOK
<1>4. TmpVals' = SubSeq(TmpVals, 1, Len(TmpVals) - 1) /\ TmpVals # << >>
  <2>1. Len(tmps') = n - 1 /\ \A i \in 1 .. n - 1 : tmps'[i] = tmps[i]
    BY <1>1, <1>3
  <2>2. /\ TmpVals' \in Seq(Word) /\ Len(TmpVals') = n - 1
        /\ DOMAIN TmpVals' = 1 .. n - 1
    BY <1>1, <2>1, TmpValsTypeNext
  <2>3. \A i \in 1 .. n - 1 : TmpVals'[i] = TmpVals[i]
    BY <1>1, <1>3, <2>1, <2>2 DEF TmpVals
  <2> HIDE DEF n
  <2>4. QED BY <1>3, <2>2, <2>3
<1>5. phase = "idle" /\ phase' = "idle"
  BY <1>1 DEF phase
<1>6. QED BY <1>1, <1>2, <1>4, <1>5 DEF Machine!DropTmp, VReg, TmpVals

(* Code on temporaries changes the one register it writes: a temporary is   *)
(* the home of no virtual register, and no two share one.                   *)
LEMMA MToTmp ==
    ASSUME JInv, NEW i \in DOMAIN tmps, NEW w \in Word, pc = "idle",
           UNCHANGED <<tables, tmps, mem, pc, ins>>,
           gpr' = [gpr EXCEPT ![tmps[i]] = w]
    PROVE  VReg' = VReg /\ TmpVals' = [TmpVals EXCEPT ![i] = w]
<1>1. /\ IInv /\ gpr \in [Native -> Word] /\ r_map' = r_map
      /\ tmps[i] \in Native /\ gp_map[tmps[i]] = None
  BY TmpNative DEF JInv, IInv, TypeOK, tables
<1>2. \A r \in Virtual : value(r)' = value(r)
  <2>1. ASSUME NEW r \in Virtual, r_map[r] # None
        PROVE  r_map[r] \in Native /\ r_map[r] # tmps[i]
    BY <1>1, <2>1, Operand DEF None, Virtual
  <2>2. QED BY <1>1, <2>1 DEF value
<1>3. \A j \in DOMAIN tmps : gpr'[tmps[j]] = IF j = i THEN w ELSE gpr[tmps[j]]
  <2>1. \A j \in DOMAIN tmps : tmps[j] \in Native /\ (tmps[j] = tmps[i] => j = i)
    BY <1>1, TmpNative DEF IInv, FixedOwners
  <2>2. QED BY <1>1, <2>1
<1>4. QED BY <1>2, <1>3 DEF VReg, TmpVals

(* A mapped register that is written changes, and nothing else does.        *)
LEMMA MFromTmp ==
    ASSUME JInv, NEW r \in Virtual, NEW w \in Word, pc = "idle", r_map[r] # None,
           UNCHANGED <<tables, tmps, mem, pc, ins>>,
           gpr' = [gpr EXCEPT ![r_map[r]] = w]
    PROVE  VReg' = [VReg EXCEPT ![r] = w] /\ TmpVals' = TmpVals
<1>1. /\ IInv /\ gpr \in [Native -> Word] /\ r_map' = r_map
      /\ r_map[r] \in Native /\ gp_map[r_map[r]] = r
  BY Operand DEF JInv, IInv, TypeOK, tables
<1>2. \A q \in Virtual : value(q)' = IF q = r THEN w ELSE value(q)
  <2>1. ASSUME NEW q \in Virtual, r_map[q] # None
        PROVE  r_map[q] \in Native /\ (r_map[q] = r_map[r] => q = r)
    BY <1>1, <2>1, Operand
  <2>2. QED BY <1>1, <2>1 DEF value
<1>3. \A j \in DOMAIN tmps : tmps[j] \in Native /\ tmps[j] # r_map[r]
  BY <1>1, TmpNative DEF None, Virtual
<1>4. TmpVals' = TmpVals
  BY <1>1, <1>3 DEF TmpVals
<1>5. VReg' = [VReg EXCEPT ![r] = w]
  BY <1>2 DEF VReg
<1>6. QED BY <1>4, <1>5

(* The operands of code on temporaries have the values the machine has.     *)
LEMMA TmpOperands ==
    ASSUME JInv, NEW i \in DOMAIN tmps, NEW r \in Virtual,
           MovToTmp(i, r) \/ AddToTmp(i, r) \/ MovFromTmp(r, i)
    PROVE  /\ IInv /\ pc = "idle" /\ r_map[r] # None
           /\ UNCHANGED <<tables, tmps, mem, pc, ins>>
           /\ phase = "idle" /\ phase' = "idle" /\ ins' = ins
           /\ gpr[tmps[i]] \in Word /\ gpr[r_map[r]] \in Word
           /\ VReg[r] = gpr[r_map[r]] /\ TmpVals[i] = gpr[tmps[i]]
           /\ i \in DOMAIN TmpVals /\ r \in Machine!Virtual
<1>1. /\ IInv /\ pc = "idle" /\ r_map[r] # None
      /\ UNCHANGED <<tables, tmps, mem, pc, ins>>
  BY DEF JInv, MovToTmp, AddToTmp, MovFromTmp, TmpCode
<1>2. /\ gpr[tmps[i]] \in Word /\ gpr[r_map[r]] \in Word
      /\ VReg[r] = gpr[r_map[r]] /\ TmpVals[i] = gpr[tmps[i]]
  BY <1>1, TmpNative, Operand DEF IInv, TypeOK, VReg, TmpVals, value
<1>3. phase = "idle" /\ phase' = "idle" /\ ins' = ins
  BY <1>1 DEF phase
<1>4. i \in DOMAIN TmpVals /\ r \in Machine!Virtual
  BY DEF TmpVals, Machine!Virtual, Virtual
<1>5. QED BY <1>1, <1>2, <1>3, <1>4

(* A move into a temporary is one of the machine.                           *)
LEMMA MMovToTmp ==
    ASSUME JInv, NEW i \in DOMAIN tmps, NEW r \in Virtual, MovToTmp(i, r)
    PROVE  Machine!MovToTmp(i, r) /\ VReg' = VReg
<1>1. gpr' = [gpr EXCEPT ![tmps[i]] = gpr[r_map[r]]]
  BY DEF MovToTmp, TmpCode, mov_
<1>2. VReg' = VReg /\ TmpVals' = [TmpVals EXCEPT ![i] = VReg[r]]
  BY <1>1, TmpOperands, MToTmp
<1>3. QED BY <1>2, TmpOperands DEF Machine!MovToTmp, VReg, TmpVals

(* So is an addition to a temporary,                                        *)
LEMMA MAddToTmp ==
    ASSUME JInv, NEW i \in DOMAIN tmps, NEW r \in Virtual, AddToTmp(i, r)
    PROVE  Machine!AddToTmp(i, r) /\ VReg' = VReg
<1> DEFINE w == Plus(gpr[tmps[i]], gpr[r_map[r]])
<1>1. gpr' = [gpr EXCEPT ![tmps[i]] = w] /\ w \in Word
  BY TmpOperands, PlusType DEF AddToTmp, TmpCode, add_
<1>2. w = Plus(TmpVals[i], VReg[r])
  BY TmpOperands
<1> HIDE DEF w
<1>3. VReg' = VReg /\ TmpVals' = [TmpVals EXCEPT ![i] = w]
  BY <1>1, TmpOperands, MToTmp
<1>4. QED
  BY <1>2, <1>3, TmpOperands
     DEF Machine!AddToTmp, Machine!Plus, Plus, VReg, TmpVals

(* and a move from a temporary.                                             *)
LEMMA MMovFromTmp ==
    ASSUME JInv, NEW i \in DOMAIN tmps, NEW r \in Virtual, MovFromTmp(r, i)
    PROVE  Machine!MovFromTmp(r, i) /\ VReg' = [VReg EXCEPT ![r] = TmpVals[i]]
<1>1. gpr' = [gpr EXCEPT ![r_map[r]] = gpr[tmps[i]]]
  BY DEF MovFromTmp, TmpCode, mov_
<1>2. VReg' = [VReg EXCEPT ![r] = TmpVals[i]] /\ TmpVals' = TmpVals
  BY <1>1, TmpOperands, MFromTmp
<1>3. QED BY <1>2, TmpOperands DEF Machine!MovFromTmp, VReg, TmpVals

(* Every step of the client is one of the machine, or changes nothing of it.*)
LEMMA MStep == JInv /\ JInv' /\ [JNext]_vars => [Machine!Next]_(Machine!vars)
<1> SUFFICES ASSUME JInv, JInv', [JNext]_vars
             PROVE  Machine!Next \/ UNCHANGED Machine!vars
  OBVIOUS
<1>1. ASSUME NEW d \in Virtual, NEW s1 \in Virtual, NEW s2 \in Virtual,
             StartAdd(d, s1, s2)
      PROVE  Machine!Next
  BY <1>1, MIssue DEF StartAdd, Machine!Next
<1>2. ASSUME NEW d \in Virtual, NEW s \in Virtual, StartMov(d, s)
      PROVE  Machine!Next
  BY <1>2, MIssue DEF StartMov, Machine!Next
<1>3. CASE LoadS1
  <2>1. PICK q \in Virtual : q = ins.s1
    BY DEF JInv, Ins
  <2>2. QED BY <1>3, <2>1, MLoad DEF LoadS1
<1>4. CASE LoadS2
  <2>1. PICK q \in Virtual : q = ins.s2
    BY DEF JInv, Ins
  <2>2. QED BY <1>4, <2>1, MLoad DEF LoadS2
<1>5. CASE MapD
  BY <1>5, MPerform DEF Machine!Next
<1>6. CASE Exec
  BY <1>6, MRetire DEF Machine!Next
<1>7. CASE NewTmp
  BY <1>7, MNewTmp DEF Machine!Next
<1>8. CASE DropTmp
  BY <1>8, MDropTmp DEF Machine!Next
<1>9. ASSUME NEW i \in DOMAIN tmps, NEW r \in Virtual,
             MovToTmp(i, r) \/ AddToTmp(i, r) \/ MovFromTmp(r, i)
      PROVE  Machine!Next
  BY <1>9, MMovToTmp, MAddToTmp, MMovFromTmp, TmpOperands
     DEF Machine!Next, TmpVals
<1>10. CASE UNCHANGED vars
  BY <1>10 DEF vars, Machine!vars, phase, value, result
<1>11. QED
  BY <1>1, <1>2, <1>3, <1>4, <1>5, <1>6, <1>7, <1>8, <1>9, <1>10 DEF JNext

(* The allocator is invisible to its client: for any number of registers    *)
(* and temporaries every sequence of instructions does on native registers, *)
(* with all evictions and reloads, what it does on virtual ones.            *)
THEOREM AllocationInvisible == JSpec => ImplementsVRegMachine
<1>1. JInit => Machine!Init
  BY MInit
<1>2. JInv /\ JInv' /\ [JNext]_vars => [Machine!Next]_(Machine!vars)
  BY MStep
<1>3. QED
  BY <1>1, <1>2, ClientConsistent, PTL
     DEF JSpec, ImplementsVRegMachine, Machine!Spec

-----------------------------------------------------------------------------
(* The test program.                                                        *)

(* The calls of the program, one by one.                                    *)
LEMMA Calls ==
    /\ Len(Program) = 21
    /\ Program[1] = <<"add", 0, 1, 2>> /\ Program[2] = <<"add", 2, 3, 4>>
    /\ Program[3] = <<"add", 4, 5, 6>> /\ Program[4] = <<"add", 6, 7, 8>>
    /\ Program[5] = <<"add", 8, 9, 10>> /\ Program[6] = <<"add", 10, 11, 12>>
    /\ Program[7] = <<"add", 12, 13, 14>>
    /\ Program[8] = <<"TmpAlloc">> /\ Program[9] = <<"TmpAlloc">>
    /\ Program[10] = <<"movToTmp", 1, 10>> /\ Program[11] = <<"addToTmp", 2, 12>>
    /\ Program[12] = <<"movFromTmp", 12, 2>>
    /\ Program[13] = <<"~TmpAlloc">> /\ Program[14] = <<"~TmpAlloc">>
    /\ Program[15] = <<"add", 1, 0, 2>> /\ Program[16] = <<"add", 3, 4, 6>>
    /\ Program[17] = <<"add", 5, 8, 10>> /\ Program[18] = <<"add", 7, 12, 15>>
    /\ Program[19] = <<"add", 2, 1, 3>> /\ Program[20] = <<"add", 4, 5, 7>>
    /\ Program[21] = <<"add", 0, 2, 4>>
BY DEF Program

(* The instruction a call of add makes.                                     *)
InsOf(c) == [op |-> "add", d |-> c[2], s1 |-> c[3], s2 |-> c[4]]
Adds == 1 .. 7 \cup 15 .. 21

(* A call of the program is a call of the client: it starts an instruction, *)
(* makes or drops a temporary, or is the code between them.                 *)
LEMMA CallCases ==
    ASSUME at \in Nat \ {0}, NextCall
    PROVE  /\ at \in 1 .. 21 /\ at' = at + 1
           /\ at \in Adds =>
                 StartAdd(Program[at][2], Program[at][3], Program[at][4])
           /\ at \in {8, 9} => NewTmp
           /\ at = 10 => MovToTmp(1, 10)
           /\ at = 11 => AddToTmp(2, 12)
           /\ at = 12 => MovFromTmp(12, 2)
           /\ at \in {13, 14} => DropTmp
<1>1. at \in 1 .. 21 /\ at' = at + 1 /\ Call(Program[at])
  BY Calls DEF NextCall
<1>2. at \in Adds => Program[at][1] = "add"
  BY Calls DEF Adds
<1>3. at \in Adds => StartAdd(Program[at][2], Program[at][3], Program[at][4])
  BY <1>1, <1>2 DEF Call
<1>4. ASSUME at \in {8, 9} PROVE NewTmp
  <2>1. Program[at][1] = "TmpAlloc"
    BY <1>4, Calls
  <2>2. QED BY <1>1, <2>1 DEF Call
<1>5. ASSUME at \in {13, 14} PROVE DropTmp
  <2>1. Program[at][1] = "~TmpAlloc"
    BY <1>5, Calls
  <2>2. QED BY <1>1, <2>1 DEF Call
<1>6. ASSUME at = 10 PROVE MovToTmp(1, 10)
  <2>1. Program[at][1] = "movToTmp" /\ Program[at][2] = 1 /\ Program[at][3] = 10
    BY <1>6, Calls
  <2>2. MovToTmp(Program[at][2], Program[at][3])
    BY <1>1, <2>1 DEF Call
  <2>3. QED BY <2>1, <2>2
<1>7. ASSUME at = 11 PROVE AddToTmp(2, 12)
  <2>1. Program[at][1] = "addToTmp" /\ Program[at][2] = 2 /\ Program[at][3] = 12
    BY <1>7, Calls
  <2>2. AddToTmp(Program[at][2], Program[at][3])
    BY <1>1, <2>1 DEF Call
  <2>3. QED BY <2>1, <2>2
<1>8. ASSUME at = 12 PROVE MovFromTmp(12, 2)
  <2>1. Program[at][1] = "movFromTmp" /\ Program[at][2] = 12 /\ Program[at][3] = 2
    BY <1>8, Calls
  <2>2. MovFromTmp(Program[at][2], Program[at][3])
    BY <1>1, <2>1 DEF Call
  <2>3. QED BY <2>1, <2>2
<1>9. QED BY <1>1, <1>3, <1>4, <1>5, <1>6, <1>7, <1>8

(* The operands of the program are virtual registers.                       *)
LEMMA OperandsOfTest ==
    ASSUME RoomForTest
    PROVE  /\ 0 .. 15 \subseteq Virtual
           /\ \A k \in Adds : /\ Program[k][2] \in Virtual
                             /\ Program[k][3] \in Virtual
                             /\ Program[k][4] \in Virtual
<1>1. 0 .. 15 \subseteq Virtual
  BY RegAllocAssumption DEF RoomForTest, Virtual
<1>2. \A k \in Adds : /\ Program[k][2] \in 0 .. 15
                      /\ Program[k][3] \in 0 .. 15
                      /\ Program[k][4] \in 0 .. 15
  BY Calls DEF Adds
<1>3. QED BY <1>1, <1>2

(* The test program is a client like any other.                             *)
LEMMA TestStep ==
    ASSUME RoomForTest, at \in Nat \ {0}, [TestNext]_testVars
    PROVE  [JNext]_vars
<1>1. CASE NextCall
  <2>1. at \in Adds \/ at \in {8, 9} \/ at \in 10 .. 12 \/ at \in {13, 14}
    BY <1>1, CallCases DEF Adds
  <2>2. CASE at \in Adds
    BY <1>1, <2>2, CallCases, OperandsOfTest DEF JNext
  <2>3. CASE at \in {8, 9} \/ at \in {13, 14}
    BY <1>1, <2>3, CallCases DEF JNext
  <2>4. CASE at \in 10 .. 12
    <3>1. 10 \in Virtual /\ 12 \in Virtual
      BY OperandsOfTest
    <3>2. MovToTmp(1, 10) \/ AddToTmp(2, 12) \/ MovFromTmp(12, 2)
      BY <1>1, <2>4, CallCases
    <3>3. \E i \in DOMAIN tmps, r \in Virtual :
             MovToTmp(i, r) \/ AddToTmp(i, r) \/ MovFromTmp(r, i)
      BY <3>1, <3>2 DEF MovToTmp, AddToTmp, MovFromTmp, TmpCode
    <3>4. QED BY <3>3 DEF JNext
  <2>5. QED BY <2>1, <2>2, <2>3, <2>4
<1>2. CASE Finish
  BY <1>2 DEF Finish, JNext
<1>3. CASE UNCHANGED testVars
  BY <1>3 DEF testVars
<1>4. QED BY <1>1, <1>2, <1>3 DEF TestNext

(* The program starts as a client does.                                     *)
LEMMA TestStart == TestInit => JInit
BY DEF TestInit

-----------------------------------------------------------------------------
(* Sums of words.                                                           *)
LEMMA Remainder ==
    ASSUME NEW x \in Int, NEW m \in Nat \ {0}
    PROVE  /\ x % m \in 0 .. m - 1 /\ x \div m \in Int
           /\ x = m * (x \div m) + (x % m)
<1>1. x % m \in 0 .. m - 1
  OBVIOUS
<1>2. x \div m \in Int
  OBVIOUS
<1>3. x = m * (x \div m) + (x % m)
  OBVIOUS
<1>4. QED BY <1>1, <1>2, <1>3

(* A number below m that differs from x by a multiple of m is the           *)
(* remainder.                                                               *)
LEMMA OnlyRemainder ==
    ASSUME NEW m \in Nat \ {0}, NEW x \in Int, NEW q \in Int, NEW s \in 0 .. m - 1,
           x = m * q + s
    PROVE  x % m = s
OBVIOUS

(* The sum of two words that are sums is the sum of all their summands.     *)
LEMMA PlusOfSums ==
    ASSUME NEW x \in Nat, NEW y \in Nat
    PROVE  Plus(Sum(x), Sum(y)) = Sum(x + y)
<1> DEFINE m == WordSize
           a == x \div m
           b == y \div m
           s == x % m
           u == y % m
           z == s + u
           c == z \div m
           w == z % m
<1>1. m \in Nat \ {0}
  BY RegAllocAssumption
<1>2. /\ a \in Int /\ s \in 0 .. m - 1 /\ x = m * a + s
      /\ b \in Int /\ u \in 0 .. m - 1 /\ y = m * b + u
  <2> HIDE DEF m
  <2>1. QED BY <1>1, Remainder
<1>3. z \in Int /\ c \in Int /\ w \in 0 .. m - 1 /\ z = m * c + w
  <2>1. z \in Int
    BY <1>2
  <2> HIDE DEF z, m
  <2>2. QED BY <1>1, <2>1, Remainder
<1>4. z = s + u
  OBVIOUS
<1> HIDE DEF a, b, c, m, s, u, z, w
<1>5. x + y = m * (a + b + c) + w
  <2>1. m * (a + b + c) = m * a + m * b + m * c
    BY <1>1, <1>2, <1>3
  <2>2. QED BY <1>1, <1>2, <1>3, <1>4, <2>1
<1>6. (x + y) % m = w
  <2>1. x + y \in Int /\ a + b + c \in Int
    BY <1>2, <1>3
  <2>2. QED BY <1>1, <1>3, <1>5, <2>1, OnlyRemainder
<1>7. Plus(Sum(x), Sum(y)) = w
  BY DEF Plus, Sum, w, z, s, u, m
<1>8. Sum(x + y) = (x + y) % m
  BY DEF Sum, m
<1>9. QED BY <1>6, <1>7, <1>8

(* A word is the sum of itself.                                             *)
LEMMA SumOfWord ==
    ASSUME NEW x \in Word
    PROVE  Sum(x) = x
BY RegAllocAssumption DEF Word, Sum

(* What is known of the virtual registers, with the values V, after n calls *)
(* of the program.                                                          *)
Held(V, n) ==
    /\ n \in 1 .. 20 => V[0] = Sum(S(1) + S(2))
    /\ n < 15 => V[1] = Sum(S(1))
    /\ n >= 15 => V[1] = Sum(S(1) + S(2) + S(3) + S(4))
    /\ n < 2 => V[2] = Sum(S(2))
    /\ n \in 2 .. 18 => V[2] = Sum(S(3) + S(4))
    /\ n >= 19 => V[2] = Sum(  S(1) + S(2) + S(3) + S(4)
                             + S(5) + S(6) + S(7) + S(8))
    /\ n < 16 => V[3] = Sum(S(3))
    /\ n >= 16 => V[3] = Sum(S(5) + S(6) + S(7) + S(8))
    /\ n < 3 => V[4] = Sum(S(4))
    /\ n \in 3 .. 19 => V[4] = Sum(S(5) + S(6))
    /\ n < 17 => V[5] = Sum(S(5))
    /\ n >= 17 => V[5] = Sum(S(9) + S(10) + S(11) + S(12))
    /\ n < 4 => V[6] = Sum(S(6))
    /\ n >= 4 => V[6] = Sum(S(7) + S(8))
    /\ n < 18 => V[7] = Sum(S(7))
    /\ n < 5 => V[8] = Sum(S(8))
    /\ n >= 5 => V[8] = Sum(S(9) + S(10))
    /\ V[9] = Sum(S(9))
    /\ n < 6 => V[10] = Sum(S(10))
    /\ n >= 6 => V[10] = Sum(S(11) + S(12))
    /\ V[11] = Sum(S(11))
    /\ n < 7 => V[12] = Sum(S(12))

(* V2 is what an add makes of V.                                            *)
Added(V, V2, c) ==
    \A q \in Virtual : V2[q] = IF q = c[2] THEN Plus(V[c[3]], V[c[4]]) ELSE V[q]

(* What the registers hold at the start are words.                          *)
LEMMA StartNat ==
    ASSUME RoomForTest
    PROVE  \A q \in 0 .. 15 : S(q) \in Nat /\ S(q) \in Word
<1>1. 0 .. 15 \subseteq Virtual
  BY OperandsOfTest
<1>2. QED BY <1>1, TestAssumption, RegAllocAssumption DEF S, Word

(* The seven calls before the temporaries leave the sums they should,       *)
LEMMA FirstAdds ==
    ASSUME RoomForTest, NEW V, NEW V2, NEW n \in 0 .. 6,
           Held(V, n), Added(V, V2, Program[n + 1])
    PROVE  Held(V2, n + 1)
<1>1. 0 .. 15 \subseteq Virtual /\ \A q \in 0 .. 15 : S(q) \in Nat
  BY OperandsOfTest, StartNat
<1>2. \A q, s \in 0 .. 15 : Plus(Sum(S(q)), Sum(S(s))) = Sum(S(q) + S(s))
  BY <1>1, PlusOfSums
<1>3. CASE n = 0
  <2>1. Program[n + 1] = <<"add", 0, 1, 2>>
    BY <1>3, Calls
  <2>2. V2[0] = Sum(S(1) + S(2)) /\ \A q \in 1 .. 15 : V2[q] = V[q]
    BY <1>1, <1>2, <1>3, <2>1 DEF Held, Added
  <2>3. QED BY <1>3, <2>2 DEF Held
<1>4. CASE n = 1
  <2>1. Program[n + 1] = <<"add", 2, 3, 4>>
    BY <1>4, Calls
  <2>2. V2[2] = Sum(S(3) + S(4)) /\ \A q \in 0 .. 15 : q # 2 => V2[q] = V[q]
    BY <1>1, <1>2, <1>4, <2>1 DEF Held, Added
  <2>3. QED BY <1>4, <2>2 DEF Held
<1>5. CASE n = 2
  <2>1. Program[n + 1] = <<"add", 4, 5, 6>>
    BY <1>5, Calls
  <2>2. V2[4] = Sum(S(5) + S(6)) /\ \A q \in 0 .. 15 : q # 4 => V2[q] = V[q]
    BY <1>1, <1>2, <1>5, <2>1 DEF Held, Added
  <2>3. QED BY <1>5, <2>2 DEF Held
<1>6. CASE n = 3
  <2>1. Program[n + 1] = <<"add", 6, 7, 8>>
    BY <1>6, Calls
  <2>2. V2[6] = Sum(S(7) + S(8)) /\ \A q \in 0 .. 15 : q # 6 => V2[q] = V[q]
    BY <1>1, <1>2, <1>6, <2>1 DEF Held, Added
  <2>3. QED BY <1>6, <2>2 DEF Held
<1>7. CASE n = 4
  <2>1. Program[n + 1] = <<"add", 8, 9, 10>>
    BY <1>7, Calls
  <2>2. V2[8] = Sum(S(9) + S(10)) /\ \A q \in 0 .. 15 : q # 8 => V2[q] = V[q]
    BY <1>1, <1>2, <1>7, <2>1 DEF Held, Added
  <2>3. QED BY <1>7, <2>2 DEF Held
<1>8. CASE n = 5
  <2>1. Program[n + 1] = <<"add", 10, 11, 12>>
    BY <1>8, Calls
  <2>2. V2[10] = Sum(S(11) + S(12)) /\ \A q \in 0 .. 15 : q # 10 => V2[q] = V[q]
    BY <1>1, <1>2, <1>8, <2>1 DEF Held, Added
  <2>3. QED BY <1>8, <2>2 DEF Held
<1>9. CASE n = 6
  <2>1. Program[n + 1] = <<"add", 12, 13, 14>>
    BY <1>9, Calls
  <2>2. \A q \in 0 .. 15 : q # 12 => V2[q] = V[q]
    BY <1>1, <1>2, <1>9, <2>1 DEF Held, Added
  <2>3. QED BY <1>9, <2>2 DEF Held
<1>10. QED BY <1>3, <1>4, <1>5, <1>6, <1>7, <1>8, <1>9

(* and so do the seven behind them.                                         *)
LEMMA LastAdds ==
    ASSUME RoomForTest, NEW V, NEW V2, NEW n \in 14 .. 20,
           Held(V, n), Added(V, V2, Program[n + 1])
    PROVE  Held(V2, n + 1)
<1>1. 0 .. 15 \subseteq Virtual /\ \A q \in 0 .. 15 : S(q) \in Nat
  BY OperandsOfTest, StartNat
<1>2. CASE n = 14
  <2>1. Program[n + 1] = <<"add", 1, 0, 2>>
    BY <1>2, Calls
  <2>2. \A q \in 0 .. 15 : q # 1 => V2[q] = V[q]
    BY <1>1, <2>1 DEF Added
  <2> DEFINE x == S(1) + S(2)
             y == S(3) + S(4)
  <2>3. V2[1] = Plus(Sum(x), Sum(y)) /\ x \in Nat /\ y \in Nat
    BY <1>1, <1>2, <2>1 DEF Held, Added
  <2>4. x + y = S(1) + S(2) + S(3) + S(4)
    BY <1>1
  <2>5. V2[1] = Sum(S(1) + S(2) + S(3) + S(4))
    <3> HIDE DEF x, y
    <3>1. QED BY <2>3, <2>4, PlusOfSums
  <2>6. QED BY <1>2, <2>2, <2>5 DEF Held
<1>3. CASE n = 15
  <2>1. Program[n + 1] = <<"add", 3, 4, 6>>
    BY <1>3, Calls
  <2>2. \A q \in 0 .. 15 : q # 3 => V2[q] = V[q]
    BY <1>1, <2>1 DEF Added
  <2> DEFINE x == S(5) + S(6)
             y == S(7) + S(8)
  <2>3. V2[3] = Plus(Sum(x), Sum(y)) /\ x \in Nat /\ y \in Nat
    BY <1>1, <1>3, <2>1 DEF Held, Added
  <2>4. x + y = S(5) + S(6) + S(7) + S(8)
    BY <1>1
  <2>5. V2[3] = Sum(S(5) + S(6) + S(7) + S(8))
    <3> HIDE DEF x, y
    <3>1. QED BY <2>3, <2>4, PlusOfSums
  <2>6. QED BY <1>3, <2>2, <2>5 DEF Held
<1>4. CASE n = 16
  <2>1. Program[n + 1] = <<"add", 5, 8, 10>>
    BY <1>4, Calls
  <2>2. \A q \in 0 .. 15 : q # 5 => V2[q] = V[q]
    BY <1>1, <2>1 DEF Added
  <2> DEFINE x == S(9) + S(10)
             y == S(11) + S(12)
  <2>3. V2[5] = Plus(Sum(x), Sum(y)) /\ x \in Nat /\ y \in Nat
    BY <1>1, <1>4, <2>1 DEF Held, Added
  <2>4. x + y = S(9) + S(10) + S(11) + S(12)
    BY <1>1
  <2>5. V2[5] = Sum(S(9) + S(10) + S(11) + S(12))
    <3> HIDE DEF x, y
    <3>1. QED BY <2>3, <2>4, PlusOfSums
  <2>6. QED BY <1>4, <2>2, <2>5 DEF Held
<1>5. CASE n = 17
  <2>1. Program[n + 1] = <<"add", 7, 12, 15>>
    BY <1>5, Calls
  <2>2. \A q \in 0 .. 15 : q # 7 => V2[q] = V[q]
    BY <1>1, <2>1 DEF Added
  <2>3. QED BY <1>5, <2>2 DEF Held
<1>6. CASE n = 18
  <2>1. Program[n + 1] = <<"add", 2, 1, 3>>
    BY <1>6, Calls
  <2>2. \A q \in 0 .. 15 : q # 2 => V2[q] = V[q]
    BY <1>1, <2>1 DEF Added
  <2> DEFINE x == S(1) + S(2) + S(3) + S(4)
             y == S(5) + S(6) + S(7) + S(8)
  <2>3. V2[2] = Plus(Sum(x), Sum(y)) /\ x \in Nat /\ y \in Nat
    BY <1>1, <1>6, <2>1 DEF Held, Added
  <2>4. x + y =   S(1) + S(2) + S(3) + S(4)
                    + S(5) + S(6) + S(7) + S(8)
    BY <1>1
  <2>5. V2[2] = Sum(  S(1) + S(2) + S(3) + S(4)
                    + S(5) + S(6) + S(7) + S(8))
    <3> HIDE DEF x, y
    <3>1. QED BY <2>3, <2>4, PlusOfSums
  <2>6. QED BY <1>6, <2>2, <2>5 DEF Held
<1>7. CASE n = 19
  <2>1. Program[n + 1] = <<"add", 4, 5, 7>>
    BY <1>7, Calls
  <2>2. \A q \in 0 .. 15 : q # 4 => V2[q] = V[q]
    BY <1>1, <2>1 DEF Added
  <2>3. QED BY <1>7, <2>2 DEF Held
<1>8. CASE n = 20
  <2>1. Program[n + 1] = <<"add", 0, 2, 4>>
    BY <1>8, Calls
  <2>2. \A q \in 0 .. 15 : q # 0 => V2[q] = V[q]
    BY <1>1, <2>1 DEF Added
  <2>3. QED BY <1>8, <2>2 DEF Held
<1>9. QED BY <1>2, <1>3, <1>4, <1>5, <1>6, <1>7, <1>8

(* The code on temporaries touches r12 only, which no sum counts on after.  *)
LEMMA TmpsKeepHeld ==
    ASSUME NEW V, NEW V2, NEW n \in 7 .. 13, Held(V, n),
           \A q \in 0 .. 15 : q # 12 => V2[q] = V[q]
    PROVE  Held(V2, n + 1)
BY DEF Held

(* At the start the registers hold what they start with.                    *)
LEMMA HeldAtStart ==
    ASSUME RoomForTest, TestInit
    PROVE  Held(VReg, 0)
<1>1. /\ 0 .. 15 \subseteq Virtual
      /\ \A q \in 0 .. 15 : S(q) \in Word
  BY OperandsOfTest, StartNat
<1>2. mem = Start /\ pc = "idle" /\ IInv
  BY TestStart, JInitInv DEF TestInit, JInit, JInv
<1>3. \A q \in 0 .. 15 : value(q) = Start[q]
  <2>1. \A q \in Pinned : r_map[q] = q /\ gpr[q] = mem[q]
    BY RegAllocAssumption DEF TestInit, JInit, Init
  <2>2. \A q \in Virtual \ Pinned : r_map[q] = None
    BY DEF TestInit, JInit, Init
  <2>3. QED BY <1>1, <1>2, <2>1, <2>2 DEF value
<1>4. \A q \in 0 .. 15 : VReg[q] = Sum(S(q))
  BY <1>1, <1>2, <1>3, SumOfWord DEF VReg, S
<1>5. QED BY <1>4 DEF Held

-----------------------------------------------------------------------------
(* The calls that have taken effect: the one in progress does when its      *)
(* destination is mapped.                                                   *)
performed == IF pc \in {"s1", "s2", "d"} THEN at - 2 ELSE at - 1

(* The temporaries of the block, and how long ago its registers were used.  *)
BlockInv ==
    /\ at \in {9, 14} => Len(tmps) = 1
    /\ at \in 10 .. 13 => Len(tmps) = 2
    /\ at \notin 9 .. 14 => Len(tmps) = 0
    /\ at = 7 /\ pc \in {"exec", "idle"} => Recent(10, 1)
    /\ at = 8 /\ pc = "s1" => Recent(10, 1)
    /\ at = 8 /\ pc = "s2" => Recent(10, 2)
    /\ at = 8 /\ pc = "d" => Recent(10, 3)
    /\ at = 8 /\ pc \in {"exec", "idle"} => Recent(10, 4) /\ Recent(12, 1)
    /\ at \in 9 .. 12 => Recent(10, 4) /\ Recent(12, 1)

(* Where the program is, what instruction is in progress, and what the      *)
(* registers hold there.                                                    *)
TestInv ==
    /\ JInv
    /\ at \in 1 .. 22
    /\ pc # "idle" => at - 1 \in Adds /\ ins = InsOf(Program[at - 1])
    /\ Held(VReg, performed)
    /\ BlockInv

(* A temporary takes the register of none of those used last.               *)
LEMMA AllocatingStays ==
    ASSUME IInv, alloc_native_register, NEW r \in Virtual,
           NEW k \in Nat, NumFixed + k + 1 <= NumNative, Recent(r, k)
    PROVE  Recent(r, k)'
<1> DEFINE g == find_native_register
<1>1. r_map[r] \in Native /\ r_map[r] # None
  BY DEF Recent, IInv, TypeOK
<1>2. g \in Native /\ g # r_map[r]
  BY Victim, NotVictim
<1>3. gp_map[g] # r
  BY <1>2 DEF IInv, MapsInverse
<1>4. /\ r_map'[r] = r_map[r] /\ tick_' = tick_
      /\ gp_use' = [gp_use EXCEPT ![g] = Fixed]
  BY <1>3 DEF alloc_native_register, without_owner
<1> HIDE DEF g
<1>5. gp_use'[r_map[r]] = gp_use[r_map[r]]
  BY <1>1, <1>2, <1>4 DEF IInv, TypeOK
<1>6. QED BY <1>4, <1>5 DEF Recent

(* A call keeps r10 and r12 among the registers used last.                  *)
LEMMA NextCallBlock ==
    ASSUME RoomForTest, TestInv, NextCall
    PROVE  BlockInv'
<1>1. /\ JInv /\ IInv /\ at \in 1 .. 21 /\ at' = at + 1
      /\ 10 \in Virtual /\ 12 \in Virtual /\ Len(tmps) \in Nat
      /\ BlockInv /\ pc = "idle"
  <2>1. pc = "idle"
    BY CallCases DEF TestInv, Adds, StartAdd, NewTmp, DropTmp, MovToTmp, AddToTmp,
       MovFromTmp, TmpCode
  <2>2. QED BY <2>1, CallCases, OperandsOfTest DEF TestInv, JInv, IInv, TypeOK
<1>2. NumFixed + 4 + 1 <= NumNative /\ NumFixed + 1 + 1 <= NumNative
  BY RegAllocAssumption, FixedFew, <1>1 DEF RoomForTest, NumFixed
<1>3. CASE at \in Adds
  <2>1. pc' = "s1" /\ UNCHANGED <<r_map, gp_use, tick_, tmps>>
    BY <1>3, CallCases, <1>1 DEF StartAdd, allocVars
  <2>2. at = 7 => Recent(10, 1)'
    BY <1>1, <2>1 DEF BlockInv, Recent
  <2>3. QED BY <1>1, <1>3, <2>1, <2>2 DEF BlockInv, Adds
<1>4. CASE at \in {8, 9}
  <2>1. alloc_native_register /\ pc' = "idle"
    BY <1>1, <1>4, CallCases DEF NewTmp
  <2>2. Recent(10, 4) /\ Recent(12, 1)
    BY <1>1, <1>4 DEF BlockInv
  <2>3. Recent(10, 4)' /\ Recent(12, 1)'
    BY <1>1, <1>2, <2>1, <2>2, AllocatingStays
  <2>4. Len(tmps') = Len(tmps) + 1
    BY <1>1, <2>1, Victim DEF alloc_native_register, IInv, TypeOK
  <2>5. (at = 8 => Len(tmps') = 1) /\ (at = 9 => Len(tmps') = 2)
    BY <1>1, <2>4 DEF BlockInv
  <2>6. CASE at = 8
    BY <1>1, <2>3, <2>5, <2>6 DEF BlockInv
  <2>7. CASE at = 9
    BY <1>1, <2>3, <2>5, <2>7 DEF BlockInv
  <2>8. QED BY <1>4, <2>6, <2>7
<1>5. CASE at \in 10 .. 12
  <2>1. UNCHANGED <<r_map, gp_use, tick_, tmps>>
    BY <1>1, <1>5, CallCases DEF MovToTmp, AddToTmp, MovFromTmp, TmpCode, tables
  <2>2. Recent(10, 4)' /\ Recent(12, 1)'
    BY <1>1, <1>5, <2>1 DEF BlockInv, Recent
  <2>3. QED BY <1>1, <1>5, <2>1, <2>2 DEF BlockInv
<1>6. CASE at \in {13, 14}
  <2>1. tmps # << >> /\ tmps' = SubSeq(tmps, 1, Len(tmps) - 1)
    BY <1>1, <1>6, CallCases DEF DropTmp, release_native_register
  <2>2. Len(tmps') = Len(tmps) - 1
    <3> DEFINE n == Len(tmps)
    <3>1. tmps \in Seq(Native) /\ n \in Nat /\ n > 0 /\ tmps' = SubSeq(tmps, 1, n - 1)
      BY <1>1, <2>1 DEF IInv, TypeOK
    <3>2. Len(SubSeq(tmps, 1, n - 1)) = n - 1
      <4> HIDE DEF n
      <4>1. 1 \in 1 .. n + 1 /\ n - 1 \in 1 - 1 .. n
        BY <3>1
      <4>2. n - 1 \in Nat /\ n = Len(tmps)
        BY <3>1 DEF n
      <4>3. QED BY <3>1, <4>1, <4>2, SubSeqProperties
    <3>3. QED BY <3>1, <3>2
  <2>3. QED BY <1>1, <1>6, <2>2 DEF BlockInv
<1>7. QED BY <1>1, <1>3, <1>4, <1>5, <1>6 DEF Adds

(* So does each step of an instruction that has been called.                *)
LEMMA FinishBlock ==
    ASSUME RoomForTest, TestInv, Finish
    PROVE  BlockInv'
<1>1. /\ JInv /\ IInv /\ at' = at /\ at - 1 \in Adds /\ at \in 1 .. 22
      /\ ins = InsOf(Program[at - 1]) /\ BlockInv /\ tmps' = tmps
      /\ 10 \in Virtual /\ 12 \in Virtual /\ 13 \in Virtual /\ 14 \in Virtual
  <2>1. pc # "idle" /\ tmps' = tmps /\ at' = at
    BY DEF Finish, LoadS1, LoadS2, MapD, Exec, ensure_loaded, ensure_mapped
  <2>2. QED BY <2>1, OperandsOfTest DEF TestInv, JInv
<1>2. /\ at = 8 => ins = [op |-> "add", d |-> 12, s1 |-> 13, s2 |-> 14]
      /\ at = 7 => ins = [op |-> "add", d |-> 10, s1 |-> 11, s2 |-> 12]
      /\ at \notin 9 .. 14
  BY <1>1, Calls DEF InsOf, Adds
<1>3. /\ NumFixed + 3 + 1 <= NumNative
      /\ NumFixed + 2 + 1 <= NumNative /\ NumFixed + 1 + 1 <= NumNative
  BY RegAllocAssumption, FixedFew, <1>1 DEF RoomForTest, NumFixed
<1>4. CASE LoadS1
  <2>1. pc = "s1" /\ pc' \in {"s2", "d"} /\ (ins.op = "add" => pc' = "s2")
    BY <1>4 DEF LoadS1
  <2>2. ASSUME at = 8 PROVE Recent(10, 2)' /\ pc' = "s2"
    <3>1. ensure_loaded(13) /\ Recent(10, 1) /\ pc' = "s2"
      BY <1>1, <1>2, <1>4, <2>1, <2>2 DEF LoadS1, BlockInv
    <3>2. Recent(10, 1 + 1)'
      BY <1>1, <1>3, <3>1, StaysRecent
    <3>3. QED BY <3>1, <3>2
  <2>3. QED BY <1>1, <1>2, <2>1, <2>2 DEF BlockInv
<1>5. CASE LoadS2
  <2>1. pc = "s2" /\ pc' = "d"
    BY <1>5 DEF LoadS2
  <2>2. ASSUME at = 8 PROVE Recent(10, 3)'
    <3>1. ensure_loaded(14) /\ Recent(10, 2)
      BY <1>1, <1>2, <1>5, <2>1, <2>2 DEF LoadS2, BlockInv
    <3>2. Recent(10, 2 + 1)'
      BY <1>1, <1>3, <3>1, StaysRecent
    <3>3. QED BY <3>2
  <2>3. QED BY <1>1, <1>2, <2>1, <2>2 DEF BlockInv
<1>6. CASE MapD
  <2>1. pc = "d" /\ pc' = "exec"
    BY <1>6 DEF MapD
  <2>2. ASSUME at = 7 PROVE Recent(10, 1)'
    <3>1. ensure_mapped(10)
      BY <1>2, <1>6, <2>2 DEF MapD
    <3>2. QED BY <1>1, <3>1, Asked
  <2>3. ASSUME at = 8 PROVE Recent(10, 4)' /\ Recent(12, 1)'
    <3>1. ensure_mapped(12) /\ Recent(10, 3)
      BY <1>1, <1>2, <1>6, <2>1, <2>3 DEF MapD, BlockInv
    <3>2. Recent(10, 3 + 1)'
      BY <1>1, <1>3, <3>1, StaysRecent
    <3>3. Recent(12, 1)'
      BY <1>1, <3>1, Asked
    <3>4. QED BY <3>2, <3>3
  <2>4. QED BY <1>1, <1>2, <2>1, <2>2, <2>3 DEF BlockInv
<1>7. CASE Exec
  <2>1. pc = "exec" /\ pc' = "idle" /\ UNCHANGED <<r_map, gp_use, tick_>>
    BY <1>7 DEF Exec, tables
  <2>2. at = 7 => Recent(10, 1)'
    BY <1>1, <2>1 DEF BlockInv, Recent
  <2>3. at = 8 => Recent(10, 4)' /\ Recent(12, 1)'
    BY <1>1, <2>1 DEF BlockInv, Recent
  <2>4. QED BY <1>1, <1>2, <2>1, <2>2, <2>3 DEF BlockInv
<1>8. QED BY <1>4, <1>5, <1>6, <1>7 DEF Finish

(* A call by itself leaves every register what it should hold.              *)
LEMMA NextCallHeld ==
    ASSUME RoomForTest, TestInv, NextCall, JInv'
    PROVE  Held(VReg, performed)'
<1>1. /\ JInv /\ at \in 1 .. 21 /\ at' = at + 1 /\ pc = "idle" /\ Held(VReg, at - 1)
      /\ 0 .. 15 \subseteq Virtual
  <2>1. pc = "idle"
    BY CallCases DEF TestInv, Adds, StartAdd, NewTmp, DropTmp, MovToTmp, AddToTmp,
       MovFromTmp, TmpCode
  <2>2. QED BY <2>1, CallCases, OperandsOfTest DEF TestInv, performed
<1>2. CASE at \in Adds
  <2>1. pc' = "s1" /\ UNCHANGED allocVars
    BY <1>1, <1>2, CallCases DEF StartAdd
  <2>2. VReg' = VReg
    BY <1>1, <2>1 DEF VReg, value, allocVars
  <2>3. performed' = at - 1
    BY <1>1, <2>1 DEF performed
  <2>4. QED BY <1>1, <2>2, <2>3 DEF Held
<1>3. CASE at \in 8 .. 14
  <2>1. pc' = "idle" /\ performed' = at
    <3>1. pc' = "idle"
      BY <1>1, <1>3, CallCases DEF NewTmp, DropTmp, MovToTmp, AddToTmp, MovFromTmp, TmpCode
    <3>2. QED BY <1>1, <3>1 DEF performed
  <2>2. \A q \in 0 .. 15 : q # 12 => VReg'[q] = VReg[q]
    <3>1. CASE at \in {8, 9}
      BY <1>1, <3>1, CallCases, MNewTmp DEF Machine!NewTmp, VReg
    <3>2. CASE at \in {13, 14}
      BY <1>1, <3>2, CallCases, MDropTmp DEF Machine!DropTmp, VReg
    <3>3. CASE at = 10
      <4>1. MovToTmp(1, 10) /\ 10 \in Virtual /\ 1 \in DOMAIN tmps
        BY <1>1, <3>3, CallCases DEF MovToTmp, TmpCode
      <4>2. QED BY <1>1, <4>1, MMovToTmp
    <3>4. CASE at = 11
      <4>1. AddToTmp(2, 12) /\ 12 \in Virtual /\ 2 \in DOMAIN tmps
        BY <1>1, <3>4, CallCases DEF AddToTmp, TmpCode
      <4>2. QED BY <1>1, <4>1, MAddToTmp
    <3>5. CASE at = 12
      <4>1. MovFromTmp(12, 2) /\ 12 \in Virtual /\ 2 \in DOMAIN tmps
        BY <1>1, <3>5, CallCases DEF MovFromTmp, TmpCode
      <4>2. VReg' = [VReg EXCEPT ![12] = TmpVals[2]] /\ DOMAIN VReg = Virtual
        BY <1>1, <4>1, MMovFromTmp DEF VReg
      <4>3. QED BY <1>1, <4>2
    <3>6. QED BY <1>3, <3>1, <3>2, <3>3, <3>4, <3>5
  <2>3. Held(VReg', at - 1 + 1)
    BY <1>1, <1>3, <2>2, TmpsKeepHeld
  <2>4. QED BY <1>1, <2>1, <2>3 DEF Held
<1>4. QED BY <1>1, <1>2, <1>3 DEF Adds

(* So does each step of the instruction: the one that performs it leaves    *)
(* its sum.                                                                 *)
LEMMA FinishHeld ==
    ASSUME RoomForTest, TestInv, Finish, JInv'
    PROVE  Held(VReg, performed)'
<1>1. /\ JInv /\ at' = at /\ at - 1 \in Adds /\ at \in 1 .. 22
      /\ ins = InsOf(Program[at - 1]) /\ Held(VReg, performed)
      /\ ins.d \in Virtual /\ ins.s1 \in Virtual /\ ins.s2 \in Virtual
  <2>1. pc # "idle" /\ at' = at
    BY DEF Finish, LoadS1, LoadS2, MapD, Exec
  <2>2. QED BY <2>1 DEF TestInv, JInv, Ins
<1>2. CASE LoadS1 \/ LoadS2
  <2>1. VReg' = VReg
    <3>1. /\ pc \in {"s1", "s2"} /\ pc' \in {"s2", "d"} /\ UNCHANGED ins
          /\ ensure_loaded(ins.s1) \/ ensure_loaded(ins.s2)
      BY <1>2 DEF LoadS1, LoadS2
    <3>2. UNCHANGED Machine!vars
      BY <1>1, <3>1, MLoad
    <3>3. QED BY <3>2 DEF Machine!vars, VReg
  <2>2. performed' = performed
    BY <1>1, <1>2 DEF performed, LoadS1, LoadS2
  <2>3. QED BY <1>1, <2>1, <2>2 DEF Held
<1>3. CASE Exec
  <2>1. VReg' = VReg
    BY <1>1, <1>3, MRetire DEF Machine!Retire, VReg
  <2>2. performed' = performed
    BY <1>1, <1>3 DEF performed, Exec
  <2>3. QED BY <1>1, <2>1, <2>2 DEF Held
<1>4. CASE MapD
  <2>1. performed = at - 2 /\ performed' = at - 1
    BY <1>1, <1>4 DEF performed, MapD
  <2>2. VReg' = [VReg EXCEPT ![ins.d] =
                    IF ins.op = "add" THEN Plus(VReg[ins.s1], VReg[ins.s2])
                    ELSE VReg[ins.s1]]
    BY <1>1, <1>4, MPerform DEF Machine!Perform, Machine!Plus, Plus, VReg
  <2>3. Added(VReg, VReg', Program[at - 2 + 1])
    <3>1. at - 2 + 1 = at - 1
      BY <1>1
    <3>2. DOMAIN VReg = Virtual
      BY DEF VReg
    <3>3. /\ ins.op = "add" /\ ins.d = Program[at - 1][2]
          /\ ins.s1 = Program[at - 1][3] /\ ins.s2 = Program[at - 1][4]
      BY <1>1 DEF InsOf
    <3>4. QED BY <1>1, <2>2, <3>1, <3>2, <3>3 DEF Added
  <2>4. Held(VReg', at - 2 + 1)
    <3>1. at - 2 \in 0 .. 6 \/ at - 2 \in 14 .. 20
      BY <1>1 DEF Adds
    <3>2. QED BY <1>1, <2>1, <2>3, <3>1, FirstAdds, LastAdds
  <2>5. at - 2 + 1 = at - 1
    BY <1>1
  <2>6. QED BY <2>1, <2>4, <2>5 DEF Held
<1>5. QED BY <1>2, <1>3, <1>4 DEF Finish

(* The invariant of the program holds initially,                            *)
LEMMA TestInitInv == RoomForTest /\ TestInit => TestInv
<1> SUFFICES ASSUME RoomForTest, TestInit PROVE TestInv
  OBVIOUS
<1>1. JInv /\ at = 1 /\ pc = "idle" /\ tmps = << >>
  BY TestStart, JInitInv DEF TestInit, JInit, Init
<1>2. Held(VReg, performed)
  <2>1. performed = 0
    BY <1>1 DEF performed
  <2>2. QED BY <2>1, HeldAtStart
<1>3. QED BY <1>1, <1>2 DEF TestInv, BlockInv

(* and every step keeps it.                                                 *)
LEMMA TestNextInv == RoomForTest /\ TestInv /\ [TestNext]_testVars => TestInv'
<1> SUFFICES ASSUME RoomForTest, TestInv, [TestNext]_testVars PROVE TestInv'
  OBVIOUS
<1>1. JInv'
  BY TestStep, JNextInv DEF TestInv
<1>2. CASE NextCall
  <2>1. at \in 1 .. 21 /\ at' = at + 1
    BY <1>2, CallCases DEF TestInv
  <2>2. pc' # "idle" => at \in Adds /\ ins' = InsOf(Program[at])
    <3>1. CASE at \in Adds
      BY <1>2, <3>1, CallCases DEF StartAdd, InsOf, TestInv
    <3>2. CASE at \in 8 .. 14
      BY <1>2, <2>1, <3>2, CallCases DEF NewTmp, DropTmp, MovToTmp, AddToTmp, MovFromTmp, TmpCode
    <3>3. QED BY <2>1, <3>1, <3>2 DEF Adds
  <2>3. at' - 1 = at /\ at' \in 1 .. 22
    BY <2>1
  <2>4. QED BY <1>1, <1>2, <2>2, <2>3, NextCallHeld, NextCallBlock DEF TestInv
<1>3. CASE Finish
  <2>1. at' = at /\ ins' = ins /\ pc # "idle"
    BY <1>3 DEF Finish, LoadS1, LoadS2, MapD, Exec
  <2>2. QED BY <1>1, <1>3, <2>1, FinishHeld, FinishBlock DEF TestInv
<1>4. CASE UNCHANGED testVars
  <2>1. /\ UNCHANGED vars /\ at' = at
    BY <1>4 DEF testVars
  <2>2. VReg' = VReg /\ performed' = performed
    BY <2>1 DEF VReg, value, result, vars, performed
  <2>3. Held(VReg, performed)'
    BY <2>2 DEF Held, TestInv
  <2>4. BlockInv'
    BY <2>1 DEF TestInv, BlockInv, Recent, vars
  <2>5. QED BY <1>1, <2>1, <2>3, <2>4 DEF TestInv, vars
<1>5. QED BY <1>2, <1>3, <1>4 DEF TestNext

(* test() is a client of the allocator like any other: what is proved of    *)
(* clients holds of it.                                                     *)
THEOREM TestIsClient == RoomForTest => (TestSpec => JSpec)
<1>1. TestInit => JInit
  BY TestStart
<1>2. ASSUME RoomForTest
      PROVE  TestSpec => JSpec
  <2>1. TestInit => TestInv
    BY <1>2, TestInitInv
  <2>2. TestInv /\ [TestNext]_testVars => TestInv'
    BY <1>2, TestNextInv
  <2>3. TestInv /\ [TestNext]_testVars => [JNext]_vars
    BY <1>2, TestStep DEF TestInv
  <2>4. QED BY <1>1, <2>1, <2>2, <2>3, PTL DEF TestSpec, JSpec
<1>3. QED BY <1>2

(* After every call of test() each virtual register holds what the calls so *)
(* far should have left in it.                                              *)
THEOREM TestConsistent == RoomForTest => (TestSpec => []TestInv)
<1>1. ASSUME RoomForTest
      PROVE  TestSpec => []TestInv
  <2>1. TestInit => TestInv
    BY <1>1, TestInitInv
  <2>2. TestInv /\ [TestNext]_testVars => TestInv'
    BY <1>1, TestNextInv
  <2>3. QED BY <2>1, <2>2, PTL DEF TestSpec
<1>2. QED BY <1>1

(* For every content of the virtual registers, every garbage in the native  *)
(* ones and every allocator with room for it, the test program leaves the   *)
(* sums that its comments name: 1+2+3+4 in r1, and so on.                   *)
THEOREM CommentedSums == RoomForTest => (TestSpec => []SumsAsCommented)
<1>1. RoomForTest /\ TestInv => SumsAsCommented
  <2> SUFFICES ASSUME RoomForTest, TestInv, Done PROVE SumsAsCommented
    BY DEF SumsAsCommented
  <2>1. at = 22 /\ pc = "idle"
    BY Calls DEF Done
  <2>2. Held(VReg, 21)
    BY <2>1 DEF TestInv, performed
  <2>3. \A q \in 0 .. 15 : VReg[q] = value(q)
    BY <2>1, OperandsOfTest DEF VReg
  <2>4. QED BY <2>2, <2>3 DEF Held, SumsAsCommented
<1>2. ASSUME RoomForTest
      PROVE  TestSpec => []SumsAsCommented
  <2>1. TestInv => SumsAsCommented
    BY <1>1, <1>2
  <2>2. TestSpec => []TestInv
    BY <1>2, TestConsistent
  <2>3. QED BY <2>1, <2>2, PTL
<1>3. QED BY <1>2

(* And no call of it fails: the temporaries get their registers, and the    *)
(* code between them finds r10 and r12 mapped, last used too recently to be *)
(* evicted.                                                                 *)
THEOREM CallsSafe == RoomForTest => (TestSpec => []CallsPossible)
<1>1. RoomForTest /\ TestInv => CallsPossible
  <2> SUFFICES ASSUME RoomForTest, TestInv, pc = "idle", at <= Len(Program)
               PROVE  Possible(Program[at])
    BY DEF CallsPossible
  <2>1. at \in 1 .. 21 /\ BlockInv /\ DOMAIN tmps = 1 .. Len(tmps)
    BY Calls DEF TestInv, JInv, IInv, TypeOK
  <2>2. CASE at \in Adds
    <3>1. Program[at][1] = "add"
      BY <2>2, Calls DEF Adds
    <3>2. QED BY <3>1 DEF Possible
  <2>3. CASE at \in {8, 9}
    <3>1. Program[at][1] = "TmpAlloc"
      BY <2>3, Calls
    <3>2. Len(tmps) < MaxTmps
      <4>1. (at = 9 /\ Len(tmps) = 1) \/ (at = 8 /\ Len(tmps) = 0)
        BY <2>1, <2>3 DEF BlockInv
      <4>2. MaxTmps \in Nat /\ MaxTmps >= 2
        BY RegAllocAssumption DEF RoomForTest
      <4>3. QED BY <4>1, <4>2
    <3>3. QED BY <3>1, <3>2 DEF Possible
  <2>4. CASE at = 10
    <3>1. Program[at][1] = "movToTmp" /\ Program[at][2] = 1 /\ Program[at][3] = 10
      BY <2>4, Calls
    <3>2. 1 \in DOMAIN tmps /\ r_map[10] # None
      BY <2>1, <2>4 DEF BlockInv, Recent
    <3>3. QED BY <3>1, <3>2 DEF Possible
  <2>5. CASE at = 11
    <3>1. Program[at][1] = "addToTmp" /\ Program[at][2] = 2 /\ Program[at][3] = 12
      BY <2>5, Calls
    <3>2. 2 \in DOMAIN tmps /\ r_map[12] # None
      BY <2>1, <2>5 DEF BlockInv, Recent
    <3>3. QED BY <3>1, <3>2 DEF Possible
  <2>6. CASE at = 12
    <3>1. Program[at][1] = "movFromTmp" /\ Program[at][2] = 12 /\ Program[at][3] = 2
      BY <2>6, Calls
    <3>2. 2 \in DOMAIN tmps /\ r_map[12] # None
      BY <2>1, <2>6 DEF BlockInv, Recent
    <3>3. QED BY <3>1, <3>2 DEF Possible
  <2>7. CASE at \in {13, 14}
    <3>1. Program[at][1] = "~TmpAlloc"
      BY <2>7, Calls
    <3>2. tmps # << >>
      BY <2>1, <2>7 DEF BlockInv
    <3>3. QED BY <3>1, <3>2 DEF Possible
  <2>8. QED BY <2>1, <2>2, <2>3, <2>4, <2>5, <2>6, <2>7 DEF Adds
<1>2. ASSUME RoomForTest
      PROVE  TestSpec => []CallsPossible
  <2>1. TestInv => CallsPossible
    BY <1>1, <1>2
  <2>2. TestSpec => []TestInv
    BY <1>2, TestConsistent
  <2>3. QED BY <2>1, <2>2, PTL
<1>3. QED BY <1>2
=============================================================================
