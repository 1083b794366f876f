------------------------------ MODULE RegAlloc ------------------------------
(***************************************************************************)
(* The register allocator of jitter_regalloc.h with the constructor of     *)
(* jitter_regalloc_x86.h.  The allocator emits loads and saves while it    *)
(* maps virtual registers; the emitted code is straight-line, so a step    *)
(* here changes the tables and executes what it emits: gpr and mem are the *)
(* native registers and the virtual register file at that point of the     *)
(* emitted code.                                                           *)
(***************************************************************************)
EXTENDS Integers, Sequences, FiniteSets

CONSTANTS NumVirtual,   \* num_virtual_regs_
          NumNative,    \* num_native_regs_
          Pinned,       \* virtual registers mapped for good to the native
                        \* register of the same number ({0, 1} on x86)
          Reserved,     \* native registers never handed out ({4, 7} on x86)
          WordSize,     \* registers hold the numbers 0 .. WordSize - 1
          MaxTmps,      \* TmpAlloc objects alive at once (2 in jreg.cpp)
          MaxTick       \* what tick_, an int, may reach

Virtual == 0 .. NumVirtual - 1
Native == 0 .. NumNative - 1
Word == 0 .. WordSize - 1
None == -1              \* unmapped, free, or nothing found
Fixed == 0              \* the gp_use of a register that is never evicted

(***************************************************************************)
(* At least one register is pinned: the constructor consumes tick 0 (and   *)
(* overwrites it), a tick that would otherwise read as Fixed.  Three       *)
(* registers besides the fixed ones are left to the operands of an         *)
(* instruction.                                                            *)
(***************************************************************************)
ASSUME RegAllocAssumption ==
    /\ NumVirtual \in Nat /\ NumNative \in Nat
    /\ Pinned \subseteq Virtual \cap Native /\ Pinned # {}
    /\ Reserved \subseteq Native \ Pinned
    /\ WordSize \in Nat \ {0}
    /\ MaxTmps \in Nat /\ MaxTick \in Nat
    /\ Cardinality(Pinned) + Cardinality(Reserved) + MaxTmps + 3 <= NumNative

VARIABLES r_map,        \* virtual register -> native register or None
          gp_map,       \* native register -> virtual register or None
          gp_use,       \* native register -> None, Fixed, or tick of last use
          tick_,        \* use counter
          tmps,         \* native registers of the live TmpAlloc objects
          gpr,          \* contents of the native registers
          mem           \* vregfile: the memory home of the virtual registers

tables == <<r_map, gp_map, gp_use, tick_>>
allocVars == <<r_map, gp_map, gp_use, tick_, tmps, gpr, mem>>

Init ==
    /\ r_map = [r \in Virtual |-> IF r \in Pinned THEN r ELSE None]
    /\ gp_map = [gp \in Native |-> IF gp \in Pinned THEN gp ELSE None]
    /\ gp_use = [gp \in Native |->
                    IF gp \in Pinned \cup Reserved THEN Fixed ELSE None]
    /\ tick_ = Cardinality(Pinned)
    /\ tmps = << >>
    /\ mem \in [Virtual -> Word]
    /\ gpr \in [Native -> Word]
    /\ \A r \in Pinned : gpr[r] = mem[r]

-----------------------------------------------------------------------------
Free == {gp \in Native : gp_use[gp] = None}
(* The bug of a comparison that takes in fixed registers.                   *)
evictable_or_fixed == {gp \in Native : gp_use[gp] >= Fixed}
Evictable == {gp \in Native : gp_use[gp] > Fixed}

(* Faulty variants of the definitions below, each the bug a property is for:*)
(* nothing is evicted, the most recently used register is.                  *)
find_free_only ==
    IF Free # {} THEN CHOOSE gp \in Free : \A h \in Free : h <= gp ELSE None

find_most_recent ==
    IF Free # {} THEN CHOOSE gp \in Free : \A h \in Free : h <= gp
    ELSE IF Evictable # {}
    THEN CHOOSE gp \in Evictable : \A h \in Evictable :
            gp_use[gp] >= gp_use[h]
    ELSE None

(* The highest free register; failing that the least recently used one, the *)
(* highest of equals; failing that None.                                    *)
find_native_register ==
    IF Free # {} THEN CHOOSE gp \in Free : \A h \in Free : h <= gp
    ELSE IF Evictable # {}
    THEN CHOOSE gp \in Evictable : \A h \in Evictable :
            \/ gp_use[gp] < gp_use[h]
            \/ gp_use[gp] = gp_use[h] /\ h <= gp
    ELSE None

(* The bug of an eviction that saves nothing.                               *)
unmap_without_flush(gp) == mem' = mem

(* What gp held goes home to the register file and its owner is unmapped.  *)
flush_and_unmap_native(gp) ==
    LET r == gp_map[gp]
    IN  mem' = IF r = None THEN mem ELSE [mem EXCEPT ![r] = gpr[gp]]

(* The bugs of an evicted owner that stays mapped, of a tick used twice and *)
(* of gp_map remembering the native register instead of the virtual one.    *)
map_beside_owner(r, gp) ==
    /\ r_map' = [r_map EXCEPT ![r] = gp]
    /\ gp_map' = [gp_map EXCEPT ![gp] = r]
    /\ gp_use' = [gp_use EXCEPT ![gp] = tick_]
    /\ tick_' = tick_ + 1

map_same_tick(r, gp) ==
    /\ r_map' = [v \in Virtual |-> IF v = r THEN gp
                                   ELSE IF v = gp_map[gp] THEN None
                                   ELSE r_map[v]]
    /\ gp_map' = [gp_map EXCEPT ![gp] = r]
    /\ gp_use' = [gp_use EXCEPT ![gp] = tick_]
    /\ UNCHANGED tick_

map_native_number(r, gp) ==
    /\ r_map' = [r_map EXCEPT ![r] = gp]
    /\ gp_map' = [gp_map EXCEPT ![gp] = gp]
    /\ gp_use' = [gp_use EXCEPT ![gp] = tick_]
    /\ tick_' = tick_ + 1

map_virtual_reg(r, gp) ==
    /\ r_map' = [v \in Virtual |-> IF v = r THEN gp
                                   ELSE IF v = gp_map[gp] THEN None
                                   ELSE r_map[v]]
    /\ gp_map' = [gp_map EXCEPT ![gp] = r]
    /\ gp_use' = [gp_use EXCEPT ![gp] = tick_]
    /\ tick_' = tick_ + 1

(* The bug of stamping fixed registers too.                                 *)
touch_fixed(r) ==
    /\ gp_use' = [gp_use EXCEPT ![r_map[r]] = tick_]
    /\ tick_' = tick_ + 1
    /\ UNCHANGED <<r_map, gp_map, mem>>

(* A mapped register is stamped with a new tick, unless it is fixed.       *)
Touch(r) ==
    /\ IF gp_use[r_map[r]] = Fixed
       THEN UNCHANGED <<gp_use, tick_>>
       ELSE /\ gp_use' = [gp_use EXCEPT ![r_map[r]] = tick_]
            /\ tick_' = tick_ + 1
    /\ UNCHANGED <<r_map, gp_map, mem>>

(* find, flush and map; indexing the tables with None is undefined.        *)
MapNew(r) ==
    LET gp == find_native_register
    IN  /\ gp # None
        /\ flush_and_unmap_native(gp)
        /\ map_virtual_reg(r, gp)

ensure_mapped(r) ==
    /\ tick_ < MaxTick
    /\ IF r_map[r] = None THEN MapNew(r) ELSE Touch(r)
    /\ UNCHANGED <<tmps, gpr>>

(* The load of r follows the save of the register it displaces.            *)
ensure_loaded(r) ==
    /\ tick_ < MaxTick
    /\ IF r_map[r] = None
       THEN /\ MapNew(r)
            /\ gpr' = [gpr EXCEPT ![find_native_register] = mem[r]]
       ELSE /\ Touch(r)
            /\ UNCHANGED gpr
    /\ UNCHANGED tmps

(* r_map without the owner of gp.  (And the bug of taking the number of the *)
(* native register for that of its owner.)                                  *)
without_number(gp) == [v \in Virtual |-> IF v = gp THEN None ELSE r_map[v]]
without_owner(gp) == [v \in Virtual |-> IF v = gp_map[gp] THEN None ELSE r_map[v]]

(* TmpAlloc's constructor: a register fixed until it is released, whose    *)
(* contents are whatever it held before.                                   *)
alloc_native_register ==
    LET gp == find_native_register
    IN  /\ Len(tmps) < MaxTmps
        /\ gp # None
        /\ flush_and_unmap_native(gp)
        /\ r_map' = without_owner(gp)
        /\ gp_map' = [gp_map EXCEPT ![gp] = None]
        /\ gp_use' = [gp_use EXCEPT ![gp] = Fixed]
        /\ tmps' = Append(tmps, gp)
        /\ UNCHANGED <<tick_, gpr>>

(* TmpAlloc's destructor; C++ destroys the objects of a block in reverse.  *)
release_native_register ==
    /\ tmps # << >>
    /\ LET gp == tmps[Len(tmps)]
       IN  gp_use' = IF gp_use[gp] = Fixed
                     THEN [gp_use EXCEPT ![gp] = None] ELSE gp_use
    /\ tmps' = SubSeq(tmps, 1, Len(tmps) - 1)
    /\ UNCHANGED <<r_map, gp_map, tick_, gpr, mem>>

Next == \/ \E r \in Virtual : ensure_mapped(r) \/ ensure_loaded(r)
        \/ alloc_native_register
        \/ release_native_register

Spec == Init /\ [][Next]_allocVars
-----------------------------------------------------------------------------
TmpRegs == {tmps[i] : i \in DOMAIN tmps}

(* Where the value of a virtual register is: its native register or home.  *)
value(r) == IF r_map[r] = None THEN mem[r] ELSE gpr[r_map[r]]

(* Every table stays within its range.                                     *)
TypeOK ==
    /\ r_map \in [Virtual -> Native \cup {None}]
    /\ gp_map \in [Native -> Virtual \cup {None}]
    /\ gp_use \in [Native -> Nat \cup {None}]
    /\ tick_ \in Nat
    /\ tmps \in Seq(Native) /\ Len(tmps) <= MaxTmps
    /\ gpr \in [Native -> Word]
    /\ mem \in [Virtual -> Word]

(* r_map and gp_map are updated at different places (map, unmap, evict) and *)
(* stay each other's inverse: two virtual registers never share a native    *)
(* register and no native register remembers an owner that has left it.     *)
MapsInverse ==
    \A r \in Virtual, gp \in Native : r_map[r] = gp <=> gp_map[gp] = r

(* A register is fixed exactly if it is pinned, reserved or a live          *)
(* temporary: an eviction, a release or a tick never makes another register *)
(* fixed (which would lose it for good) nor frees one of these.             *)
FixedExactly ==
    \A gp \in Native :
        gp_use[gp] = Fixed <=> gp \in Pinned \cup Reserved \cup TmpRegs

(* The registers fixed are each fixed for one reason: the pinned ones keep  *)
(* their virtual register, the reserved ones and the temporaries have none, *)
(* and no two temporaries share a register.                                 *)
FixedOwners ==
    /\ \A gp \in Pinned : gp_map[gp] = gp
    /\ \A gp \in Reserved \cup TmpRegs : gp_map[gp] = None
    /\ TmpRegs \cap (Pinned \cup Reserved) = {}
    /\ \A i, j \in DOMAIN tmps : tmps[i] = tmps[j] => i = j

(* The ticks order the mapped registers by last use, with no two equal: the *)
(* least recently used register is unique, and a free register has no owner.*)
TicksOrdered ==
    \A gp \in Native :
        /\ gp_use[gp] > Fixed => gp_map[gp] # None /\ gp_use[gp] < tick_
        /\ gp_use[gp] = None => gp_map[gp] = None
        /\ \A h \in Native :
              gp_use[gp] = gp_use[h] /\ gp_use[gp] > Fixed => gp = h

(* A register can always be found: gp_map is never indexed with -1.        *)
NativeFound == find_native_register # None

(* No call changes the value of a virtual register it was not asked for: a  *)
(* victim of an eviction is saved before its register is overwritten, and a *)
(* register loaded later gets that value back.  (ensure_mapped(r) declares  *)
(* that r is about to be overwritten, so r alone may change, and only when  *)
(* it was not mapped.)                                                      *)
ValuesKept ==
    [][\A r \in Virtual :
          value(r)' = value(r) \/ (ensure_mapped(r) /\ r_map[r] = None)
      ]_allocVars
=============================================================================
