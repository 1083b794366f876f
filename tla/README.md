# Verification of jitter

jitter is a small virtual assembly language. A program is an array of
`instr_t` (`jitter.h`) over sixteen scalar registers `r0..r15` and sixteen
vector registers `v0..v15`; it can be interpreted (`jitter_emu.cpp`) or
compiled to x86-64 with asmjit (`jitter_x86.cpp`). A text assembler (`jas.c`)
fills such arrays. A register allocator for virtual registers
(`jitter_regalloc*.h`) is developed beside it and exercised by `jreg.cpp`.
These modules model the allocator and its client, the integer instructions
(scalar and vector) in both execution engines, the frame that `assemble` puts
around native code, the feature flags and temporaries of its assembler object,
and the text assembler.

## The system

| part | state it keeps | operations | interacts with |
|---|---|---|---|
| register allocator (`jitter_regalloc.h`, `_x86.h`) | `r_map`, `gp_map`, `gp_use`, `tick_` | `ensure_mapped`, `ensure_loaded`, `TmpAlloc`/`~TmpAlloc` | emits loads and saves between native registers and `vregfile` |
| its client (`jreg.cpp`) | the instruction being emitted | `add`, `mov`, code on temporaries, `test()` | calls the allocator operand by operand, then reads `r_map` |
| emulator (`jitter_emu.cpp`) | position, `vregfile` | one function per opcode, `emulate()` | reads and writes fields of the unions `scalar0_t` and `vscalar0_t` |
| emitters (`jitter_x86.cpp`) | code buffer, pool of temporary registers | one `emit_` per opcode, for vectors one per feature level | run one after the other and call each other; the pool is reset at each instruction |
| `assemble()` | labels, frame, `reg_mask` | prolog, loads, labels, jumps, return, epilog | loads `vregfile`, stores the returned register |
| `ZAssembler` (`jitter_asm.h`) | free masks of temporaries, available and enabled vector features, constant pool | `alloc_`, `release`, `enable*`, `disable*` | consulted by every vector emitter |
| text assembler (`jas.c`) | tokens, operand array, comment flag, program | line by line | fills `instr_t` |
| helpers (`jitter_util.cpp`), types (`jitter_types.h`) | none | printing, comparing, loading values | used by the tests |
| tests (`jitter_test.cpp`) | feature mask | `vec_setup`; `test_icode`, `code_vop`: run both engines, compare | everything above |

Nothing here is concurrent and nothing persists. What is hard is different:

* **Sequences of calls.** Which register an operand gets depends on all the
  calls before it. A mapping may evict something the same instruction still
  needs; a victim has to be saved before its register is overwritten; a
  temporary must be neither evicted nor left fixed for ever.
* **Two tables for one relation.** `r_map` and `gp_map` are updated in
  different places, and `gp_use` encodes three things in one number
  (-1 free, 0 fixed, tick of last use).
* **Aliasing.** Every emitter must be right when its destination is one or
  both of its sources, or a register it uses itself (rcx, an xmm temporary).
* **Partial registers, lanes and widths.** The emulator writes one field of a
  64-bit union; x86 clears the upper half on 32-bit writes and leaves the rest
  alone on narrower ones. Vector instructions exist for some lane widths only:
  shifts and products of bytes are done on words and masked.
* **Two implementations of the same language**, with their own idea of jump
  targets, comparisons and returns.
* **Registers with several roles.** The virtual registers of `reg_mask` are
  native registers by number, next to rsp, the pointer to the register file,
  the temporaries, and what the caller wants back.
* **Leftovers.** `prog[pp]` keeps the fields of a line that was rejected, and
  whether a comment is open depends on the last token scanned.

What makes each part correct: the tables agree with each other and a register
can always be found (allocator); a virtual register always has the value the
program gave it (allocator and client); both engines compute the same result
for every program (emulator, emitters, `assemble`); the temporaries an emitter
asks for are there (pools); a feature that is disabled is not used (flags);
the caller's registers and the pointer survive (frame); each line becomes
exactly the instruction it names (text assembler); the comparison that decides
a test overlooks nothing (helpers).

## The modules

    VRegMachine         what the allocator promises: virtual registers
      ^ refinement
    Jreg                the client: add, mov, temporaries
      |- RegAlloc       the allocator and the code it emits
    JregTest            test() of jreg.cpp on Jreg

    JitTypes            words, types, instructions
      |- Emulator       emu_*, emulate               (scalar)
      |- X86            the processor                (scalar)
      |   |- EmitX86    the emitters                 (scalar)
      |- VecTypes       vectors, lanes, instructions
          |- EmuVec     emu_v*                       (vector)
          |   |- Compare    scmp, vcmp
          |- Xmm        the processor, with xmm registers
              |- EmitVec    the emitters             (vector)
    TempPool            the pools of temporaries
    VecFeatures         the feature flags and vec_setup

    Jit                 Emulator and EmitX86 side by side on a program
    JitVec              EmuVec and EmitVec side by side on an instruction,
                        with VecFeatures, TempPool and Compare
    JitFrame            what assemble() does around a program, with TempPool
    Jas                 the text assembler

    RegAllocProofs (the allocator, its client and the test program),
    VecFeaturesProofs,
    JitFrameProofs, JasProofs, WordProofs <- JitProofs,
    WordProofs <- EmitVecProofs <- JitVecProofs

MC* modules instantiate a specification for TLC. Operators with two names for
one idea, one of them announced as "the bug of ...", are a plausible mistake
next to the code's way; the runs tell them apart.

### RegAlloc

The variables are the fields of `RegAlloc` with their names, the registers of
the live `TmpAlloc` objects (`tmps`, destroyed in reverse order), and what the
emitted code works on: `gpr`, the native registers, and `mem`, the register
file. The emitted code is straight-line, so a call is one action that changes
the tables and executes the loads and saves it emits. `find_native_register`
is the loop of the code stated as what it returns: the highest free register,
or else the one with the least tick. `flush_and_unmap_native` is the save; its
unmapping (`unmap_virtual_reg`) is merged with the table updates that follow
it in the same call (`map_virtual_reg`, `alloc_native_register`).

`RegAllocAssumption` says that the pinned registers, the reserved ones and the
temporaries leave three native registers, one per operand of an instruction,
and that at least one register is pinned. The x86 constructor has 2 + 2 fixed
registers of 16, and jreg.cpp uses at most two temporaries, so it holds there
with room to spare. The pinned register matters: the constructor gives it
tick 0 and overwrites that with "fixed"; without one, the first register
mapped would get tick 0 and be fixed by accident.

`MaxTick` bounds `tick_` (an `int` in the code) in the guards of
`ensure_mapped` and `ensure_loaded`.

### Jreg, VRegMachine and JregTest

An instruction of the client is a sequence of actions (`StartAdd`, `LoadS1`,
`LoadS2`, `MapD`, `Exec`), one for each call it makes. No other call comes
between them in the code, and none does in the model; what the steps show is
the state in which each call finds the tables. `TmpCode` is code on
temporaries, which reads `r_map` without asking for anything to be loaded. It
is enabled for registers that are mapped.

`add` moves `s1` into `d` before it adds `s2`: for `d = s2 # s1` it computes
`2*s1`. All the calls in jreg.cpp avoid that case; `StartAdd` assumes it.

`VRegMachine` is a machine of virtual registers without native ones, which
issues an instruction, performs it in one step and retires it. The
refinement takes the value of a virtual register from its native register if
it is mapped and from the register file if not. Between `MapD` and `Exec` the
destination's old value is already lost (it was mapped, not loaded), so the
mapping counts the instruction as performed at `MapD`, the step that makes it
certain; at `Exec`, which retires it, no value may change any more.

`JregTest` is the program of `test()`, call by call. The virtual registers
start with the words of the constant `Start` and the native ones with any
element of `Garbage`; `RoomForTest` says what the program needs of an
allocator. `MCJregTest` gives it the sixteen registers of x86 and lets register
r start with 2^r, so that a sum names its summands. `CallsPossible` is about
what the calls take for granted: between the temporaries the program reads
`r_map[10]` and `r_map[12]` without `ensure_loaded`, which is right only as
long as neither temporary has evicted them.

### Jit, EmitX86, X86 and Emulator

`EmitX86` has one operator for each emitter, whose value is the sequence of
instructions it appends; `X86` runs such a sequence on a processor with
partial register writes, comparison flags and forward jumps. `Emulator` has
one operator for each `emu_` function and one for each macro that picks the
fields. `Jit` is `test_icode` of jitter_test.cpp for arbitrary programs:
`Prolog` loads the registers, then each `Step` runs one instruction in both
engines. At a `ret` the emulator stops; native code stores the register and
goes on to the end, with nothing to be compared with but its result.

The widths of the four integer sizes are constants. TLC's integers have 32
bits, so 64-bit words are out of the question; the scalar instances have 4, 5,
6 and 7 bits. That keeps the order of the widths, sign extension between any
two of them, the wrap-around of each, and shift counts beyond the operand's
width. `WidthAssumption` asks that a signed byte can count any shift of a
register, which the code relies on (imm8).

The bitwise operators of the instructions are functions on words, bit by bit
(`JitTypes`), and `Exec` is a recursive function on the code, so that the
proofs can unfold both. `ProgramsAssumption` says what a program is: its
instructions name registers of `reg_mask` only, and its jumps stay in it.

Left out of the state: the nop that `OP_NOP` emits, alignment, encodings, the
fxsave at the end (a debugging aid).

Two preconditions of a step are part of the model:

* `ShiftDefined`: C leaves a shift by the width of the (promoted) operand or
  more undefined, and x86 masks the count; programs do not shift that far.
* `ReadsAgreed`: after an 8- or 16-bit result the two engines differ above
  the result (the emulator keeps the destination's old bits, the native code
  may have moved a source over them). The tests set one type for a whole
  program; the model allows any mix of types in which an instruction reads no
  more bits of a register than were last written. `agreed` tracks that.

### JitVec and the vector modules

A vector is the pair of its 64-bit halves, and lanes are fields of them
(`VecTypes`). Widths halve exactly, as on the machine (2, 4, 8 and 16 bits in
the instance): a vector has two lanes of the widest type and sixteen bytes.
`EmuVec` has the `emu_v*` functions with the macros that loop over lanes;
`Xmm` adds the xmm instructions the emitters use to the processor; `EmitVec`
has each vector emitter in its AVX and its SSE2 form, and the choice between
them. An emitter takes the set of free xmm registers and hands a smaller set
to the emitters it calls, which is what `alloc_xmm` and the scope of a
temporary do.

`JitVec` follows `code_vop` of the tests: `vec_enable`, `vec_setup`, assemble
one instruction, run both engines on the same register file. A further step
disables AVX before assembling. That step is needed to reach the SSE2 forms at
all on a processor with AVX, because `vec_setup` does not clear it (see
below). One instruction at a time is enough: an emitter knows nothing of the
instruction before it, and every register file of the instance is a start.

`ShiftDefined` again leaves out shifts that C does not define, by a negative
count among them. It also asks that the register with the count has nothing
above the bits of the instruction's type, since the emulator reads that field
of it only. `ComparesNarrow` names the programs that compare no 64-bit lanes
with an immediate, which the emulator cuts to an `int`; MCVecOps asserts by an
`ASSUME` that it tries no other.

The assumptions on constants say what the code's own callers see to: a client
uses no register that the native code keeps for itself (`JitVecAssumption`),
SSE2 is there and is asked for (`AskedAssumption`; `main` of the tests does),
and an instruction names registers that the program has and an `imm8` that
fits its field (`VecInstructionsAssumption`).

`Compare` is the comparison with which the tests decide; it is checked on the
vectors both engines leave.

### TempPool and VecFeatures

`TempPool` is the two masks of `ZAssembler` and `alloc_`, which takes the
highest free register; without one the code has no register to return
(`NoRegister`), and `PoolSuffices` says that this does not happen.

`VecFeatures` has as actions every `enable*` and `disable*`, `vec_enable` and
`vec_setup`. A mask is the set of its flags. It keeps what the code does
where that is unexpected: the constructor sets the AVX flag for a processor
with MMX, `disable_ssse3` clears SSE3, `VEC_TYPE_VEC` (0x7f) covers neither
AVX nor AVX2.

### JitFrame

`JitFrame` abstracts what a register holds to what it is: the caller's value
of some register, the value the program gives a virtual register, the pointer
to the register file, the stack pointer, or none of these. The actions are
those of `assemble` in order: the prolog saves the callee-saved registers that
are dirty, vectors are loaded, then the scalars from the last to the first (a
step each, because the pointer is itself a register), then instructions,
returns, jumps and the epilog. A computing instruction may use any initial
part of the pools. `Allowed` says which programs and masks the properties are
about, and the instance has others as well: `assemble` does not reject a mask
with rsp, rdi or a temporary in it, and a callee-saved register that is read
but never written is loaded without having been saved.

### Jas

A text is a sequence of lines, a line a sequence of tokens. Characters are
abstracted away; a name is a sequence of parts, chosen so that the prefix
relation between names is the one between the strings, which is what `eqstrn`
looks at. The steps are those of the loop: read a line, skip a label, take the
instruction, take operands and separators, emit. `prog[pp]` is written in
place and keeps its old fields where a line says nothing of them, `ri` and
`rj` overlap the immediates as they do in the union, and an unknown type sends
the search past the end of `type_id`, where it finds nothing, or something that
lies behind, or crashes (`TypesFound`, `Crash`).

The properties compare the program with what the lines mean by the grammar at
the head of jas.c (`Means`), skipping the lines in a comment (`Open`). They are about texts that keep to the grammar;
the instance has lines that break it too.

## The runs

| run | module, config | checks | distinct states |
|---|---|---|---|
| regalloc | MCRegAlloc, RegAlloc.cfg | the invariants of the tables, `NativeFound`, `ValuesKept` | 631 thousand |
| jreg | MCJreg, Jreg.cfg | operands stay resident; the client implements `VRegMachine` | 2.8 million |
| jreg_test | MCJregTest, JregTest.cfg | `test()` ends, with the sums its comments name, and no call of it is impossible | 312 |
| jreg_test_r7 | MCJregTest, JregTestR7.cfg | **violated**: `r7=13+14+15` | |
| jit_ops | MCJitOps, JitOps.cfg | every scalar instruction, type and aliasing: both engines agree | 4.2 million |
| jit_flow | MCJitFlow, JitFlow.cfg | every three-instruction program with jumps, and programs with two returns; native code gets further with every instruction and ends when the emulator has | 721 thousand |
| jit_sll_rcx | MCJitOps, JitSll.cfg | **violated**: `dst = src1 << src2` | |
| vec_features | MCVecFeatures, VecFeatures.cfg | nothing unavailable is enabled; `vec_setup` leaves exactly the SSE levels asked for | 3223 |
| vec_setup | MCVecFeatures, VecSetup.cfg | **violated**: "all vector flags" are cleared | |
| vec_ops | MCVecOps, VecOps.cfg | every vector instruction, type and aliasing, with AVX and without: both engines agree, temporaries suffice, nothing else changes | 60 thousand |
| jit_frame | MCJitFrame, JitFrame.cfg | the caller's registers, the pointer and the virtual registers survive | 72 thousand |
| jas | MCJas, Jas.cfg | each line becomes the instruction it names, once and in order | 211 thousand |

**Bounds.** *regalloc*: six native registers, of which one is pinned and one
reserved, one temporary, five virtual registers. With the temporary alive
three registers are left for the four unpinned virtual registers, so
evictions, reloads, the fall-back from free to evictable registers, and the
release of a temporary followed by its reuse all occur within seven ticks.
The allocator copies words and never inspects them, so one initial state with
all words different stands for all. *jreg*: the same with no reserved
register; three calls of the client in any order (an `add` takes three
operands, so already the second evicts what the first used). *jreg_test*: no
bound but `Garbage`, four words that native registers may hold at the start.

*jit_ops*: three registers including rax and rcx in every arrangement, five
immediates (negative, zero, positive, both beyond and within the narrow
ranges), eleven values for each of two registers, which include the ends of
every signed and unsigned range and the shift counts around each width.
*jit_flow*: bodies of three instructions out of moves, subtractions and an
addition in two types, and every jump whose target lies in the program; and
programs that return one register in their middle, unless a branch passes it,
and another at the end, with another jump between the two. Programs may loop
until a counter has run out, or for ever.

*vec_ops*: every operation, type, and way in which three operands can
coincide; immediates of both signs within the narrow range, shift counts up to
the widest lane; eight register files with the ends of the ranges, equal
lanes, and one in whose lanes every pair of byte values occurs. Only one
processor (with everything up to AVX2), as the emitters look at AVX and SSE2
alone, and both are on and AVX off in the course of it. Comparisons of 64-bit
lanes with an immediate are left out (see below). *vec_features*: processors
of all seven levels from SSE2 to AVX2 and five masks; no bound, the state space
is finite. *jit_frame*: programs of two instructions and a return on rax, two
registers the caller wants back, and two vectors, with branches both ways;
three masks, and masks with each of rdi, rsp and a temporary. *jas*: three
lines, which is what a comment that opens, goes on and ends needs, and a
rejected line between two others; 24 shapes of lines and those with comments.

`CHECK_DEADLOCK FALSE` wherever there is an end: programs and texts end, and
bounds on ticks and calls stop the others. The feature flags never stop, and
are checked for deadlock.

**Fairness.** `JregTest` and `Jit` (`FairSpec`, in jit_flow) have a liveness
property each, under weak fairness of the next step: both are sequential code,
which runs until it returns. In `JregTest` nothing else would make it stop but
a call that cannot be carried out, which is what `ProgramEnds` rules out
(`CallsPossible` is the safety property behind it).
In `Jit` a program may loop for ever by right, and then both engines do;
`NativeEnds` says that once the emulator has returned the native code, which
runs on behind the return, comes to its end too. It excepts programs that jump
back behind a return (`NoLoopBehindReturn`), where the native code may be
caught in a loop the emulator never sees. `RunsForward` is the action property
behind it: of such programs each instruction takes the native code further. `Jas` ends because a text does, and the other modules have a
step for each call a client may or may not make.

**What the three violations show.**

* `jreg.cpp:63` adds r12 to the temporary `t2`, into which nothing has been
  moved (the move two lines up goes to `t1`), and then moves `t2` over r12. So
  r7, computed from r12 afterwards, has whatever the native register held,
  and not 13+14+15 as the comment says; r4 and r0 inherit it.
* `emit_sll` saves rcx in a temporary, shifts, moves the result into the
  destination and restores rcx. If the destination is r1, which *is* rcx, the
  restore replaces the result. `emit_srl` and `emit_sra` are written the same
  way. `MCPrograms` leaves that one case out of jit_ops, so that everything
  else about shifts is checked. (The tests always use r2 as the destination.)
* `vec_setup` begins with `disable_vec`, which clears `VEC_TYPE_VEC`, "all
  vector flags" by its comment, but 0x7f by its value, and so leaves AVX on.
  In the run it is on because the constructor sets its flag for a processor
  that has MMX (`jitter_asm.h:55`). The tests ask for SSE2 and run the AVX
  emitters on any such machine, and the SSE2 emitters are not tested. vec_ops
  checks both.

**Met while modelling, and kept out of the instances.** These are differences
between the code and what one would expect of it that the models reproduce or
state as a precondition; no run is spent on them.

* The emulator casts a lane to `int` before it compares it with an immediate
  (`jitter_emu.cpp:308-312`), native code compares 64 bits.
* Vector comparisons are signed whatever the type, in both engines alike
  (`LanesAsScalars` says so).
* `pcmpeqq`, `pcmpgtq` and `pmulld` are emitted without a check for SSE4 (a
  FIXME at `jitter_x86.cpp:2108` asks for one). `FormsEnabled` excepts these
  two features by name.
* Only destinations are dirty (`jitter_x86.cpp:2543-2557`): a callee-saved
  register of `reg_mask` that is only read is loaded and not restored.
* In jas.c an entry `add.` is found for `addi.u8`, so every immediate form
  with a type is assembled as the form without immediate; i16, i32 and i64
  stand for unsigned types in the table; a missing comma ends a line silently,
  and with it a comment that the rest of the line opens is missed; the number
  of instructions is not compared with `MAX_PROG_SIZE`.
* `print_instr` prints operands without the `%` and `$` that jas.c asks for, so
  that a listing does not parse back.

## Proofs

| module | about | inductive invariant |
|---|---|---|
| RegAllocProofs | the tables, the register found, evictions | `IInv` |
| RegAllocProofs | the client; the refinement of `VRegMachine` | `JInv`, on top of `IInv` |
| RegAllocProofs | the test program | `TestInv`, on top of `JInv` |
| VecFeaturesProofs | the feature flags | `FeaturesInv` |
| JitFrameProofs | the frame of `assemble` | `IInv` of that module |
| WordProofs | words: their low bits, signs, bitwise operations | |
| JitProofs | every scalar emitter; both engines on any program | `LInv`, and on top of it `RInv`, `FInv` |
| EmitVecProofs | lanes of a vector; every vector emitter | |
| JitVecProofs | the emulator's loops; a vector instruction in both engines | `VecInv` |
| JasProofs | the text assembler | `Inv` of that module |

### The allocator

For every number of virtual and native registers, of pinned and reserved ones,
of temporaries and ticks that satisfies `RegAllocAssumption`:

* `TablesConsistent`: `Spec => []IInv`, the inductive invariant, and from it
  `TypeCorrect`, `NoSharing`, `FixedForAReason`, `EachForOneReason`,
  `LeastRecentlyUsed` and `AlwaysFound`;
* `EvictionKeepsValues`: `Spec => ValuesKept`.

The invariants are proved together because none is inductive alone. That
`MapsInverse` survives an eviction takes that a free register has no owner
(`TicksOrdered`); that takes that the register found is not a temporary
(`FixedExactly`, `FixedOwners`); and all of them take that a tick is never 0,
since 0 reads as fixed. `tick_ > 0` holds initially because at least one
register is pinned.

`AlwaysFound` is a counting argument. The fixed registers are the pinned, the
reserved and the temporaries; the temporaries are the image of a sequence of
length at most `MaxTmps`, so they are fewer than the native registers by three
(`FixedFew`). So while no register is free at least three are evictable
(`ThreeLeft`, and `OneLeft` for what the allocator itself needs), and a set of
ticks has a least element (`LeastEvictable`). `EvictionKeepsValues` rests on
one lemma, `Displaced`, about a register whose contents are flushed and then
overwritten; `LoadingKeeps`, `MappingKeeps` and `AllocatingKeeps` state it for
each operation, and are used again for the client.

### The client

* `ClientConsistent`: `JSpec => []JInv`, and from it `JTypeCorrect` and
  `OperandsAlwaysResident`: when the code of an instruction is emitted, all of
  its operands are in native registers, although each of them was asked for
  on its own and may have evicted something.
* `AllocationInvisible`: `JSpec => ImplementsVRegMachine`. Every step of the
  client is a step of the machine of virtual registers or a stutter of it.

`OperandsResident` is not inductive. `JInv` says more: an operand that has been
asked for is fixed or among the last one or two registers used (`Recent`).
Asking again ages it by one (`StaysRecent`). It is not evicted, because three
registers can be chosen (`ThreeLeft`), their ticks are different
(`TicksOrdered`), and the least of three different ticks is not one of the two
greatest (`NotVictim`). This is why the assumption asks for three registers.

The refinement takes from the allocator that a virtual register keeps its
value, in a register or in the file, through every load, mapping and
temporary, except for the destination that is mapped and not loaded (`MLoad`,
`MPerform`). One lemma for each action of the client (`MIssue`, ...,
`MTmpCode`) gives the step of the abstract machine it implements.

### The test program

For all contents of the registers, and for every allocator with `RoomForTest`
(sixteen virtual registers, two temporaries, and five native registers besides
the pinned, the reserved and the temporaries):

* `TestIsClient`: `RoomForTest => (TestSpec => JSpec)`, the program is a client
  like any other, so that all of the above holds of it;
* `CommentedSums`: `RoomForTest => (TestSpec => []SumsAsCommented)`;
* `CallsSafe`: `RoomForTest => (TestSpec => []CallsPossible)`.

Both follow from `TestConsistent`, the invariant `TestInv`. Its part `Held`
says which sum each virtual register holds after so many calls (of the
registers the code between the temporaries spoils, r12, r7, r4 and r0, only as
long as it is known). Since the client implements `VRegMachine`, it has to be
carried through the calls of the program only (`FirstAdds`, `LastAdds`,
`TmpsKeepHeld`), and no eviction or reload appears in the argument. Its part
`BlockInv` says how recently r10 and r12 were used. After the seventh `add`,
which uses three registers, r12 is the last used and r10 among the last four,
and a temporary uses no other. A register among the last k used is not evicted
while `NumFixed + k + 1 <= NumNative` (`NotVictim`: the k + 1 registers that can
be chosen have different ticks, which by `TooManyForTicks` are not all among the
last k), `NumFixed` being as many as are ever fixed. That is the five of
`RoomForTest`; at most six of the sixteen registers of x86 are fixed.

### Features and the frame

`VecFeaturesProofs`, for every set of processors and every set of masks: in
every order of calls only available features are enabled (`OnlyAvailable`), and
after `vec_setup` the SSE levels in use are exactly the ones asked for or
implied, as far as they are there (`SetupLevels`).

`JitFrameProofs`, for all programs and masks, of any length: `CallerGetsBack`,
`PointerNeverLost`, `VirtualsNeverLost`, each under `Allowed`. The invariant
adds to the properties what was pushed (`SavedAsFound`), who owns the stack
pointer (`StackKept`), what the register file has (`FileKept`) and how far the
loads have come (`LoadedSoFar`). The step that matters is `Compute`: a
temporary is reserved, so it is no virtual register, and if the caller wants
it back it is dirty before any emitter asks for it.

### The two engines

For all widths with `WidthAssumption`, all programs with `ProgramsAssumption`,
of any length and with any jumps, and all register files:

* `InstructionCode`, of one instruction: for every opcode, type, and way its
  operands coincide, with immediates that may be anything, from every register
  file on which C defines the instruction, the code `emit_instruction` makes
  leaves in the low bits of its destination what the emulator computes, and
  leaves every other register of the program alone. The one exception is a
  shift into rcx.
* `TypeCorrect`: `Spec => []TypeOK`, without any hypothesis on the programs.
* `InStep`: `CountKept => (Spec => []LockStep)`.
* `StoresOnly`: `CountKept => (Spec => StoresOnlyResult)`.
* `ResultsAgree`: `CountKept /\ ReturnsOnce => (Spec => []SameResult)`.
* `Onward`: `CountKept => (Spec => RunsForward)`. Its invariant `FInv` adds to
  `LInv` that, once the emulator has returned, the native code is at its end or
  has a return behind it; no jump from there leads back. With the types, this
  is `NativeEnds` but for fairness: at most as many instructions follow as are
  left.

The hypotheses exclude what is known to go wrong, and nothing else. `CountKept`:
no instruction shifts by a register into rcx (jit_sll_rcx shows what happens).
`ReturnsOnce`: no register is returned by two instructions, and no jump leads
back from behind a return, since native code runs on after a return. MCJitFlow
and MCJitOps assert for the programs they run that they satisfy both, by an
`ASSUME` (but for jit_sll_rcx, whose one program is there to break the first).

The argument goes upwards in four layers. `WordProofs` is arithmetic modulo
powers of two: what the low bits of a sum, a product, a complement or a bitwise
operation depend on. Of the powers themselves the provers know nothing;
`PowerAssumption` states the two facts they need, and TLC evaluates it in every
run. The next layer is about code: executing a concatenation is executing its
parts (`ExecConcat`), and a piece of code *does* something to one register
and leaves the others (`AluCode`, `MoveCode`, `ThenCode`, `SkipCode`). Then
there is a lemma for each emitter, by the cases of how its operands coincide
and of the width: an 8-bit product is made in 16 bits, a comparison is a move, a
compare and a skipped move, `bandn` goes through a temporary. Last, the
invariant: `LInv` adds to `LockStep` what holds before the native code has
loaded its registers (`Loaded`), as the loads establish it; `RInv` adds that
the value once returned is in the register file and the instruction that stored
it lies behind (`Returned`, `Passed`), which with `ReturnsOnce` is why nothing
replaces it while native code runs on.

### The vector instructions

For all widths with `WidthAssumption` and `VectorAssumption`, all processors
with SSE2, all features asked for that imply it, all register files, and every
vector instruction, with any type, any immediate and any coincidence of its
operands:

* `EmittedComputes` (EmitVecProofs): the code `emit_vector` makes, under any
  enabled features with SSE2 among them, is made of enabled instructions on
  registers that exist, and from *every* state of the processor it leaves the
  result in the destination and changes nothing but the temporaries.
* `TypeCorrect`, `ScalarsSafe`, `PoolEnough`, `FormsSafe`, `CompareSound`:
  `Spec => []` of `TypeOK`, `ScalarsKept`, `PoolSuffices`, `FormsEnabled`,
  `CompareExact`.
* `VectorsAgree`: `ComparesNarrow => (Spec => []SameVectors)`.
* `LanesAreScalars`: `ComparesNarrow => (Spec => []LanesAsScalars)`.

`ComparesNarrow` is the one hypothesis, and excludes what is known to go wrong:
without it both statements are false (`jitter_emu.cpp:311`).

The lowest layer is about lanes. A lane is a digit of a word in base 2^w
(`Digits`), `Pack` of numbers of w bits is the vector with those lanes
(`PackLanes`), and a vector is determined by its lanes at any width
(`SameLanes`). The recursive function in `Pack` is shown to have the sum it
should by giving that sum outright (`SumExists`), not by induction. Lanes of two
widths are related by `HalfLanes`: the code reads the same register as bytes
and as words, when it multiplies or shifts bytes, of which the processor has no
such instruction, or assembles a product of 64 bits from products of 32.

Above it there is a lemma for each emitter, in its AVX and its SSE2 form and by
the cases of how operands coincide. `Does` says of a piece of code that it
computes a value into one register and leaves all others alone, whatever was
there before; emitters that call others compose these statements, and the set
of free temporaries handed down is a parameter of them, which is how
`PoolSuffices` is proved with the rest. `Fine` is the set of instructions that
are on existing registers and of enabled features.

On the other side every loop of the emulator is shown to put into the
destination what the processor computes: `Both` of two vectors for
operations of two, `ByCount` for shifts, `Negated`, `Not` and `Splat`. The two
sides disagree on how a lane is read (signed or not, and 64 bits at a time for
bitwise operations), so each loop has a lemma that the low bits of what C
computes from the number it reads are the lane of the result (`LoopBoth`,
`ShiftLoop`, `UnaryLoop`). `LanesAreScalars` uses the same lemmas a second time,
for the scalar instruction.

`SameVectors` is not inductive: it speaks of the end only. `VecInv` has three
parts. `FeaturesKept`: SSE2 is in use from `vec_setup` on, whoever disables
AVX in between, or else `emit_vector` would have no form to emit. `CodeRight`:
the code computes its instruction from any state of the processor
(`Computes`), which is what remains of the features once they may change
again. `BothRun`: both runs start on one register file and are done together.

### The text assembler

For every set of lines, each any sequence of tokens, and any number of them:

* `TypeCorrect`: `Spec => []TypeOK`, the fields of `prog` within their widths
  in particular;
* `SyntaxAccepted`: `Spec => []Accepted`, a grammatical text is not rejected;
* `AssembledRight`: `Spec => []Assembled`, each instruction means what its line
  says, and no line gives two;
* `NoLineLost`: `Spec => []NoneLost`, each line to be kept gives one.

`Inv` has five parts. `TInv` has the types, how many lines are done with
and that `ptr` is on the line while one is at work. `Scan` ties the position to
the grammar: before operand m it is on token 2m + 1 of the statement, and the
operands taken are every second token; and `comment` says whether the lines
read leave a comment open. `Ordered`, `Written` and `Found` are the properties,
for the lines that are done with. `Written` would not be inductive without
`Scan`, which says that at `emit` the operand array has the operands of this
line, all and no others. That an old instruction is never damaged takes that
`emit` writes at `pp` only and that `Open` of the lines read does not change
when another is read (`OpenAppended`). That leftovers of a rejected line do not
show takes that the fields `Means` looks at are the fields the operands of
such a line write (`OperandsWritten`, `Apart`): that is where `ri` and `rj`
overlapping the immediates could do harm.

### Only model-checked

* `ProgramEnds` and `NativeEnds` are liveness, out of the prover's reach; what
  they rest on is proved (`CallsSafe` and `AlwaysFound`, `Onward`).
* `R7AsCommented`, `SllAsCommented` and `SetupAsAsked` are violated.

## Not modelled

* Floating point, scalar and in lanes: TLC has no such numbers.
* The constant pool of `ZAssembler`, a wrapper of asmjit's, and whatever
  asmjit does below an instruction (encodings, alignment, label binding).
* Printing (`jitter_util.cpp`, `dump` of the allocator, the listing of jas.c),
  and the loading of test values by `memcpy`.
* The characters of a token in jas.c, and the longest line it can read.
* The fxsave at the end of native code and the dump it fills, for debugging.
* Jumps out of the program, which neither engine checks: `lbl` is indexed past
  its end, and the emulator misses its test for the end. What happens then
  depends on what lies behind an array.
* Programs with two returns of one register: native code runs on, so that the
  second return replaces the result of the first.
* `tick_` beyond 2^31: the models bound it below any overflow.
* The scalar fall-back of the vector emitters on a processor without SSE2, which
  x86-64 does not have; `FormsEnabled` shows that it is never taken otherwise.
