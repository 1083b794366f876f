---------------------------- MODULE VecFeatures -----------------------------
(***************************************************************************)
(* The vector features of a ZAssembler (jitter_asm.h): which ones its      *)
(* constructor finds on the processor, which ones the emitters may use,    *)
(* and the calls that change that, among them vec_setup of the tests.      *)
(* A bit mask is the set of its flags.                                     *)
(***************************************************************************)
EXTENDS Integers

CONSTANTS Cpus,     \* the feature sets of processors
          Masks     \* masks that callers pass

(* The flags in the order of their bits, and VEC_TYPE_VEC, 0x7f of them.    *)
SSEFlags == {"SSE", "SSE2", "SSE3", "SSSE3", "SSE4_1", "SSE4_2"}
Level == [SSE |-> 1, SSE2 |-> 2, SSE3 |-> 3, SSSE3 |-> 4, SSE4_1 |-> 5, SSE4_2 |-> 6]
Flags == {"MMX"} \cup SSEFlags \cup {"AVX", "AVX2"}
VEC == {"MMX"} \cup SSEFlags

ASSUME FlagsAssumption == Cpus \subseteq SUBSET Flags /\ Masks \subseteq SUBSET Flags

VARIABLES cpu,              \* the processor: what cpuFeatures() reports
          vec_available,
          vec_enabled,
          vec_enable_mask,  \* the global of jitter_test.cpp
          setup             \* vec_setup is the last call made

featureVars == <<cpu, vec_available, vec_enabled, vec_enable_mask, setup>>

(* What the constructor makes of the processor: hasMMX sets VEC_TYPE_AVX.   *)
Detect(c) == (c \cap (Flags \ {"MMX"})) \cup {f \in {"AVX"} : "MMX" \in c}

Init == /\ cpu \in Cpus
        /\ vec_available = Detect(cpu)
        /\ vec_enabled = vec_available
        /\ vec_enable_mask = {}
        /\ setup = FALSE

use_avx == "AVX" \in vec_enabled
use_sse2 == "SSE2" \in vec_enabled

-----------------------------------------------------------------------------
(* What disable and enable make of the features enabled, and the bug of     *)
(* enabling what is asked for whether or not it is available.               *)
Without(enabled, mask) == enabled \ mask
WithAll(enabled, mask) == enabled \cup mask
With(enabled, mask) == enabled \cup (vec_available \cap mask)

Enabled(e) == /\ vec_enabled' = e
              /\ setup' = FALSE
              /\ UNCHANGED <<cpu, vec_available, vec_enable_mask>>

enable(mask) == Enabled(With(vec_enabled, mask))
disable(mask) == Enabled(Without(vec_enabled, mask))

(* enable_mmx .. enable_avx2 and enable_vec pass their own flags, and so do *)
(* their opposites, except disable_ssse3, which passes VEC_TYPE_SSE3.       *)
enable_one == \E f \in Flags : enable({f})
disable_one == \E f \in Flags \ {"SSSE3"} : disable({f})
disable_ssse3 == disable({"SSE3"})
enable_vec == enable(VEC)
disable_vec == disable(VEC)

-----------------------------------------------------------------------------
(* What vec_setup enables for a flag of vec_enable_mask: for an SSE level   *)
(* all levels up to it, AVX with AVX2; and the bug of the flag alone.       *)
Alone(f) == {f}
Implied(f) ==
    IF f \in SSEFlags THEN {g \in SSEFlags : Level[g] <= Level[f]}
    ELSE IF f = "AVX2" THEN {"AVX", "AVX2"} ELSE {f}

vec_enable(mask) == /\ vec_enable_mask' = mask
                    /\ setup' = FALSE
                    /\ UNCHANGED <<cpu, vec_available, vec_enabled>>

(* disable_vec first, and the bug of leaving it out.                        *)
NotCleared(enabled) == enabled
Cleared(enabled) == Without(enabled, VEC)

vec_setup ==
    /\ vec_enabled' = With(Cleared(vec_enabled),
                           UNION {Implied(f) : f \in vec_enable_mask})
    /\ setup' = TRUE
    /\ UNCHANGED <<cpu, vec_available, vec_enable_mask>>

Next == \/ \E mask \in Masks : enable(mask) \/ disable(mask) \/ vec_enable(mask)
        \/ enable_one \/ disable_one \/ disable_ssse3 \/ enable_vec \/ disable_vec
        \/ vec_setup

Spec == Init /\ [][Next]_featureVars
-----------------------------------------------------------------------------
FeaturesTypeOK == /\ cpu \in Cpus
                  /\ vec_available \subseteq Flags
                  /\ vec_enabled \subseteq Flags
                  /\ vec_enable_mask \subseteq Flags
                  /\ setup \in BOOLEAN

(* No order of enable, disable and vec_setup calls makes the emitters use a *)
(* feature the constructor has not found.                                   *)
EnabledAvailable == vec_enabled \subseteq vec_available

(* After vec_setup the SSE levels in use are those the mask asks for or     *)
(* implies, as far as the processor has them: calls made before it leave no *)
(* trace, and each level comes with the ones below it.                      *)
SetupExact ==
    setup => vec_enabled \cap SSEFlags
             = {f \in cpu \cap SSEFlags :
                  \E g \in vec_enable_mask \cap SSEFlags : Level[f] <= Level[g]}

(* An AVX emitter is chosen after vec_setup only if the mask asks for it:   *)
(* "all vector flags", the comment on VEC_TYPE_VEC that vec_setup clears.   *)
SetupAsAsked == setup => (use_avx => vec_enable_mask \cap {"AVX", "AVX2"} # {})
=============================================================================
