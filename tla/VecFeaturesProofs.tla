------------------------- MODULE VecFeaturesProofs --------------------------
(* For every set of processors and masks: what is enabled was found on the  *)
(* processor, and vec_setup leaves exactly the SSE levels asked for.        *)
EXTENDS VecFeatures, TLAPS

(* The constructor's reading of the processor is never changed afterwards.  *)
AvailableFixed == vec_available = Detect(cpu)

FeaturesInv == /\ FeaturesTypeOK
               /\ AvailableFixed
               /\ EnabledAvailable
               /\ SetupExact

(* A call that only changes what is enabled, within what is available,      *)
(* preserves the invariant.                                                 *)
LEMMA EnabledPreserves ==
    ASSUME FeaturesInv, NEW e \in SUBSET vec_available, Enabled(e)
    PROVE  FeaturesInv'
  BY DEF FeaturesInv, FeaturesTypeOK, AvailableFixed, EnabledAvailable, SetupExact,
         Enabled

(* Only an SSE flag of the mask brings SSE levels with it.                  *)
LEMMA ImpliedLevels ==
    ASSUME NEW mask \in SUBSET Flags, NEW f \in SSEFlags
    PROVE  f \in UNION {Implied(g) : g \in mask}
             <=> \E g \in mask \cap SSEFlags : Level[f] <= Level[g]
  <1>1. ASSUME NEW g \in mask, f \in Implied(g)
        PROVE  g \in SSEFlags
    <2>1. g \in {"MMX", "AVX", "AVX2"} => f \notin Implied(g)
      BY DEF Implied, SSEFlags
    <2>2. QED
      BY <1>1, <2>1 DEF Flags
  <1>2. ASSUME NEW g \in SSEFlags
        PROVE  f \in Implied(g) <=> Level[f] <= Level[g]
    BY <1>2 DEF Implied
  <1>3. QED
    BY <1>1, <1>2

(* vec_setup itself.                                                       *)
LEMMA SetupPreserves ==
    ASSUME FeaturesInv, vec_setup
    PROVE  FeaturesInv'
  <1> DEFINE asked == UNION {Implied(f) : f \in vec_enable_mask}
  <1>1. vec_enabled' = (vec_enabled \ VEC) \cup (vec_available \cap asked)
    BY DEF vec_setup, With, Cleared, Without
  <1>2. vec_enabled' \subseteq vec_available
    BY <1>1 DEF FeaturesInv, EnabledAvailable
  <1>3. vec_available \cap SSEFlags = cpu \cap SSEFlags
    BY DEF FeaturesInv, AvailableFixed, Detect, SSEFlags, Flags
  <1>4. vec_enabled' \cap SSEFlags = cpu \cap SSEFlags \cap asked
    BY <1>1, <1>3 DEF VEC
  <1>5. ASSUME NEW f \in SSEFlags
        PROVE  f \in asked <=> \E g \in vec_enable_mask \cap SSEFlags : Level[f] <= Level[g]
    BY ImpliedLevels DEF FeaturesInv, FeaturesTypeOK
  <1> HIDE DEF asked
  <1>6. vec_enabled' \cap SSEFlags
          = {f \in cpu \cap SSEFlags :
               \E g \in vec_enable_mask \cap SSEFlags : Level[f] <= Level[g]}
    BY <1>4, <1>5
  <1>7. SetupExact'
    BY <1>6 DEF vec_setup, SetupExact
  <1>8. FeaturesTypeOK' /\ AvailableFixed' /\ EnabledAvailable'
    BY <1>2 DEF vec_setup, FeaturesInv, FeaturesTypeOK, AvailableFixed, EnabledAvailable
  <1>9. QED
    BY <1>7, <1>8 DEF FeaturesInv

(* A disable call only removes, an enable call adds only what is available. *)
LEMMA CallPreserves ==
    ASSUME FeaturesInv, NEW mask, enable(mask) \/ disable(mask)
    PROVE  FeaturesInv'
  <1>1. With(vec_enabled, mask) \in SUBSET vec_available
    BY DEF FeaturesInv, EnabledAvailable, With
  <1>2. Without(vec_enabled, mask) \in SUBSET vec_available
    BY DEF FeaturesInv, EnabledAvailable, Without
  <1>3. QED
    BY <1>1, <1>2, EnabledPreserves DEF enable, disable

(* The inductive invariant: it holds of a new assembler and every call      *)
(* preserves it.                                                            *)
THEOREM FeaturesConsistent == Spec => []FeaturesInv
  <1>1. Init => FeaturesInv
    BY FlagsAssumption DEF Init, FeaturesInv, FeaturesTypeOK, AvailableFixed,
       EnabledAvailable, SetupExact, Detect, Flags
  <1>2. FeaturesInv /\ [Next]_featureVars => FeaturesInv'
    <2> SUFFICES ASSUME FeaturesInv, [Next]_featureVars PROVE FeaturesInv'
      OBVIOUS
    <2>1. CASE \E mask \in Masks : enable(mask) \/ disable(mask)
      BY <2>1, CallPreserves
    <2>2. CASE \E mask \in Masks : vec_enable(mask)
      BY <2>2, FlagsAssumption DEF vec_enable, FeaturesInv, FeaturesTypeOK,
         AvailableFixed, EnabledAvailable, SetupExact
    <2>3. CASE enable_one \/ disable_one \/ disable_ssse3 \/ enable_vec \/ disable_vec
      BY <2>3, CallPreserves
         DEF enable_one, disable_one, disable_ssse3, enable_vec, disable_vec
    <2>4. CASE vec_setup
      BY <2>4, SetupPreserves
    <2>5. CASE UNCHANGED featureVars
      BY <2>5 DEF featureVars, FeaturesInv, FeaturesTypeOK, AvailableFixed,
         EnabledAvailable, SetupExact
    <2>6. QED
      BY <2>1, <2>2, <2>3, <2>4, <2>5 DEF Next
  <1>3. QED
    BY <1>1, <1>2, PTL DEF Spec

(* Emitters never use a feature that was not found: EnabledAvailable.       *)
THEOREM OnlyAvailable == Spec => []EnabledAvailable
  BY FeaturesConsistent, PTL DEF FeaturesInv

(* vec_setup leaves the SSE levels asked for and no trace of earlier calls. *)
THEOREM SetupLevels == Spec => []SetupExact
  BY FeaturesConsistent, PTL DEF FeaturesInv
=============================================================================
