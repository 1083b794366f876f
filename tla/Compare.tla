------------------------------ MODULE Compare ------------------------------
(***************************************************************************)
(* The comparisons of jitter_util.cpp with which jitter_test.cpp decides   *)
(* whether emulator and native code agree: -1, 0 or 1.  They read the same *)
(* fields of the unions as the emulator does.                              *)
(***************************************************************************)
EXTENDS EmuVec

CMP(a, b) == CASE a < b -> -1 [] a > b -> 1 [] OTHER -> 0

scmp(type, a, b) == CMP(Field(type, a), Field(type, b))

(* Vectors compare as the first of their lanes that differ.  (And the bug   *)
(* of a loop that stops before the last lane.)                              *)
vcmp_body(type, a, b, lanes) ==
    LET differ == {k \in lanes : LaneField(type, a, k) # LaneField(type, b, k)}
        first == CHOOSE k \in differ : \A l \in differ : k <= l
    IN  IF differ = {} THEN 0
        ELSE CMP(LaneField(type, a, first), LaneField(type, b, first))
vcmp_short(type, a, b) ==
    vcmp_body(type, a, b, {k \in LaneIndex(Width(type)) : k + 1 \in LaneIndex(Width(type))})
vcmp(type, a, b) == vcmp_body(type, a, b, LaneIndex(Width(type)))
=============================================================================
